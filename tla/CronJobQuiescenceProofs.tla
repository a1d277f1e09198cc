----------------------- MODULE CronJobQuiescenceProofs -----------------------
(* When nothing is left to do, files and jobs agree: the inductive invariant *)
(* of QuiescentConsistent and its proof, for every value of the constants.   *)
EXTENDS CronJobControllerProofs, Functions, FiniteSetTheorems

Added(j) == [type |-> "added", job |-> j]
Deleted(j) == [type |-> "deleted", job |-> j]

\* The events the handler has still to see.
Unseen == Range(stream) \cup Range(notes)

\* A process without a started cache has heard of no job and deletes none.
NothingHeard ==
  phase # "running" =>
    /\ toSync = {} /\ cache = {} /\ stream = <<>> /\ notes = <<>>
    /\ stage["handler"] = "idle"
    /\ \A a \in Actors : deletes[a] = {}

\* The cache and the events on their way to it tell which jobs there are.
CacheHasJobs ==
  phase = "running" =>
    \A j \in jobs : j \in cache \cup toSync \/ Added(j) \in Range(stream)
CachedAreJobs ==
  \A j \in cache \cup toSync : j \in jobs \/ Deleted(j) \in Range(stream)
DeletedAreGone ==
  \A e \in Range(stream) : e.type = "deleted" => e.job \notin jobs
AddedAreJobs ==
  \A k \in DOMAIN stream :
    stream[k].type = "added" =>
      \/ stream[k].job \in jobs
      \/ \E m \in DOMAIN stream : k < m /\ stream[m] = Deleted(stream[k].job)

InformerInv == NothingHeard /\ CacheHasJobs /\ CachedAreJobs /\ DeletedAreGone /\ AddedAreJobs

\* What will give a line its job: a restart, a poll, the deletion of its job
\* that the handler has still to see, a pass that read it, or a call.
Awaited(u, i) ==
  \/ phase = "down"
  \/ u \in dirty \cup requests
  \/ \E e \in Unseen : e.type = "deleted" /\ e.job.user = u /\ e.job.id = i
  \/ stage["watcher"] = "list" /\ ReadBy("watcher", u, i)
  \/ \E a \in Actors : owner[a] = u /\ \E c \in creates[a] : c[2] = i

\* What will take a job without a line: the initial list, a poll, its creation
\* that the handler has still to see, a pass that missed the line, or a call.
Doomed(j) ==
  \/ phase # "running"
  \/ j.user \in dirty \cup requests
  \/ j \in toSync
  \/ Added(j) \in Unseen
  \/ /\ stage["watcher"] = "list"
     /\ owner["watcher"] = j.user /\ j.id \notin IdsOf(snap["watcher"])
  \/ \E a \in Actors : j \in deletes[a]

LinesAwaited ==
  \A u \in Users, i \in Ids :
    Answerable(u, i) /\ InFile(u, i) /\ ~HasJob(u, i) => Awaited(u, i)

JobsDoomed ==
  \A j \in jobs : Answerable(j.user, j.id) /\ ~InFile(j.user, j.id) => Doomed(j)

SettlingInv == InformerInv /\ LinesAwaited /\ JobsDoomed

-----------------------------------------------------------------------------
(* Facts about the helpers *)

LEMMA RangeOfAppend ==
  ASSUME NEW S, NEW s \in Seq(S), NEW e \in S
  PROVE  Range(Append(s, e)) = Range(s) \cup {e}
  <1>1. DOMAIN Append(s, e) = DOMAIN s \cup {Len(s) + 1}
    OBVIOUS
  <1>2. Len(s) + 1 \notin DOMAIN s /\ Append(s, e)[Len(s) + 1] = e
    OBVIOUS
  <1>3. \A k \in DOMAIN s : Append(s, e)[k] = s[k]
    OBVIOUS
  <1>4. QED
    BY <1>1, <1>2, <1>3 DEF Range

LEMMA RangeOfTail ==
  ASSUME NEW S, NEW s \in Seq(S), s # <<>>
  PROVE  Range(s) = {Head(s)} \cup Range(Tail(s))
  <1>1. Head(s) = s[1] /\ 1 \in DOMAIN s
    OBVIOUS
  <1>2. \A k \in DOMAIN Tail(s) : k + 1 \in DOMAIN s /\ Tail(s)[k] = s[k + 1]
    OBVIOUS
  <1>3. \A k \in DOMAIN s : k = 1 \/ (k - 1 \in DOMAIN Tail(s) /\ Tail(s)[k - 1] = s[k])
    OBVIOUS
  <1>4. QED
    BY <1>1, <1>2, <1>3 DEF Range

LEMMA RangeOfEmpty == Range(<<>>) = {}
  BY DEF Range

\* A line of a content that is wanted is asked for.
LEMMA CallOfLine ==
  ASSUME NEW content \in Seq(SUBSET Ids), NEW wanted, NEW i \in IdsOf(content) \cap wanted
  PROVE  \E c \in CallsFor(content, wanted) : c[2] = i
  <1>1. PICK k \in DOMAIN content : i \in content[k]
    BY DEF IdsOf
  <1>2. i \in Ids
    BY <1>1
  <1>3. <<k, i>> \in CallsFor(content, wanted)
    BY <1>1, <1>2 DEF CallsFor
  <1>4. QED
    BY <1>3

LEMMA EventTypes ==
  ASSUME TypeOK
  PROVE  /\ Range(stream) \subseteq Event /\ Range(notes) \subseteq Event
         /\ \A e \in Event : /\ e.job \in Job
                             /\ e = Added(e.job) \/ e = Deleted(e.job)
                             /\ e.type = "added" \/ e.type = "deleted"
         /\ \A j \in Job : /\ Added(j) \in Event /\ Deleted(j) \in Event
                           /\ Added(j).type = "added" /\ Added(j).job = j
                           /\ Deleted(j).type = "deleted" /\ Deleted(j).job = j
  <1>1. Range(stream) \subseteq Event /\ Range(notes) \subseteq Event
    BY DEF TypeOK, Range
  <1>2. ASSUME NEW e \in Event
        PROVE  /\ e.job \in Job
               /\ e = Added(e.job) \/ e = Deleted(e.job)
               /\ e.type = "added" \/ e.type = "deleted"
    BY DEF Event, Added, Deleted
  <1>3. \A j \in Job : /\ Added(j) \in Event /\ Deleted(j) \in Event
                       /\ Added(j).type = "added" /\ Added(j).job = j
                       /\ Deleted(j).type = "deleted" /\ Deleted(j).job = j
    BY DEF Event, Added, Deleted
  <1>4. QED
    BY <1>1, <1>2, <1>3

\* What the API server's event adds to the stream.
LEMMA EmitAdds ==
  ASSUME TypeOK, NEW type \in {"added", "deleted"}, NEW j \in Job, Emit(type, j)
  PROVE  /\ phase = "running" =>
              /\ stream' = Append(stream, [type |-> type, job |-> j])
              /\ Range(stream') = Range(stream) \cup {[type |-> type, job |-> j]}
         /\ phase # "running" => stream' = stream
  <1>1. [type |-> type, job |-> j] \in Event
    BY DEF Event
  <1>2. stream \in Seq(Event)
    BY DEF TypeOK
  <1>3. QED
    BY <1>1, <1>2, RangeOfAppend DEF Emit

\* A call is made for a user and a line.
LEMMA CallsHaveOwners ==
  ASSUME TypeOK, PassShape, NEW a \in Actors, NEW c \in creates[a]
  PROVE  owner[a] \in Users /\ c[2] \in Ids
  <1>1. c \in Nat \X Ids
    BY DEF TypeOK
  <1>2. owner[a] # NoUser
    BY DEF PassShape
  <1>3. owner[a] \in Users \cup {NoUser}
    BY DEF TypeOK
  <1>4. QED
    BY <1>1, <1>2, <1>3

\* After the read of a file that can be read, its lines are what was read.
LEMMA ReadsWhatIsThere ==
  ASSUME TypeOK, NEW u \in Users, access[u] \notin {"denied", "broken"}
  PROVE  FSEntry(u) = crontab[u]
  BY DEF TypeOK, FSEntry

-----------------------------------------------------------------------------
(* The informer *)

\* A process that has ended has heard of nothing.
LEMMA DownForgets ==
  ASSUME Down
  PROVE  InformerInv'
  <1>1. /\ phase' = "down" /\ toSync' = {} /\ cache' = {} /\ stream' = <<>> /\ notes' = <<>>
        /\ stage' = [a \in Actors |-> "idle"] /\ deletes' = [a \in Actors |-> {}]
    BY DEF Down
  <1>2. NothingHeard' /\ CacheHasJobs' /\ CachedAreJobs'
    BY <1>1 DEF NothingHeard, CacheHasJobs, CachedAreJobs, Actors
  <1>3. DeletedAreGone' /\ AddedAreJobs'
    BY <1>1, RangeOfEmpty DEF DeletedAreGone, AddedAreJobs
  <1>4. QED
    BY <1>2, <1>3 DEF InformerInv

\* A step that changes no job and none of the informer's knowledge.
LEMMA InformerFrame ==
  ASSUME InformerInv, UNCHANGED <<jobs, phase, toSync, stream, cache>>, NothingHeard'
  PROVE  InformerInv'
  BY DEF InformerInv, CacheHasJobs, CachedAreJobs, DeletedAreGone, AddedAreJobs, Range

LEMMA SyncEventInforms ==
  ASSUME TypeOK, InformerInv, SyncEvent
  PROVE  InformerInv'
  <1> DEFINE h == Head(stream)
  <1>1. stream \in Seq(Event) /\ stream # <<>>
    BY DEF TypeOK, SyncEvent
  <1>2. /\ h \in Event /\ h = stream[1]
        /\ Range(stream) = {h} \cup Range(stream')
        /\ \A k \in DOMAIN stream' : k + 1 \in DOMAIN stream /\ stream'[k] = stream[k + 1]
        /\ \A k \in DOMAIN stream : k # 1 => k - 1 \in DOMAIN stream' /\ stream'[k - 1] = stream[k]
        /\ DOMAIN stream \subseteq Nat /\ DOMAIN stream' \subseteq Nat /\ 1 \in DOMAIN stream
    <2>1. stream' = Tail(stream)
      BY DEF SyncEvent
    <2>2. Range(stream) = {h} \cup Range(stream')
      BY <1>1, <2>1, RangeOfTail
    <2>3. h \in Event /\ h = stream[1] /\ 1 \in DOMAIN stream
      BY <1>1
    <2>4. QED
      BY <1>1, <2>1, <2>2, <2>3
  <1>3. /\ toSync = {} /\ UNCHANGED <<jobs, phase, toSync, stage, deletes>>
        /\ cache' = IF h.type = "added" THEN cache \cup {h.job} ELSE cache \ {h.job}
    BY DEF SyncEvent, passVars
  <1>4. phase = "running"
    BY <1>1 DEF InformerInv, NothingHeard
  <1>5. /\ h = Added(h.job) \/ h = Deleted(h.job)
        /\ h.type = "added" \/ h.type = "deleted"
        /\ h.type = "deleted" => h = Deleted(h.job)
        /\ h.job \in Job
        /\ \A j \in Job : Added(j) # Deleted(h.job) /\ (Deleted(j) = h => j = h.job)
                          /\ (Added(j) = h => j = h.job /\ h.type = "added")
    <2>1. h = [type |-> h.type, job |-> h.job] /\ h.type \in {"added", "deleted"} /\ h.job \in Job
      BY <1>2 DEF Event
    <2>2. \A j : Added(j).type = "added" /\ Added(j).job = j
                 /\ Deleted(j).type = "deleted" /\ Deleted(j).job = j
      BY DEF Added, Deleted
    <2>3. h = Added(h.job) \/ h = Deleted(h.job)
      BY <2>1 DEF Added, Deleted
    <2>4. h.type = "deleted" => h = Deleted(h.job)
      BY <2>1 DEF Deleted
    <2>5. QED
      BY <2>1, <2>2, <2>3, <2>4
  <1>6. NothingHeard'
    BY <1>3, <1>4 DEF NothingHeard
  <1>7. CacheHasJobs'
    <2> SUFFICES ASSUME NEW j \in jobs
                 PROVE  j \in cache' \/ Added(j) \in Range(stream')
      BY <1>3, <1>4 DEF CacheHasJobs
    <2>1. j \in Job /\ (j \in cache \/ Added(j) \in Range(stream))
      BY <1>3, <1>4 DEF InformerInv, CacheHasJobs, TypeOK
    <2>2. CASE h.type = "deleted"
      <3>1. h.job \notin jobs
        BY <1>2, <2>2 DEF InformerInv, DeletedAreGone
      <3>2. QED
        BY <1>2, <1>3, <1>5, <2>1, <2>2, <3>1
    <2>3. CASE h.type = "added"
      BY <1>2, <1>3, <1>5, <2>1, <2>3
    <2>4. QED
      BY <1>5, <2>2, <2>3
  <1>8. CachedAreJobs'
    <2> SUFFICES ASSUME NEW j \in cache', j \notin jobs
                 PROVE  Deleted(j) \in Range(stream')
      BY <1>3 DEF CachedAreJobs
    <2>1. CASE j \in cache
      <3>1. Deleted(j) \in Range(stream) /\ j \in Job
        BY <2>1 DEF InformerInv, CachedAreJobs, TypeOK
      <3>2. Deleted(j) # h
        BY <1>3, <1>5, <2>1, <3>1 DEF Deleted
      <3>3. QED
        BY <1>2, <3>1, <3>2
    <2>2. CASE j \notin cache
      <3>1. h.type = "added" /\ j = h.job
        BY <1>3, <2>2
      <3>2. PICK m \in DOMAIN stream : 1 < m /\ stream[m] = Deleted(j)
        BY <1>2, <3>1 DEF InformerInv, AddedAreJobs
      <3>3. m - 1 \in DOMAIN stream' /\ stream'[m - 1] = Deleted(j)
        BY <1>2, <3>2
      <3>4. QED
        BY <3>3 DEF Range
    <2>3. QED
      BY <2>1, <2>2
  <1>9. DeletedAreGone'
    BY <1>2, <1>3 DEF InformerInv, DeletedAreGone
  <1>10. AddedAreJobs'
    <2> SUFFICES ASSUME NEW k \in DOMAIN stream', stream'[k].type = "added", stream'[k].job \notin jobs
                 PROVE  \E m \in DOMAIN stream' : k < m /\ stream'[m] = Deleted(stream'[k].job)
      BY <1>3 DEF AddedAreJobs
    <2>1. k + 1 \in DOMAIN stream /\ stream[k + 1] = stream'[k]
      BY <1>2
    <2>2. PICK m \in DOMAIN stream : k + 1 < m /\ stream[m] = Deleted(stream'[k].job)
      BY <2>1 DEF InformerInv, AddedAreJobs
    <2>3. m - 1 \in DOMAIN stream' /\ stream'[m - 1] = stream[m] /\ k < m - 1
      BY <1>2, <2>2
    <2>4. QED
      BY <2>2, <2>3
  <1>11. QED
    BY <1>6, <1>7, <1>8, <1>9, <1>10 DEF InformerInv

\* A job with a name nobody uses is created.
LEMMA CreationInforms ==
  ASSUME TypeOK, InformerInv, NEW j \in Job, j.name \notin NamesInUse,
         jobs' = jobs \cup {j}, Emit("added", j),
         UNCHANGED <<phase, toSync, cache, notes, stage, deletes>>
  PROVE  InformerInv'
  <1>1. CASE phase # "running"
    BY <1>1, EmitAdds, RangeOfEmpty
    DEF InformerInv, NothingHeard, CacheHasJobs, CachedAreJobs, DeletedAreGone, AddedAreJobs
  <1>2. CASE phase = "running"
    <2>1. /\ stream' = Append(stream, Added(j)) /\ stream \in Seq(Event) /\ Added(j) \in Event
          /\ Range(stream') = Range(stream) \cup {Added(j)}
      BY <1>2, EmitAdds, EventTypes DEF TypeOK, Added
    <2>2. \A e \in Range(stream) : e.job # j
      BY DEF NamesInUse, Range
    <2>3. Added(j).type = "added" /\ Added(j).job = j
      BY DEF Added
    <2>4. NothingHeard' /\ CacheHasJobs' /\ CachedAreJobs'
      BY <1>2, <2>1 DEF InformerInv, NothingHeard, CacheHasJobs, CachedAreJobs
    <2>5. DeletedAreGone'
      BY <2>1, <2>2, <2>3 DEF InformerInv, DeletedAreGone
    <2>6. AddedAreJobs'
      <3> SUFFICES ASSUME NEW k \in DOMAIN stream', stream'[k].type = "added",
                          stream'[k].job \notin jobs'
                   PROVE  \E m \in DOMAIN stream' : k < m /\ stream'[m] = Deleted(stream'[k].job)
        BY DEF AddedAreJobs
      <3>1. /\ \A l \in DOMAIN stream : l \in DOMAIN stream' /\ stream'[l] = stream[l]
            /\ k \in DOMAIN stream \/ stream'[k] = Added(j)
        BY <2>1
      <3>2. k \in DOMAIN stream
        BY <2>3, <3>1
      <3>3. PICK m \in DOMAIN stream : k < m /\ stream[m] = Deleted(stream[k].job)
        BY <3>1, <3>2 DEF InformerInv, AddedAreJobs
      <3>4. QED
        BY <3>1, <3>2, <3>3
    <2>7. QED
      BY <2>4, <2>5, <2>6 DEF InformerInv
  <1>3. QED
    BY <1>1, <1>2

\* A job is deleted, by the operator or by somebody else.
LEMMA DeletionInforms ==
  ASSUME TypeOK, InformerInv, NEW j \in jobs, jobs' = jobs \ {j}, Emit("deleted", j),
         UNCHANGED <<phase, toSync, cache, notes, stage>>,
         \A a \in Actors : deletes'[a] \subseteq deletes[a]
  PROVE  InformerInv'
  <1>0. j \in Job /\ NothingHeard'
    <2>1. j \in Job
      BY DEF TypeOK
    <2>2. QED
      BY <2>1, EmitAdds DEF InformerInv, NothingHeard
  <1>1. CASE phase # "running"
    <2>1. stream' = <<>> /\ toSync' = {} /\ cache' = {} /\ phase' # "running"
      BY <1>0, <1>1 DEF NothingHeard
    <2>2. DeletedAreGone' /\ AddedAreJobs'
      BY <2>1, RangeOfEmpty DEF DeletedAreGone, AddedAreJobs
    <2>3. QED
      BY <1>0, <2>1, <2>2 DEF InformerInv, CacheHasJobs, CachedAreJobs
  <1>2. CASE phase = "running"
    <2>1. /\ stream' = Append(stream, Deleted(j)) /\ stream \in Seq(Event) /\ Deleted(j) \in Event
          /\ Range(stream') = Range(stream) \cup {Deleted(j)}
      BY <1>0, <1>2, EmitAdds, EventTypes DEF TypeOK, Deleted
    <2>2. Deleted(j).type = "deleted" /\ Deleted(j).job = j
      BY DEF Deleted
    <2>3. CacheHasJobs' /\ CachedAreJobs'
      BY <1>2, <2>1 DEF InformerInv, CacheHasJobs, CachedAreJobs
    <2>4. DeletedAreGone'
      BY <2>1, <2>2 DEF InformerInv, DeletedAreGone
    <2>5. AddedAreJobs'
      <3> SUFFICES ASSUME NEW k \in DOMAIN stream', stream'[k].type = "added",
                          stream'[k].job \notin jobs'
                   PROVE  \E m \in DOMAIN stream' : k < m /\ stream'[m] = Deleted(stream'[k].job)
        BY DEF AddedAreJobs
      <3>1. /\ \A l \in DOMAIN stream : l \in DOMAIN stream' /\ stream'[l] = stream[l]
            /\ k \in DOMAIN stream \/ stream'[k] = Deleted(j)
            /\ Len(stream) + 1 \in DOMAIN stream' /\ stream'[Len(stream) + 1] = Deleted(j)
            /\ \A l \in DOMAIN stream : l < Len(stream) + 1
        BY <2>1
      <3>2. k \in DOMAIN stream
        BY <2>2, <3>1
      <3>3. CASE stream[k].job = j
        BY <3>1, <3>2, <3>3
      <3>4. CASE stream[k].job # j
        <4>1. PICK m \in DOMAIN stream : k < m /\ stream[m] = Deleted(stream[k].job)
          BY <3>1, <3>2, <3>4 DEF InformerInv, AddedAreJobs
        <4>2. QED
          BY <3>1, <3>2, <4>1
      <3>5. QED
        BY <3>3, <3>4
    <2>6. QED
      BY <1>0, <2>3, <2>4, <2>5 DEF InformerInv
  <1>3. QED
    BY <1>1, <1>2

LEMMA InformerStep ==
  ASSUME PassInv, InformerInv, [Next]_vars
  PROVE  InformerInv'
  <1> USE DEF PassInv
  <1>1. CASE Down
    BY <1>1, DownForgets
  <1>2. CASE Restart \/ Poll \/ UNCHANGED vars
    <2>1. /\ UNCHANGED <<jobs, toSync, stream, cache, notes, stage, deletes>>
          /\ phase' = "running" <=> phase = "running"
      BY <1>2 DEF Restart, Poll, vars, informerVars, passVars
    <2>2. QED
      BY <2>1
      DEF InformerInv, NothingHeard, CacheHasJobs, CachedAreJobs, DeletedAreGone, AddedAreJobs, Range
  <1>3. CASE CacheStart
    <2>1. phase # "running" /\ phase' = "running" /\ toSync' = jobs
          /\ UNCHANGED <<jobs, stream, cache>>
      BY <1>3 DEF CacheStart
    <2>2. stream = <<>> /\ cache = {}
      BY <2>1 DEF InformerInv, NothingHeard
    <2>3. DeletedAreGone' /\ AddedAreJobs'
      BY <2>1, <2>2, RangeOfEmpty DEF DeletedAreGone, AddedAreJobs
    <2>4. NothingHeard' /\ CacheHasJobs' /\ CachedAreJobs'
      BY <2>1, <2>2 DEF NothingHeard, CacheHasJobs, CachedAreJobs
    <2>5. QED
      BY <2>3, <2>4 DEF InformerInv
  <1>4. ASSUME NEW j \in toSync, SyncInitial(j)
        PROVE  InformerInv'
    <2>1. /\ phase = "running" /\ UNCHANGED <<jobs, phase, stream>>
          /\ cache' \cup toSync' = cache \cup toSync
      BY <1>4 DEF SyncInitial, InformerInv, NothingHeard
    <2>2. QED
      BY <2>1
      DEF InformerInv, NothingHeard, CacheHasJobs, CachedAreJobs, DeletedAreGone, AddedAreJobs, Range
  <1>5. CASE SyncEvent
    BY <1>5, SyncEventInforms
  <1>6. ASSUME NEW u \in Users, BeginReconcile(u), ~Down
        PROVE  InformerInv'
    <2>1. NothingHeard'
      BY <1>6 DEF BeginReconcile, informerVars, InformerInv, NothingHeard, TypeOK, Actors
    <2>2. QED
      BY <1>6, <2>1, InformerFrame DEF BeginReconcile, informerVars
  <1>7. CASE ListJobs
    <2>1. phase # "running" => ExtraJobs(snap["watcher"], ListedFor(owner["watcher"])) = {}
      BY <1>7 DEF ExtraJobs, ListedFor, InformerInv, NothingHeard
    <2>2. /\ UNCHANGED <<phase, toSync, cache, stream, notes>>
          /\ stage' = [stage EXCEPT !["watcher"] = "calls"]
          /\ deletes' = [deletes EXCEPT !["watcher"] = ExtraJobs(snap["watcher"], ListedFor(owner["watcher"]))]
      BY <1>7 DEF ListJobs, informerVars
    <2>3. NothingHeard'
      BY <2>1, <2>2 DEF InformerInv, NothingHeard, TypeOK, Actors
    <2>4. QED
      BY <1>7, <2>3, InformerFrame DEF ListJobs, informerVars
  <1>8. ASSUME HandleEvent, ~Down
        PROVE  InformerInv'
    <2>1. phase = "running"
      BY <1>8 DEF HandleEvent, InformerInv, NothingHeard
    <2>2. UNCHANGED <<jobs, phase, toSync, stream, cache>>
      BY <1>8 DEF HandleEvent
    <2>3. QED
      BY <2>1, <2>2, InformerFrame DEF NothingHeard
  <1>9. ASSUME NEW a \in Actors, CreateCall(a), ~Down
        PROVE  InformerInv'
    <2>1. PICK c \in creates[a] : CreateSucceeds(a, c) \/ CreateRefused(a, c) \/ CreateFails(a, c)
      BY <1>9 DEF CreateCall, NextCreates, CreatePanics
    <2>2. CASE CreateSucceeds(a, c)
      <3>1. PICK n \in Names \ NamesInUse :
              LET j == [name |-> n, user |-> owner[a], id |-> c[2]]
              IN  jobs' = jobs \cup {j} /\ Emit("added", j)
        BY <2>2 DEF CreateSucceeds
      <3>2. owner[a] \in Users /\ c[2] \in Ids
        BY <2>1, CallsHaveOwners
      <3> DEFINE created == [name |-> n, user |-> owner[a], id |-> c[2]]
      <3>3. created \in Job /\ created.name \notin NamesInUse
        BY <3>1, <3>2 DEF Job
      <3>4. jobs' = jobs \cup {created} /\ Emit("added", created)
        BY <3>1
      <3> HIDE DEF created
      <3>5. QED
        BY <2>2, <3>3, <3>4, CreationInforms DEF CreateSucceeds
    <2>3. CASE CreateRefused(a, c) \/ CreateFails(a, c)
      BY <2>3, InformerFrame DEF CreateRefused, CreateFails, informerVars, InformerInv, NothingHeard
    <2>4. QED
      BY <2>1, <2>2, <2>3
  <1>10. ASSUME NEW a \in Actors, DeleteCall(a)
         PROVE  InformerInv'
    <2>1. PICK j \in deletes[a] : DeleteSucceeds(a, j) \/ DeleteFails(a, j)
      BY <1>10 DEF DeleteCall
    <2>2. /\ deletes' = [deletes EXCEPT ![a] = @ \ {j}]
          /\ UNCHANGED <<phase, toSync, cache, notes, stage>>
      BY <2>1 DEF DeleteSucceeds, DeleteFails, DeleteDone
    <2>3. \A b \in Actors : deletes'[b] \subseteq deletes[b]
      BY <2>2 DEF TypeOK
    <2>4. CASE UNCHANGED <<jobs, stream>>
      BY <2>2, <2>3, <2>4, InformerFrame DEF InformerInv, NothingHeard
    <2>5. CASE j \in jobs /\ jobs' = jobs \ {j} /\ Emit("deleted", j)
      BY <2>2, <2>3, <2>5, DeletionInforms
    <2>6. QED
      BY <2>1, <2>4, <2>5 DEF DeleteSucceeds, DeleteFails
  <1>11. ASSUME NEW a \in Actors, Return(a)
         PROVE  InformerInv'
    BY <1>11, InformerFrame DEF Return, informerVars, InformerInv, NothingHeard, TypeOK
  <1>12. ASSUME NEW j \in jobs, ExternalDelete(j)
         PROVE  InformerInv'
    BY <1>12, DeletionInforms DEF ExternalDelete, passVars
  <1>13. CASE Operator
    BY <1>1, <1>2, <1>3, <1>4, <1>5, <1>6, <1>7, <1>8, <1>9, <1>10, <1>11, <1>13 DEF Operator
  <1>14. CASE Environment
    <2>1. CASE \/ \E u \in Users, content \in Contents : Edit(u, content) \/ Rewrite(u, content)
               \/ \E u \in Users : Deny(u) \/ Break(u) \/ RestoreAccess(u)
      BY <2>1, InformerFrame
      DEF Edit, Rewrite, Deny, Break, RestoreAccess, informerVars, passVars, InformerInv, NothingHeard
    <2>2. QED
      BY <1>1, <1>12, <1>14, <2>1 DEF Environment, Crash
  <1>15. QED
    BY <1>2, <1>13, <1>14 DEF Next

-----------------------------------------------------------------------------
(* Lines that wait for their job *)

\* What an actor is doing stays, and so does everything that is on its way.
NothingForgotten ==
  /\ UNCHANGED <<stage, owner, snap>>
  /\ phase = "down" => phase' = "down"
  /\ dirty \cup requests \subseteq dirty' \cup requests'
  /\ Unseen \subseteq Unseen'

LEMMA AwaitedStays ==
  ASSUME NothingForgotten, NEW u \in Users, NEW i \in Ids, Awaited(u, i),
         \A a \in Actors : owner[a] = u => {c \in creates[a] : c[2] = i} \subseteq creates'[a]
  PROVE  Awaited(u, i)'
  BY DEF NothingForgotten, Awaited, ReadBy, IdsOf

\* Steps that do nothing to any line.
LEMMA LinesFrame ==
  ASSUME LinesAwaited, NothingForgotten, UNCHANGED <<crontab, creates>>,
         \A u \in Users, i \in Ids :
           Answerable(u, i)' /\ InFile(u, i) /\ ~HasJob(u, i)' => Answerable(u, i) /\ ~HasJob(u, i)
  PROVE  LinesAwaited'
  <1> SUFFICES ASSUME NEW u \in Users, NEW i \in Ids,
                      Answerable(u, i)', InFile(u, i)', ~HasJob(u, i)'
               PROVE  Awaited(u, i)'
    BY DEF LinesAwaited
  <1>1. InFile(u, i)
    BY DEF InFile, IdsOf
  <1>2. Awaited(u, i)
    BY <1>1 DEF LinesAwaited
  <1>3. QED
    BY <1>2, AwaitedStays

\* A file changes, and the poller or the list of the unnoticed will know.
LEMMA LinesEdited ==
  ASSUME TypeOK, LinesAwaited, NEW v \in Users, NEW content \in Contents,
         Edit(v, content) \/ Rewrite(v, content)
  PROVE  LinesAwaited'
  <1> SUFFICES ASSUME NEW u \in Users, NEW i \in Ids,
                      Answerable(u, i)', InFile(u, i)', ~HasJob(u, i)'
               PROVE  Awaited(u, i)'
    BY DEF LinesAwaited
  <1>1. /\ UNCHANGED <<jobs, phase, stream, notes, requests, stage, owner, snap, creates>>
        /\ dirty \subseteq dirty'
    BY DEF Edit, Rewrite, Touch, informerVars, passVars, watchVars
  <1>2. NothingForgotten
    BY <1>1 DEF NothingForgotten, Unseen, Range
  <1>3. Answerable(u, i) /\ ~HasJob(u, i)
    BY DEF Edit, Rewrite, Answerable, HasJob, JobsOf
  <1>4. crontab' = [crontab EXCEPT ![v] = content]
    BY DEF Edit, Rewrite, UserChange
  <1>5. CASE InFile(u, i)
    <2>1. Awaited(u, i)
      BY <1>3, <1>5 DEF LinesAwaited
    <2>2. QED
      BY <1>1, <1>2, <2>1, AwaitedStays
  <1>6. CASE ~InFile(u, i)
    <2>1. u = v /\ i \in IdsOf(content) /\ i \notin IdsOf(crontab[v])
      BY <1>4, <1>6 DEF InFile, IdsOf, TypeOK
    <2>2. ~Rewrite(v, content)
      BY <2>1 DEF Rewrite, Answerable
    <2>3. phase = "down" \/ v \in dirty'
      BY <2>2 DEF Edit, Touch
    <2>4. QED
      BY <1>1, <2>1, <2>3 DEF Awaited
  <1>7. QED
    BY <1>5, <1>6

\* The list creates a line that it neither finds nor knows to be deleted.
LEMMA LinesListed ==
  ASSUME PassInv, InformerInv, LinesAwaited, ListJobs
  PROVE  LinesAwaited'
  <1> USE DEF PassInv
  <1> SUFFICES ASSUME NEW u \in Users, NEW i \in Ids,
                      Answerable(u, i)', InFile(u, i)', ~HasJob(u, i)'
               PROVE  Awaited(u, i)'
    BY DEF LinesAwaited
  <1> DEFINE listed == ListedFor(owner["watcher"])
             content == snap["watcher"]
  <1>1. /\ UNCHANGED <<crontab, jobs, phase, stream, notes, dirty, requests, owner, snap, gaps, misread>>
        /\ stage["watcher"] = "list"
        /\ creates' = [creates EXCEPT !["watcher"] = MissingCalls(content, listed)]
    BY DEF ListJobs, fsVars, informerVars, watchVars, historyVars
  <1>2. Awaited(u, i)
    <2>1. Answerable(u, i) /\ InFile(u, i) /\ ~HasJob(u, i)
      BY <1>1 DEF Answerable, InFile, IdsOf, HasJob, JobsOf
    <2>2. QED
      BY <2>1 DEF LinesAwaited
  <1>3. CASE ReadBy("watcher", u, i)
    <2>1. content \in Seq(SUBSET Ids) /\ i \in IdsOf(content) /\ owner["watcher"] = u
      BY <1>3, ConstantsAssumption DEF ReadBy, TypeOK, Actors
    <2>2. CASE \E j \in listed : j.id = i
      <3>1. PICK j \in listed : j.id = i
        BY <2>2
      <3>2. j \in cache /\ j.user = u /\ j \notin jobs
        <4>1. j \in cache /\ j.user = u
          BY <2>1, <3>1 DEF ListedFor
        <4>2. QED
          BY <1>1, <3>1, <4>1 DEF HasJob, JobsOf
      <3>3. Deleted(j) \in Range(stream)
        BY <3>2 DEF InformerInv, CachedAreJobs
      <3>4. Deleted(j) \in Unseen' /\ Deleted(j).type = "deleted" /\ Deleted(j).job = j
        BY <1>1, <3>3 DEF Unseen, Deleted, Range
      <3>5. QED
        BY <3>1, <3>2, <3>4 DEF Awaited
    <2>3. CASE ~ \E j \in listed : j.id = i
      <3>1. i \in IdsOf(content) \ {j.id : j \in listed}
        BY <2>1, <2>3
      <3>2. \E c \in MissingCalls(content, listed) : c[2] = i
        <4> DEFINE wanted == IdsOf(content) \ {j.id : j \in listed}
        <4>1. i \in IdsOf(content) \cap wanted
          BY <2>1, <3>1
        <4>2. MissingCalls(content, listed) = CallsFor(content, wanted)
          BY DEF MissingCalls
        <4> HIDE DEF wanted, content
        <4>3. QED
          BY <2>1, <4>1, <4>2, CallOfLine
      <3>3. creates'["watcher"] = MissingCalls(content, listed)
        BY <1>1 DEF TypeOK, Actors
      <3>4. QED
        BY <1>1, <2>1, <3>2, <3>3 DEF Awaited, Actors
    <2>4. QED
      BY <2>2, <2>3
  <1>4. CASE ~ReadBy("watcher", u, i)
    <2>1. creates["watcher"] = {} /\ creates'["handler"] = creates["handler"]
      BY <1>1 DEF PassShape, TypeOK, Actors
    <2>2. CASE \E a \in Actors : owner[a] = u /\ \E c \in creates[a] : c[2] = i
      BY <1>1, <2>1, <2>2 DEF Awaited, Actors
    <2>3. CASE ~ \E a \in Actors : owner[a] = u /\ \E c \in creates[a] : c[2] = i
      BY <1>1, <1>2, <1>4, <2>3 DEF Awaited, Unseen, Range
    <2>4. QED
      BY <2>2, <2>3
  <1>5. QED
    BY <1>3, <1>4

\* A pass over a file that can be read starts with all its lines.
LEMMA LinesRead ==
  ASSUME PassInv, LinesAwaited, NEW v \in Users, BeginReconcile(v), ~Down
  PROVE  LinesAwaited'
  <1> USE DEF PassInv
  <1> SUFFICES ASSUME NEW u \in Users, NEW i \in Ids,
                      Answerable(u, i)', InFile(u, i)', ~HasJob(u, i)'
               PROVE  Awaited(u, i)'
    BY DEF LinesAwaited
  <1>1. /\ access[v] # "broken" /\ stage["watcher"] = "idle"
        /\ requests' = requests \ {v}
        /\ stage' = [stage EXCEPT !["watcher"] = "list"]
        /\ owner' = [owner EXCEPT !["watcher"] = v]
        /\ snap' = [snap EXCEPT !["watcher"] = FSEntry(v)]
        /\ gaps' = {g \in gaps : g[1] # v}
        /\ misread' = IF access[v] = "denied" THEN misread \cup {v} ELSE misread \ {v}
        /\ UNCHANGED <<crontab, jobs, phase, stream, notes, dirty, creates>>
    BY DEF BeginReconcile, Read, fsVars, informerVars
  <1>2. /\ stage'["watcher"] = "list" /\ owner'["watcher"] = v /\ snap'["watcher"] = FSEntry(v)
        /\ owner'["handler"] = owner["handler"]
    BY <1>1 DEF TypeOK, Actors
  <1>3. CASE u = v
    <2>1. access[v] \notin {"denied", "broken"}
      BY <1>1, <1>3 DEF Answerable
    <2>2. i \in IdsOf(FSEntry(v))
      BY <1>1, <1>3, <2>1, ReadsWhatIsThere DEF InFile, IdsOf
    <2>3. QED
      BY <1>2, <1>3, <2>2 DEF Awaited, ReadBy, IdsOf
  <1>4. CASE u # v
    <2>1. Answerable(u, i) /\ InFile(u, i) /\ ~HasJob(u, i)
      BY <1>1, <1>4 DEF Answerable, InFile, IdsOf, HasJob, JobsOf
    <2>2. Awaited(u, i)
      BY <2>1 DEF LinesAwaited
    <2>3. creates["watcher"] = {}
      BY <1>1 DEF PassShape, Actors
    <2>4. CASE \E a \in Actors : owner[a] = u /\ \E c \in creates[a] : c[2] = i
      BY <1>1, <1>2, <2>3, <2>4 DEF Awaited, Actors
    <2>5. CASE ~ \E a \in Actors : owner[a] = u /\ \E c \in creates[a] : c[2] = i
      BY <1>1, <1>4, <2>2, <2>5 DEF Awaited, Unseen, Range
    <2>6. QED
      BY <2>4, <2>5
  <1>5. QED
    BY <1>3, <1>4

\* The handler takes up one event and creates its line again.
LEMMA LinesHandled ==
  ASSUME PassInv, LinesAwaited, HandleEvent, ~Down
  PROVE  LinesAwaited'
  <1> USE DEF PassInv
  <1> SUFFICES ASSUME NEW u \in Users, NEW i \in Ids,
                      Answerable(u, i)', InFile(u, i)', ~HasJob(u, i)'
               PROVE  Awaited(u, i)'
    BY DEF LinesAwaited
  <1> DEFINE e == Head(notes)
             v == e.job.user
  <1>1. notes \in Seq(Event) /\ notes # <<>>
    BY DEF TypeOK, HandleEvent
  <1>2. /\ Range(notes) = {e} \cup Range(notes')
        /\ v \in Users /\ e.type \in {"added", "deleted"}
    <2>1. notes' = Tail(notes)
      BY DEF HandleEvent
    <2>2. Range(notes) = {e} \cup Range(Tail(notes))
      BY <1>1, RangeOfTail
    <2>3. e \in Event
      BY <1>1
    <2>4. QED
      BY <2>1, <2>2, <2>3 DEF Event, Job
  <1>3. /\ access[v] # "broken" /\ stage["handler"] = "idle"
        /\ stage' = [stage EXCEPT !["handler"] = "calls"]
        /\ owner' = [owner EXCEPT !["handler"] = v]
        /\ snap' = [snap EXCEPT !["handler"] = FSEntry(v)]
        /\ creates' = [creates EXCEPT !["handler"] = EventCreates(e, FSEntry(v))]
        /\ misread' = IF access[v] = "denied" THEN misread \cup {v} ELSE misread
        /\ UNCHANGED <<crontab, jobs, phase, stream, dirty, requests, gaps>>
    BY DEF HandleEvent, Read, fsVars, watchVars
  <1>4. /\ UNCHANGED <<stage["watcher"], owner["watcher"], snap["watcher"], creates["watcher"]>>
        /\ owner'["handler"] = v /\ creates'["handler"] = EventCreates(e, FSEntry(v))
        /\ creates["handler"] = {}
    BY <1>3 DEF PassShape, TypeOK, Actors
  <1>5. Awaited(u, i)
    <2>1. Answerable(u, i) /\ InFile(u, i) /\ ~HasJob(u, i)
      BY <1>3 DEF Answerable, InFile, IdsOf, HasJob, JobsOf
    <2>2. QED
      BY <2>1 DEF LinesAwaited
  <1>6. CASE e.type = "deleted" /\ v = u /\ e.job.id = i
    <2>1. access[u] \notin {"denied", "broken"}
      BY <1>3, <1>6 DEF Answerable
    <2>2. FSEntry(u) = crontab[u] /\ crontab[u] \in Seq(SUBSET Ids)
      BY <2>1, ReadsWhatIsThere, ConstantsAssumption DEF TypeOK
    <2>3. i \in IdsOf(crontab[u]) \cap {i}
      BY <1>3 DEF InFile, IdsOf
    <2>4. \E c \in CallsFor(crontab[u], {i}) : c[2] = i
      BY <2>2, <2>3, CallOfLine
    <2>5. EventCreates(e, FSEntry(v)) = CallsFor(crontab[u], {i})
      BY <1>6, <2>2 DEF EventCreates
    <2>6. QED
      BY <1>4, <1>6, <2>4, <2>5 DEF Awaited, Actors
  <1>7. CASE ~(e.type = "deleted" /\ v = u /\ e.job.id = i)
    <2>1. CASE \E d \in Unseen : d.type = "deleted" /\ d.job.user = u /\ d.job.id = i
      <3>1. PICK d \in Unseen : d.type = "deleted" /\ d.job.user = u /\ d.job.id = i
        BY <2>1
      <3>2. d # e
        BY <1>7, <3>1
      <3>3. d \in Unseen'
        BY <1>2, <1>3, <3>1, <3>2 DEF Unseen, Range
      <3>4. QED
        BY <3>1, <3>3 DEF Awaited
    <2>2. CASE \E a \in Actors : owner[a] = u /\ \E c \in creates[a] : c[2] = i
      BY <1>4, <2>2 DEF Awaited, Actors
    <2>3. CASE stage["watcher"] = "list" /\ ReadBy("watcher", u, i)
      BY <1>4, <2>3 DEF Awaited, ReadBy, IdsOf
    <2>4. CASE phase = "down" \/ u \in dirty \cup requests
      BY <1>3, <2>4 DEF Awaited
    <2>5. QED
      BY <1>5, <2>1, <2>2, <2>3, <2>4 DEF Awaited
  <1>8. QED
    BY <1>6, <1>7

LEMMA LinesCreated ==
  ASSUME PassInv, LinesAwaited, NEW a \in Actors, CreateCall(a), ~Down
  PROVE  LinesAwaited'
  <1> USE DEF PassInv
  <1> SUFFICES ASSUME NEW u \in Users, NEW i \in Ids,
                      Answerable(u, i)', InFile(u, i)', ~HasJob(u, i)'
               PROVE  Awaited(u, i)'
    BY DEF LinesAwaited
  <1>1. PICK c \in creates[a] : CreateSucceeds(a, c) \/ CreateRefused(a, c) \/ CreateFails(a, c)
    BY DEF CreateCall, NextCreates, CreatePanics
  <1>2. /\ creates' = [creates EXCEPT ![a] = @ \ {c}]
        /\ UNCHANGED <<crontab, phase, notes, dirty, requests, stage, owner, snap, misread>>
        /\ jobs \subseteq jobs' /\ gaps \subseteq gaps'
    BY <1>1 DEF CreateSucceeds, CreateRefused, CreateFails, CreateDone, fsVars, informerVars,
                watchVars, historyVars
  <1>3. owner[a] \in Users /\ c[2] \in Ids
    BY <1>1, CallsHaveOwners
  <1>4. Range(stream) \subseteq Range(stream')
    <2>1. CASE CreateSucceeds(a, c)
      <3>1. PICK n \in Names : Emit("added", [name |-> n, user |-> owner[a], id |-> c[2]])
        BY <2>1 DEF CreateSucceeds
      <3>2. [name |-> n, user |-> owner[a], id |-> c[2]] \in Job
        BY <1>3 DEF Job
      <3>3. QED
        BY <3>1, <3>2, EmitAdds
    <2>2. CASE CreateRefused(a, c) \/ CreateFails(a, c)
      BY <2>2 DEF CreateRefused, CreateFails, informerVars, Range
    <2>3. QED
      BY <1>1, <2>1, <2>2
  <1>5. NothingForgotten
    BY <1>2, <1>4 DEF NothingForgotten, Unseen, Range
  <1>6. Awaited(u, i)
    <2>1. Answerable(u, i) /\ InFile(u, i) /\ ~HasJob(u, i)
      BY <1>2 DEF Answerable, InFile, IdsOf, HasJob, JobsOf
    <2>2. QED
      BY <2>1 DEF LinesAwaited
  <1>7. ~(owner[a] = u /\ c[2] = i)
    <2>1. CASE CreateSucceeds(a, c)
      <3>1. PICK n : jobs' = jobs \cup {[name |-> n, user |-> owner[a], id |-> c[2]]}
        BY <2>1 DEF CreateSucceeds
      <3>2. [name |-> n, user |-> owner[a], id |-> c[2]] \in jobs'
        BY <3>1
      <3>3. QED
        BY <3>2 DEF HasJob, JobsOf
    <2>2. CASE CreateRefused(a, c)
      BY <2>2 DEF CreateRefused, Answerable
    <2>3. CASE CreateFails(a, c)
      BY <2>3 DEF CreateFails, Answerable
    <2>4. QED
      BY <1>1, <2>1, <2>2, <2>3
  <1>8. \A b \in Actors : owner[b] = u => {d \in creates[b] : d[2] = i} \subseteq creates'[b]
    BY <1>2, <1>7 DEF TypeOK
  <1>9. QED
    BY <1>5, <1>6, <1>8, AwaitedStays

\* A job that goes is announced to the handler, or the line is let go of.
LEMMA LinesDeleted ==
  ASSUME TypeOK, LinesAwaited, NEW j \in jobs, jobs' = jobs \ {j}, Emit("deleted", j),
         UNCHANGED <<crontab, phase, notes, dirty, requests, stage, owner, snap, creates, misread>>,
         gaps \subseteq gaps',
         phase = "starting" => <<j.user, j.id>> \in gaps'
  PROVE  LinesAwaited'
  <1> SUFFICES ASSUME NEW u \in Users, NEW i \in Ids,
                      Answerable(u, i)', InFile(u, i)', ~HasJob(u, i)'
               PROVE  Awaited(u, i)'
    BY DEF LinesAwaited
  <1>1. j \in Job /\ phase \in {"down", "starting", "running"}
    BY DEF TypeOK
  <1>2. Range(stream) \subseteq Range(stream')
    BY <1>1, EmitAdds
  <1>3. NothingForgotten
    BY <1>2 DEF NothingForgotten, Unseen, Range
  <1>4. CASE j.user = u /\ j.id = i
    <2>1. CASE phase = "running"
      <3>1. Deleted(j) \in Unseen'
        BY <1>1, <2>1, EmitAdds DEF Unseen, Deleted
      <3>2. Deleted(j).type = "deleted" /\ Deleted(j).job = j
        BY DEF Deleted
      <3>3. QED
        BY <1>4, <3>1, <3>2 DEF Awaited
    <2>2. CASE phase = "starting"
      BY <1>4, <2>2 DEF Answerable
    <2>3. CASE phase = "down"
      BY <2>3 DEF Awaited
    <2>4. QED
      BY <1>1, <2>1, <2>2, <2>3
  <1>5. CASE ~(j.user = u /\ j.id = i)
    <2>1. Answerable(u, i) /\ InFile(u, i) /\ ~HasJob(u, i)
      BY <1>5 DEF Answerable, InFile, IdsOf, HasJob, JobsOf
    <2>2. Awaited(u, i)
      BY <2>1 DEF LinesAwaited
    <2>3. QED
      BY <1>3, <2>2, AwaitedStays
  <1>6. QED
    BY <1>4, <1>5

\* What moves between the informer, the poller and the goroutines is not lost.
LEMMA DeliveryForgetsNothing ==
  ASSUME TypeOK,
         \/ CacheStart \/ (\E j \in toSync : SyncInitial(j)) \/ SyncEvent \/ Poll
         \/ \E u \in Users : Deny(u) \/ Break(u) \/ RestoreAccess(u)
         \/ UNCHANGED vars
  PROVE  /\ NothingForgotten
         /\ UNCHANGED <<crontab, jobs, gaps, misread, creates, deletes>>
  <1>0. UNCHANGED <<crontab, jobs, gaps, misread, creates, deletes>>
    BY DEF CacheStart, SyncInitial, SyncEvent, Poll, Deny, Break, RestoreAccess, vars, fsVars, passVars,
           historyVars
  <1> SUFFICES NothingForgotten
    BY <1>0
  <1>1. stream \in Seq(Event) /\ notes \in Seq(Event)
    BY DEF TypeOK
  <1>2. CASE CacheStart
    BY <1>2 DEF CacheStart, NothingForgotten, Unseen, Range, fsVars, watchVars, passVars, historyVars
  <1>3. ASSUME NEW j \in toSync, SyncInitial(j)
        PROVE  NothingForgotten
    <2>1. Added(j) \in Event /\ notes' = Append(notes, Added(j))
      BY <1>3, EventTypes DEF SyncInitial, Added, TypeOK
    <2>2. Range(notes') = Range(notes) \cup {Added(j)} /\ Range(stream') = Range(stream)
      BY <1>1, <1>3, <2>1, RangeOfAppend DEF SyncInitial
    <2>3. QED
      BY <1>3, <2>2 DEF SyncInitial, NothingForgotten, Unseen, watchVars, passVars
  <1>4. CASE SyncEvent
    <2>1. stream # <<>> /\ stream' = Tail(stream) /\ notes' = Append(notes, Head(stream))
      BY <1>4 DEF SyncEvent
    <2>2. Head(stream) \in Event
      BY <1>1, <2>1
    <2>3. Range(stream) \cup Range(notes) \subseteq Range(stream') \cup Range(notes')
      BY <1>1, <2>1, <2>2, RangeOfAppend, RangeOfTail
    <2>4. Unseen \subseteq Unseen'
      BY <2>3 DEF Unseen
    <2>5. UNCHANGED <<stage, owner, snap, phase, dirty, requests>>
      BY <1>4 DEF SyncEvent, watchVars, passVars
    <2>6. QED
      BY <2>4, <2>5 DEF NothingForgotten
  <1>5. CASE Poll
    <2>1. UNCHANGED <<stage, owner, snap, phase, stream, notes>> /\ dirty \cup requests = dirty' \cup requests'
      BY <1>5 DEF Poll, informerVars, passVars
    <2>2. Unseen = Unseen'
      BY <2>1 DEF Unseen
    <2>3. QED
      BY <2>1, <2>2 DEF NothingForgotten
  <1>6. ASSUME NEW u \in Users, Deny(u) \/ Break(u) \/ RestoreAccess(u)
        PROVE  NothingForgotten
    BY <1>6
    DEF Deny, Break, RestoreAccess, Touch, NothingForgotten, Unseen, Range, informerVars, watchVars, passVars
  <1>7. CASE UNCHANGED vars
    <2>1. UNCHANGED <<stage, owner, snap, phase, stream, notes, dirty, requests>>
      BY <1>7 DEF vars, informerVars, watchVars, passVars
    <2>2. Unseen = Unseen'
      BY <2>1 DEF Unseen
    <2>3. QED
      BY <2>1, <2>2 DEF NothingForgotten
  <1>8. QED
    BY <1>2, <1>3, <1>4, <1>5, <1>6, <1>7

LEMMA LinesStep ==
  ASSUME PassInv, InformerInv, LinesAwaited, [Next]_vars
  PROVE  LinesAwaited'
  <1> USE DEF PassInv
  <1>1. CASE Down
    BY <1>1 DEF Down, LinesAwaited, Awaited
  <1>2. CASE Restart
    <2>1. ASSUME NEW u \in Users, NEW i \in Ids, InFile(u, i)'
          PROVE  u \in requests'
      <3>1. crontab[u] # <<>>
        BY <1>2, <2>1 DEF Restart, fsVars, InFile, IdsOf
      <3>2. QED
        BY <1>2, <3>1 DEF Restart
    <2>2. QED
      BY <2>1 DEF LinesAwaited, Awaited
  <1>3. CASE \/ CacheStart \/ (\E j \in toSync : SyncInitial(j)) \/ SyncEvent \/ Poll
             \/ \E u \in Users : Deny(u) \/ Break(u) \/ RestoreAccess(u)
             \/ UNCHANGED vars
    <2>1. NothingForgotten /\ UNCHANGED <<crontab, jobs, gaps, misread, creates>>
      BY <1>3, DeliveryForgetsNothing
    <2>2. QED
      BY <2>1, LinesFrame DEF Answerable, HasJob, JobsOf
  <1>4. ASSUME NEW u \in Users, BeginReconcile(u), ~Down
        PROVE  LinesAwaited'
    BY <1>4, LinesRead
  <1>5. CASE ListJobs
    BY <1>5, LinesListed
  <1>6. ASSUME HandleEvent, ~Down
        PROVE  LinesAwaited'
    BY <1>6, LinesHandled
  <1>7. ASSUME NEW a \in Actors, CreateCall(a), ~Down
        PROVE  LinesAwaited'
    BY <1>7, LinesCreated
  <1>8. ASSUME NEW a \in Actors, DeleteCall(a)
        PROVE  LinesAwaited'
    <2>1. PICK j \in deletes[a] : DeleteSucceeds(a, j) \/ DeleteFails(a, j)
      BY <1>8 DEF DeleteCall
    <2>2. /\ UNCHANGED <<crontab, phase, notes, dirty, requests, stage, owner, snap, creates, misread>>
          /\ gaps \subseteq gaps' /\ phase = "running"
      BY <2>1 DEF DeleteSucceeds, DeleteFails, DeleteDone, fsVars, watchVars, InformerInv, NothingHeard
    <2>3. CASE j \in jobs /\ jobs' = jobs \ {j} /\ Emit("deleted", j)
      BY <2>2, <2>3, LinesDeleted
    <2>4. CASE UNCHANGED <<jobs, stream>>
      <3>1. NothingForgotten
        BY <2>2, <2>4 DEF NothingForgotten, Unseen, Range
      <3>2. QED
        BY <2>2, <2>4, <3>1, LinesFrame DEF Answerable, HasJob, JobsOf
    <2>5. QED
      BY <2>1, <2>3, <2>4 DEF DeleteSucceeds, DeleteFails
  <1>9. ASSUME NEW a \in Actors, Return(a)
        PROVE  LinesAwaited'
    <2> SUFFICES ASSUME NEW u \in Users, NEW i \in Ids,
                        Answerable(u, i)', InFile(u, i)', ~HasJob(u, i)'
                 PROVE  Awaited(u, i)'
      BY DEF LinesAwaited
    <2>1. /\ UNCHANGED <<crontab, jobs, phase, stream, notes, dirty, requests, creates, gaps, misread>>
          /\ stage[a] = "calls" /\ creates[a] = {}
          /\ \A b \in Actors \ {a} : UNCHANGED <<stage[b], owner[b], snap[b]>>
      BY <1>9 DEF Return, fsVars, informerVars, watchVars, historyVars, TypeOK
    <2>2. Answerable(u, i) /\ InFile(u, i) /\ ~HasJob(u, i)
      BY <2>1 DEF Answerable, InFile, IdsOf, HasJob, JobsOf
    <2>3. Awaited(u, i)
      BY <2>2 DEF LinesAwaited
    <2>4. CASE stage["watcher"] = "list" /\ ReadBy("watcher", u, i)
      BY <2>1, <2>4 DEF Awaited, ReadBy, IdsOf, Actors
    <2>5. CASE \E b \in Actors : owner[b] = u /\ \E c \in creates[b] : c[2] = i
      BY <2>1, <2>5 DEF Awaited
    <2>6. QED
      BY <2>1, <2>3, <2>4, <2>5 DEF Awaited, Unseen, Range
  <1>10. ASSUME NEW j \in jobs, ExternalDelete(j)
         PROVE  LinesAwaited'
    <2>1. phase = "starting" => <<j.user, j.id>> \in gaps'
      BY <1>10 DEF ExternalDelete
    <2>2. QED
      BY <1>10, <2>1, LinesDeleted DEF ExternalDelete, fsVars, watchVars, passVars
  <1>11. CASE Operator
    BY <1>1, <1>2, <1>3, <1>4, <1>5, <1>6, <1>7, <1>8, <1>9, <1>11 DEF Operator
  <1>12. CASE Environment
    BY <1>1, <1>3, <1>10, <1>12, LinesEdited DEF Environment, Crash
  <1>13. QED
    BY <1>3, <1>11, <1>12 DEF Next

-----------------------------------------------------------------------------
(* Jobs that wait for their deletion *)

LEMMA DoomedStays ==
  ASSUME NothingForgotten, NEW j, Doomed(j),
         phase # "running" => phase' # "running",
         j \in toSync => j \in toSync' \/ Added(j) \in Unseen',
         \A a \in Actors : j \in deletes[a] => j \in deletes'[a]
  PROVE  Doomed(j)'
  BY DEF NothingForgotten, Doomed, IdsOf

\* Steps that add no job and let no file change unnoticed.
LEMMA JobsFrame ==
  ASSUME JobsDoomed, NothingForgotten, UNCHANGED crontab, jobs' \subseteq jobs,
         phase # "running" => phase' # "running",
         \A j \in jobs' : j \in toSync => j \in toSync' \/ Added(j) \in Unseen',
         \A j \in jobs' : Answerable(j.user, j.id)' =>
           /\ Answerable(j.user, j.id)
           /\ \A a \in Actors : j \in deletes[a] => j \in deletes'[a]
  PROVE  JobsDoomed'
  <1> SUFFICES ASSUME NEW j \in jobs', Answerable(j.user, j.id)', ~InFile(j.user, j.id)'
               PROVE  Doomed(j)'
    BY DEF JobsDoomed
  <1>1. ~InFile(j.user, j.id)
    BY DEF InFile, IdsOf
  <1>2. Doomed(j)
    BY <1>1 DEF JobsDoomed
  <1>3. QED
    BY <1>2, DoomedStays

LEMMA JobsEdited ==
  ASSUME TypeOK, JobsDoomed, NEW v \in Users, NEW content \in Contents,
         Edit(v, content) \/ Rewrite(v, content)
  PROVE  JobsDoomed'
  <1> SUFFICES ASSUME NEW j \in jobs', Answerable(j.user, j.id)', ~InFile(j.user, j.id)'
               PROVE  Doomed(j)'
    BY DEF JobsDoomed
  <1>1. /\ UNCHANGED <<jobs, phase, toSync, stream, notes, requests, stage, owner, snap, deletes>>
        /\ dirty \subseteq dirty'
    BY DEF Edit, Rewrite, Touch, informerVars, passVars, watchVars
  <1>2. NothingForgotten
    BY <1>1 DEF NothingForgotten, Unseen, Range
  <1>3. j \in jobs /\ j.user \in Users /\ j.id \in Ids /\ Answerable(j.user, j.id)
    BY <1>1 DEF Edit, Rewrite, Answerable, TypeOK, Job
  <1>4. crontab' = [crontab EXCEPT ![v] = content]
    BY DEF Edit, Rewrite, UserChange
  <1>5. CASE ~InFile(j.user, j.id)
    <2>1. Doomed(j)
      BY <1>3, <1>5 DEF JobsDoomed
    <2>2. QED
      BY <1>1, <1>2, <2>1, DoomedStays
  <1>6. CASE InFile(j.user, j.id)
    <2>1. j.user = v /\ j.id \notin IdsOf(content) /\ j.id \in IdsOf(crontab[v])
      BY <1>3, <1>4, <1>6 DEF InFile, IdsOf, TypeOK
    <2>2. ~Rewrite(v, content)
      BY <1>3, <2>1 DEF Rewrite, Answerable
    <2>3. phase = "down" \/ v \in dirty'
      BY <2>2 DEF Edit, Touch
    <2>4. QED
      BY <1>1, <2>1, <2>3 DEF Doomed
  <1>7. QED
    BY <1>5, <1>6

\* The list deletes a job that it finds without a line, or the handler will.
LEMMA JobsListed ==
  ASSUME PassInv, InformerInv, JobsDoomed, ListJobs
  PROVE  JobsDoomed'
  <1> USE DEF PassInv
  <1> SUFFICES ASSUME NEW j \in jobs', Answerable(j.user, j.id)', ~InFile(j.user, j.id)'
               PROVE  Doomed(j)'
    BY DEF JobsDoomed
  <1> DEFINE extra == ExtraJobs(snap["watcher"], ListedFor(owner["watcher"]))
  <1>1. /\ UNCHANGED <<crontab, jobs, phase, toSync, cache, stream, notes, dirty, requests,
                       owner, snap, gaps, misread>>
        /\ stage["watcher"] = "list"
        /\ phase = "running" => toSync = {}
        /\ deletes' = [deletes EXCEPT !["watcher"] = extra]
    BY DEF ListJobs, fsVars, informerVars, watchVars, historyVars
  <1>2. deletes["watcher"] = {} /\ deletes'["watcher"] = extra /\ UNCHANGED deletes["handler"]
    BY <1>1 DEF PassShape, TypeOK, Actors
  <1>3. j \in jobs /\ Doomed(j)
    <2>1. Answerable(j.user, j.id) /\ ~InFile(j.user, j.id)
      BY <1>1 DEF Answerable, InFile, IdsOf
    <2>2. QED
      BY <1>1, <2>1 DEF JobsDoomed
  <1>4. CASE owner["watcher"] = j.user /\ j.id \notin IdsOf(snap["watcher"]) /\ phase = "running"
    <2>1. j \in cache \/ Added(j) \in Range(stream)
      BY <1>1, <1>3, <1>4 DEF InformerInv, CacheHasJobs
    <2>2. CASE j \in cache
      <3>1. j \in extra
        BY <1>4, <2>2 DEF ExtraJobs, ListedFor
      <3>2. QED
        BY <1>2, <3>1 DEF Doomed, Actors
    <2>3. CASE Added(j) \in Range(stream)
      BY <1>1, <2>3 DEF Doomed, Unseen, Range
    <2>4. QED
      BY <2>1, <2>2, <2>3
  <1>5. CASE ~(owner["watcher"] = j.user /\ j.id \notin IdsOf(snap["watcher"]) /\ phase = "running")
    <2>1. CASE \E a \in Actors : j \in deletes[a]
      BY <1>2, <2>1 DEF Doomed, Actors
    <2>2. CASE ~ \E a \in Actors : j \in deletes[a]
      BY <1>1, <1>3, <1>5, <2>2 DEF Doomed, Unseen, Range
    <2>3. QED
      BY <2>1, <2>2
  <1>6. QED
    BY <1>4, <1>5

LEMMA JobsRead ==
  ASSUME PassInv, JobsDoomed, NEW v \in Users, BeginReconcile(v), ~Down
  PROVE  JobsDoomed'
  <1> USE DEF PassInv
  <1> SUFFICES ASSUME NEW j \in jobs', Answerable(j.user, j.id)', ~InFile(j.user, j.id)'
               PROVE  Doomed(j)'
    BY DEF JobsDoomed
  <1>1. /\ access[v] # "broken" /\ stage["watcher"] = "idle"
        /\ requests' = requests \ {v}
        /\ stage' = [stage EXCEPT !["watcher"] = "list"]
        /\ owner' = [owner EXCEPT !["watcher"] = v]
        /\ snap' = [snap EXCEPT !["watcher"] = FSEntry(v)]
        /\ gaps' = {g \in gaps : g[1] # v}
        /\ misread' = IF access[v] = "denied" THEN misread \cup {v} ELSE misread \ {v}
        /\ UNCHANGED <<crontab, jobs, phase, toSync, stream, notes, dirty, deletes>>
    BY DEF BeginReconcile, Read, fsVars, informerVars
  <1>2. stage'["watcher"] = "list" /\ owner'["watcher"] = v /\ snap'["watcher"] = FSEntry(v)
    BY <1>1 DEF TypeOK, Actors
  <1>3. CASE j.user = v
    <2>1. access[v] \notin {"denied", "broken"}
      BY <1>1, <1>3 DEF Answerable
    <2>2. j.id \notin IdsOf(FSEntry(v))
      BY <1>1, <1>3, <2>1, ReadsWhatIsThere DEF InFile, IdsOf
    <2>3. QED
      BY <1>2, <1>3, <2>2 DEF Doomed, IdsOf
  <1>4. CASE j.user # v
    <2>1. j \in jobs /\ Answerable(j.user, j.id) /\ ~InFile(j.user, j.id)
      BY <1>1, <1>4 DEF Answerable, InFile, IdsOf
    <2>2. Doomed(j)
      BY <2>1 DEF JobsDoomed
    <2>3. QED
      BY <1>1, <1>4, <2>2 DEF Doomed, Unseen, Range
  <1>5. QED
    BY <1>3, <1>4

\* The handler takes up one event and deletes its job if it has no line.
LEMMA JobsHandled ==
  ASSUME PassInv, JobsDoomed, HandleEvent, ~Down
  PROVE  JobsDoomed'
  <1> USE DEF PassInv
  <1> SUFFICES ASSUME NEW j \in jobs', Answerable(j.user, j.id)', ~InFile(j.user, j.id)'
               PROVE  Doomed(j)'
    BY DEF JobsDoomed
  <1> DEFINE e == Head(notes)
             v == e.job.user
  <1>1. notes \in Seq(Event) /\ notes # <<>>
    BY DEF TypeOK, HandleEvent
  <1>2. Range(notes) = {e} \cup Range(notes') /\ v \in Users
    <2>1. notes' = Tail(notes)
      BY DEF HandleEvent
    <2>2. Range(notes) = {e} \cup Range(Tail(notes)) /\ e \in Event
      BY <1>1, RangeOfTail
    <2>3. QED
      BY <2>1, <2>2 DEF Event, Job
  <1>3. /\ access[v] # "broken" /\ stage["handler"] = "idle"
        /\ stage' = [stage EXCEPT !["handler"] = "calls"]
        /\ owner' = [owner EXCEPT !["handler"] = v]
        /\ snap' = [snap EXCEPT !["handler"] = FSEntry(v)]
        /\ deletes' = [deletes EXCEPT !["handler"] = EventDeletes(e, FSEntry(v))]
        /\ misread' = IF access[v] = "denied" THEN misread \cup {v} ELSE misread
        /\ UNCHANGED <<crontab, jobs, phase, toSync, stream, dirty, requests, gaps>>
    BY DEF HandleEvent, Read, fsVars, watchVars
  <1>4. /\ UNCHANGED <<stage["watcher"], owner["watcher"], snap["watcher"], deletes["watcher"]>>
        /\ deletes'["handler"] = EventDeletes(e, FSEntry(v)) /\ deletes["handler"] = {}
    BY <1>3 DEF PassShape, TypeOK, Actors
  <1>5. j \in jobs /\ Doomed(j)
    <2>1. Answerable(j.user, j.id) /\ ~InFile(j.user, j.id)
      BY <1>3 DEF Answerable, InFile, IdsOf
    <2>2. QED
      BY <1>3, <2>1 DEF JobsDoomed
  <1>6. CASE e = Added(j)
    <2>1. e.type = "added" /\ e.job = j
      BY <1>6 DEF Added
    <2>2. access[v] \notin {"denied", "broken"}
      BY <1>3, <2>1 DEF Answerable
    <2>3. j.id \notin IdsOf(FSEntry(v))
      BY <1>2, <1>3, <2>1, <2>2, ReadsWhatIsThere DEF InFile, IdsOf
    <2>4. j \in EventDeletes(e, FSEntry(v))
      BY <2>1, <2>3 DEF EventDeletes
    <2>5. QED
      BY <1>4, <2>4 DEF Doomed, Actors
  <1>7. CASE e # Added(j)
    <2>1. CASE Added(j) \in Unseen
      <3>1. Added(j) \in Unseen'
        BY <1>2, <1>3, <1>7, <2>1 DEF Unseen, Range
      <3>2. QED
        BY <3>1 DEF Doomed, Added
    <2>2. CASE \E a \in Actors : j \in deletes[a]
      BY <1>4, <2>2 DEF Doomed, Actors
    <2>3. CASE /\ stage["watcher"] = "list"
               /\ owner["watcher"] = j.user /\ j.id \notin IdsOf(snap["watcher"])
      BY <1>4, <2>3 DEF Doomed, IdsOf
    <2>4. CASE phase # "running" \/ j.user \in dirty \cup requests \/ j \in toSync
      BY <1>3, <2>4 DEF Doomed
    <2>5. QED
      BY <1>5, <2>1, <2>2, <2>3, <2>4 DEF Doomed
  <1>8. QED
    BY <1>6, <1>7

\* A job that is created without a line is announced to the handler.
LEMMA JobsCreated ==
  ASSUME PassInv, JobsDoomed, NEW a \in Actors, CreateCall(a), ~Down
  PROVE  JobsDoomed'
  <1> USE DEF PassInv
  <1>1. PICK c \in creates[a] : CreateSucceeds(a, c) \/ CreateRefused(a, c) \/ CreateFails(a, c)
    BY DEF CreateCall, NextCreates, CreatePanics
  <1>2. /\ UNCHANGED <<crontab, phase, toSync, notes, dirty, requests, stage, owner, snap, deletes, misread>>
        /\ gaps \subseteq gaps'
    BY <1>1 DEF CreateSucceeds, CreateRefused, CreateFails, fsVars, informerVars, watchVars, historyVars
  <1>3. CASE CreateRefused(a, c) \/ CreateFails(a, c)
    <2>1. UNCHANGED <<jobs, stream>>
      BY <1>3 DEF CreateRefused, CreateFails, informerVars
    <2>2. NothingForgotten
      BY <1>2, <2>1 DEF NothingForgotten, Unseen, Range
    <2>3. QED
      BY <1>2, <2>1, <2>2, JobsFrame DEF Answerable
  <1>4. CASE CreateSucceeds(a, c)
    <2>1. PICK n \in Names :
            LET j == [name |-> n, user |-> owner[a], id |-> c[2]]
            IN  jobs' = jobs \cup {j} /\ Emit("added", j)
      BY <1>4 DEF CreateSucceeds
    <2> DEFINE created == [name |-> n, user |-> owner[a], id |-> c[2]]
    <2>2. created \in Job
      <3>1. owner[a] \in Users /\ c[2] \in Ids
        BY <1>1, CallsHaveOwners
      <3>2. QED
        BY <3>1 DEF Job
    <2>3. jobs' = jobs \cup {created} /\ Emit("added", created)
      BY <2>1
    <2> HIDE DEF created
    <2>4. /\ Range(stream) \subseteq Range(stream')
          /\ phase = "running" => Added(created) \in Unseen'
      BY <2>2, <2>3, EmitAdds DEF Unseen, Added
    <2>5. NothingForgotten
      BY <1>2, <2>4 DEF NothingForgotten, Unseen, Range
    <2> SUFFICES ASSUME NEW j \in jobs', Answerable(j.user, j.id)', ~InFile(j.user, j.id)'
                 PROVE  Doomed(j)'
      BY DEF JobsDoomed
    <2>6. CASE j = created
      BY <1>2, <2>4, <2>6 DEF Doomed, Added
    <2>7. CASE j \in jobs
      <3>1. Answerable(j.user, j.id) /\ ~InFile(j.user, j.id)
        BY <1>2 DEF Answerable, InFile, IdsOf
      <3>2. Doomed(j)
        BY <2>7, <3>1 DEF JobsDoomed
      <3>3. QED
        BY <1>2, <2>5, <3>2, DoomedStays
    <2>8. QED
      BY <2>3, <2>6, <2>7
  <1>5. QED
    BY <1>1, <1>3, <1>4

LEMMA JobsStep ==
  ASSUME PassInv, InformerInv, JobsDoomed, [Next]_vars
  PROVE  JobsDoomed'
  <1> USE DEF PassInv
  <1>1. CASE Down \/ Restart
    BY <1>1 DEF Down, Restart, JobsDoomed, Doomed
  <1>2. CASE CacheStart
    BY <1>2 DEF CacheStart, JobsDoomed, Doomed
  <1>3. CASE \/ (\E j \in toSync : SyncInitial(j)) \/ SyncEvent \/ Poll
             \/ \E u \in Users : Deny(u) \/ Break(u) \/ RestoreAccess(u)
             \/ UNCHANGED vars
    <2>1. NothingForgotten /\ UNCHANGED <<crontab, jobs, gaps, misread, deletes, phase>>
      BY <1>3, DeliveryForgetsNothing
      DEF SyncInitial, SyncEvent, Poll, Deny, Break, RestoreAccess, vars
    <2>2. ASSUME NEW j \in toSync, SyncInitial(j)
          PROVE  \A k \in toSync : k \in toSync' \/ Added(k) \in Unseen'
      <3>1. notes \in Seq(Event) /\ Added(j) \in Event /\ notes' = Append(notes, Added(j))
        BY <2>2, EventTypes DEF SyncInitial, Added, TypeOK
      <3>2. Added(j) \in Range(notes')
        BY <3>1, RangeOfAppend
      <3>3. QED
        BY <2>2, <3>2 DEF SyncInitial, Unseen
    <2>3. \A k \in toSync : k \in toSync' \/ Added(k) \in Unseen'
      BY <1>3, <2>2
      DEF SyncEvent, Poll, Deny, Break, RestoreAccess, vars, informerVars
    <2>4. QED
      BY <2>1, <2>3, JobsFrame DEF Answerable
  <1>4. ASSUME NEW u \in Users, BeginReconcile(u), ~Down
        PROVE  JobsDoomed'
    BY <1>4, JobsRead
  <1>5. CASE ListJobs
    BY <1>5, JobsListed
  <1>6. ASSUME HandleEvent, ~Down
        PROVE  JobsDoomed'
    BY <1>6, JobsHandled
  <1>7. ASSUME NEW a \in Actors, CreateCall(a), ~Down
        PROVE  JobsDoomed'
    BY <1>7, JobsCreated
  <1>8. ASSUME NEW a \in Actors, DeleteCall(a)
        PROVE  JobsDoomed'
    <2>1. PICK d \in deletes[a] : DeleteSucceeds(a, d) \/ DeleteFails(a, d)
      BY <1>8 DEF DeleteCall
    <2>2. /\ UNCHANGED <<crontab, phase, toSync, notes, dirty, requests, stage, owner, snap, misread>>
          /\ deletes' = [deletes EXCEPT ![a] = @ \ {d}]
          /\ gaps \subseteq gaps' /\ jobs' \subseteq jobs
      BY <2>1 DEF DeleteSucceeds, DeleteFails, DeleteDone, fsVars, watchVars
    <2>3. Range(stream) \subseteq Range(stream')
      <3>1. CASE UNCHANGED stream
        BY <3>1
      <3>2. CASE d \in jobs /\ Emit("deleted", d)
        BY <3>2, EmitAdds DEF TypeOK
      <3>3. QED
        BY <2>1, <3>1, <3>2 DEF DeleteSucceeds, DeleteFails
    <2>4. NothingForgotten
      BY <2>2, <2>3 DEF NothingForgotten, Unseen, Range
    <2>5. ASSUME NEW j \in jobs', Answerable(j.user, j.id)'
          PROVE  j # d
      BY <2>1, <2>5 DEF DeleteSucceeds, DeleteFails, Answerable
    <2>6. \A j \in jobs' : Answerable(j.user, j.id)' =>
            /\ Answerable(j.user, j.id)
            /\ \A b \in Actors : j \in deletes[b] => j \in deletes'[b]
      BY <2>2, <2>5 DEF Answerable, TypeOK
    <2>7. QED
      BY <2>2, <2>4, <2>6, JobsFrame
  <1>9. ASSUME NEW a \in Actors, Return(a)
        PROVE  JobsDoomed'
    <2> SUFFICES ASSUME NEW j \in jobs', Answerable(j.user, j.id)', ~InFile(j.user, j.id)'
                 PROVE  Doomed(j)'
      BY DEF JobsDoomed
    <2>1. /\ UNCHANGED <<crontab, jobs, phase, toSync, stream, notes, dirty, requests, deletes, gaps, misread>>
          /\ stage[a] = "calls"
          /\ \A b \in Actors \ {a} : UNCHANGED <<stage[b], owner[b], snap[b]>>
      BY <1>9 DEF Return, fsVars, informerVars, watchVars, historyVars, TypeOK
    <2>2. j \in jobs /\ Answerable(j.user, j.id) /\ ~InFile(j.user, j.id)
      BY <2>1 DEF Answerable, InFile, IdsOf
    <2>3. Doomed(j)
      BY <2>2 DEF JobsDoomed
    <2>4. CASE /\ stage["watcher"] = "list"
               /\ owner["watcher"] = j.user /\ j.id \notin IdsOf(snap["watcher"])
      BY <2>1, <2>4 DEF Doomed, IdsOf, Actors
    <2>5. QED
      BY <2>1, <2>3, <2>4 DEF Doomed, Unseen, Range
  <1>10. ASSUME NEW d \in jobs, ExternalDelete(d)
         PROVE  JobsDoomed'
    <2>1. /\ UNCHANGED <<crontab, phase, toSync, notes, dirty, requests, stage, owner, snap, deletes, misread>>
          /\ gaps \subseteq gaps' /\ jobs' \subseteq jobs
      BY <1>10 DEF ExternalDelete, fsVars, watchVars, passVars
    <2>2. Range(stream) \subseteq Range(stream')
      BY <1>10, EmitAdds DEF ExternalDelete, TypeOK
    <2>3. NothingForgotten
      BY <2>1, <2>2 DEF NothingForgotten, Unseen, Range
    <2>4. QED
      BY <2>1, <2>3, JobsFrame DEF Answerable
  <1>11. CASE Operator
    BY <1>1, <1>2, <1>3, <1>4, <1>5, <1>6, <1>7, <1>8, <1>9, <1>11 DEF Operator
  <1>12. CASE Environment
    BY <1>1, <1>3, <1>10, <1>12, JobsEdited DEF Environment, Crash
  <1>13. QED
    BY <1>3, <1>11, <1>12 DEF Next

-----------------------------------------------------------------------------
LEMMA SettlingInvariant == Spec => []SettlingInv
  <1>1. Init => SettlingInv
    <2>1. ASSUME Init
          PROVE  InformerInv
      <3>1. /\ phase = "down" /\ toSync = {} /\ cache = {} /\ stream = <<>> /\ notes = <<>>
            /\ stage = [a \in Actors |-> "idle"] /\ deletes = [a \in Actors |-> {}]
        BY <2>1 DEF Init
      <3>2. NothingHeard /\ CacheHasJobs /\ CachedAreJobs
        BY <3>1 DEF NothingHeard, CacheHasJobs, CachedAreJobs, Actors
      <3>3. DeletedAreGone /\ AddedAreJobs
        BY <3>1, RangeOfEmpty DEF DeletedAreGone, AddedAreJobs
      <3>4. QED
        BY <3>2, <3>3 DEF InformerInv
    <2>2. ASSUME Init
          PROVE  LinesAwaited /\ JobsDoomed
      BY <2>2 DEF Init, LinesAwaited, Awaited, JobsDoomed
    <2>3. QED
      BY <2>1, <2>2 DEF SettlingInv
  <1>2. PassInv /\ SettlingInv /\ [Next]_vars => SettlingInv'
    BY InformerStep, LinesStep, JobsStep DEF SettlingInv
  <1>3. QED
    BY <1>1, <1>2, PassInvariant, PTL DEF Spec

\* When nothing is left to do, the files and the jobs agree on every line the
\* operator can answer for: with any users, lines, names and contents, after
\* any edits, crashes, deletions by others, stale lists and concurrent passes.
THEOREM SettledFilesAndJobsAgree == Spec => []QuiescentConsistent
  <1>1. ASSUME PassInv, SettlingInv, Quiescent, NEW u \in Users, NEW i \in Ids, Answerable(u, i)
        PROVE  Consistent(u, i)
    <2>1. /\ phase = "running" /\ toSync = {} /\ dirty \cup requests = {} /\ Unseen = {}
          /\ \A a \in Actors : stage[a] = "idle" /\ creates[a] = {} /\ deletes[a] = {}
      BY <1>1, RangeOfEmpty DEF Quiescent, PassInv, PassShape, Unseen
    <2>2. ~Awaited(u, i)
      BY <2>1 DEF Awaited, Actors
    <2>3. \A j \in jobs : ~Doomed(j)
      BY <2>1 DEF Doomed, Actors
    <2>4. InFile(u, i) => HasJob(u, i)
      BY <1>1, <2>2 DEF SettlingInv, LinesAwaited
    <2>5. HasJob(u, i) => InFile(u, i)
      BY <1>1, <2>3 DEF SettlingInv, JobsDoomed, HasJob, JobsOf
    <2>6. QED
      BY <2>4, <2>5 DEF Consistent
  <1>2. PassInv /\ SettlingInv => QuiescentConsistent
    BY <1>1 DEF QuiescentConsistent
  <1>3. QED
    BY <1>2, PassInvariant, SettlingInvariant, PTL

-----------------------------------------------------------------------------
(* Without haste and without faults, a line gets one job *)

Calm == ~rushed /\ faults = 0

\* What a pass over u still has to list.
Waits(u) == u \in dirty \cup requests \/ (stage["watcher"] = "list" /\ owner["watcher"] = u)

\* The creations a pass of the watcher over u still makes for a line.
CallsOf(u, i) == {q \in creates["watcher"] : owner["watcher"] = u /\ q[2] = i}

\* A process that is not up has nothing to do.
StartsEmpty ==
  phase = "down" => jobs = {} /\ dirty \cup requests = {} /\ stage["watcher"] = "idle"

\* The handler finds what the file says already done.
HandlerRests == creates["handler"] = {} /\ deletes["handler"] = {}

\* A file does not change under the pass that read it.
PassIsCurrent ==
  /\ \A u \in Users : access[u] = "ok"
  /\ \A u \in Users : owner["watcher"] = u => snap["watcher"] = crontab[u]

\* The events on their way, and the jobs the informer will list, agree with
\* the files as they are now.
EventsAgree ==
  /\ \A e \in Unseen : e.type = "added" <=> InFile(e.job.user, e.job.id)
  /\ \A j \in toSync : InFile(j.user, j.id)
  /\ phase # "running" => \A j \in jobs : InFile(j.user, j.id)

\* The list that a pass over u has still to make shows every job of u.
ListIsComplete ==
  \A j \in jobs : Waits(j.user) => phase = "running" /\ j \in cache \cup toSync

\* A user is asked for once at a time.
OneTurn ==
  /\ dirty # {} => requests = {} /\ stage["watcher"] = "idle"
  /\ \A u \in requests : owner["watcher"] # u

\* The jobs of a line, and those about to be created, are no more than the
\* associations of some content that hold it.
Counted ==
  \A u \in Users, i \in Ids :
    /\ IsFiniteSet(JobsOf(u, i)) /\ IsFiniteSet(CallsOf(u, i))
    /\ \E n \in Occurrences(i) : Cardinality(JobsOf(u, i)) + Cardinality(CallsOf(u, i)) <= n

CalmParts ==
  /\ StartsEmpty /\ HandlerRests /\ PassIsCurrent /\ EventsAgree
  /\ ListIsComplete /\ OneTurn /\ Counted
CalmInv == Calm => CalmParts

\* The associations a content holds a line in.
Holding(content, i) == {k \in DOMAIN content : i \in content[k]}

LEMMA HoldingIsFinite ==
  ASSUME NEW content \in Seq(SUBSET Ids), NEW i
  PROVE  IsFiniteSet(Holding(content, i)) /\ Cardinality(Holding(content, i)) \in Nat
  <1>1. IsFiniteSet(1 .. Len(content))
    BY FS_Interval
  <1>2. Holding(content, i) \in SUBSET (1 .. Len(content))
    BY DEF Holding
  <1>3. QED
    BY <1>1, <1>2, FS_Subset, FS_CardinalityType

LEMMA OccurrencesAreNumbers ==
  ASSUME NEW i
  PROVE  /\ Occurrences(i) \subseteq Nat
         /\ \E n \in Occurrences(i) : 0 <= n
         /\ \A content \in Contents : Cardinality(Holding(content, i)) \in Occurrences(i)
  <1>1. \A content \in Contents : Cardinality(Holding(content, i)) \in Nat
    BY HoldingIsFinite, ConstantsAssumption
  <1>2. Occurrences(i) = {Cardinality(Holding(content, i)) : content \in Contents}
    BY DEF Occurrences, Holding
  <1>3. \A content \in Contents : 0 <= Cardinality(Holding(content, i))
    BY <1>1
  <1>4. QED
    BY <1>1, <1>2, <1>3, ConstantsAssumption

\* The calls for one line are one for each association that holds it.
LEMMA CallsAreCounted ==
  ASSUME NEW content \in Seq(SUBSET Ids), NEW wanted, NEW i,
         NEW Q \in SUBSET {q \in CallsFor(content, wanted) : q[2] = i}
  PROVE  IsFiniteSet(Q) /\ Cardinality(Q) <= Cardinality(Holding(content, i))
  <1> DEFINE f == [q \in Q |-> q[1]]
  <1>1. \A q \in Q : q = <<q[1], i>> /\ q[1] \in Holding(content, i)
    BY DEF CallsFor, Holding
  <1>2. f \in Injection(Q, Holding(content, i))
    BY <1>1 DEF Injection, IsInjective
  <1>3. IsFiniteSet(Holding(content, i))
    BY HoldingIsFinite
  <1>4. QED
    BY <1>2, <1>3, FS_Injection

\* Fewer calls and fewer jobs stay counted.
LEMMA CountedFrame ==
  ASSUME Counted,
         \A u \in Users, i \in Ids :
           JobsOf(u, i)' \subseteq JobsOf(u, i) /\ CallsOf(u, i)' \subseteq CallsOf(u, i)
  PROVE  Counted'
  <1> SUFFICES ASSUME NEW u \in Users, NEW i \in Ids
               PROVE  /\ IsFiniteSet(JobsOf(u, i)') /\ IsFiniteSet(CallsOf(u, i)')
                      /\ \E n \in Occurrences(i) :
                           Cardinality(JobsOf(u, i)') + Cardinality(CallsOf(u, i)') <= n
    BY DEF Counted, Occurrences
  <1>1. PICK n \in Occurrences(i) : Cardinality(JobsOf(u, i)) + Cardinality(CallsOf(u, i)) <= n
    BY DEF Counted
  <1>2. /\ IsFiniteSet(JobsOf(u, i)') /\ IsFiniteSet(CallsOf(u, i)')
        /\ Cardinality(JobsOf(u, i)') <= Cardinality(JobsOf(u, i))
        /\ Cardinality(CallsOf(u, i)') <= Cardinality(CallsOf(u, i))
    BY FS_Subset DEF Counted
  <1>3. /\ Cardinality(JobsOf(u, i)) \in Nat /\ Cardinality(CallsOf(u, i)) \in Nat
        /\ Cardinality(JobsOf(u, i)') \in Nat /\ Cardinality(CallsOf(u, i)') \in Nat
    BY <1>2, FS_CardinalityType DEF Counted
  <1>4. n \in Nat
    BY OccurrencesAreNumbers
  <1>5. QED
    BY <1>1, <1>2, <1>3, <1>4

\* Steps that neither change a file nor end the process keep it calm or not.
LEMMA CalmBefore ==
  ASSUME TypeOK, [Next]_vars, Calm'
  PROVE  /\ Calm
         /\ faults' = faults /\ ~rushed'
         /\ UNCHANGED access \/ ~PassIsCurrent
         /\ phase' = "down" => phase = "down"
  <1>0. faults \in Nat /\ rushed \in BOOLEAN
    BY ConstantsAssumption DEF TypeOK
  <1>1. ~Down /\ ~(\E kind \in Faults : Fault(kind))
    BY <1>0 DEF Calm, Down, Fault
  <1>2. CASE Environment
    <2>1. PICK u \in Users :
            \/ \E content \in Contents : Edit(u, content)
            \/ RestoreAccess(u)
      BY <1>1, <1>2
      DEF Environment, Rewrite, Deny, Break, ExternalDelete, Crash, Fault
    <2>2. QED
      BY <1>0, <2>1 DEF Calm, Edit, UserChange, RestoreAccess, PassIsCurrent, historyVars, boundVars
  <1>3. CASE Operator
    <2>1. CASE \/ Restart \/ CacheStart \/ (\E j \in toSync : SyncInitial(j)) \/ SyncEvent \/ Poll
               \/ ListJobs \/ (\E a \in Actors : Return(a))
      <3>1. /\ UNCHANGED <<fsVars, historyVars, boundVars>>
            /\ phase' = "down" => phase = "down"
        BY <2>1 DEF Restart, CacheStart, SyncInitial, SyncEvent, Poll, ListJobs, Return
      <3>2. QED
        BY <3>1 DEF Calm, fsVars, historyVars, boundVars
    <2>2. CASE HandleEvent \/ \E u \in Users : BeginReconcile(u)
      BY <1>1, <2>2 DEF Calm, BeginReconcile, HandleEvent, fsVars, boundVars
    <2>3. CASE \E a \in Actors : CreateCall(a)
      BY <1>1, <2>3, <1>0
      DEF Calm, CreateCall, CreatePanics, CreateSucceeds, CreateRefused, CreateFails, Fault,
          fsVars, historyVars, boundVars
    <2>4. CASE \E a \in Actors : DeleteCall(a)
      BY <1>1, <2>4, <1>0
      DEF Calm, DeleteCall, DeleteSucceeds, DeleteFails, DeleteDone, Fault, fsVars
    <2>5. QED
      BY <1>3, <2>1, <2>2, <2>3, <2>4 DEF Operator
  <1>4. CASE UNCHANGED vars
    BY <1>4 DEF vars, Calm, fsVars, historyVars, boundVars
  <1>5. QED
    BY <1>2, <1>3, <1>4 DEF Next

\* A pass begins with a turn, and the file it reads is the one that is there.
LEMMA CalmRead ==
  ASSUME PassInv, CalmParts, NEW u \in Users, BeginReconcile(u), ~Down
  PROVE  CalmParts'
  <1>0. TypeOK /\ PassShape
    BY DEF PassInv
  <1>1. /\ stage["watcher"] = "idle" /\ u \in requests /\ requests' = requests \ {u}
        /\ stage' = [stage EXCEPT !["watcher"] = "list"]
        /\ owner' = [owner EXCEPT !["watcher"] = u]
        /\ snap' = [snap EXCEPT !["watcher"] = FSEntry(u)]
        /\ UNCHANGED <<crontab, access, jobs, phase, toSync, stream, cache, notes, dirty,
                       creates, deletes>>
    BY DEF BeginReconcile, Read, fsVars, informerVars
  <1>2. FSEntry(u) = crontab[u]
    BY <1>0, ReadsWhatIsThere DEF CalmParts, PassIsCurrent
  <1>3. owner'["watcher"] = u /\ snap'["watcher"] = crontab[u] /\ stage'["watcher"] = "list"
    BY <1>0, <1>1, <1>2 DEF TypeOK, Actors
  <1>4. creates["watcher"] = {} /\ phase # "down" /\ dirty = {}
    BY <1>0, <1>1 DEF PassShape, Actors, CalmParts, StartsEmpty, OneTurn
  <1>5. \A w : Waits(w)' <=> Waits(w)
    BY <1>1, <1>3 DEF Waits
  <1>6. StartsEmpty' /\ HandlerRests' /\ PassIsCurrent' /\ OneTurn'
    BY <1>1, <1>3, <1>4 DEF CalmParts, StartsEmpty, HandlerRests, PassIsCurrent, OneTurn
  <1>7. EventsAgree'
    BY <1>1 DEF CalmParts, EventsAgree, Unseen, Range, InFile
  <1>8. ListIsComplete'
    BY <1>1, <1>5 DEF CalmParts, ListIsComplete
  <1>9. Counted'
    BY <1>1, <1>4, CountedFrame DEF CalmParts, JobsOf, CallsOf
  <1>10. QED
    BY <1>6, <1>7, <1>8, <1>9 DEF CalmParts

\* A pass that lists sees a line's job if there is one.
LEMMA CalmListed ==
  ASSUME PassInv, CalmParts, ListJobs
  PROVE  CalmParts'
  <1> DEFINE o == owner["watcher"]
             listed == ListedFor(o)
  <1>0. TypeOK /\ PassShape
    BY DEF PassInv
  <1>1. /\ stage["watcher"] = "list" /\ (phase = "running" => toSync = {})
        /\ stage' = [stage EXCEPT !["watcher"] = "calls"]
        /\ creates' = [creates EXCEPT !["watcher"] = MissingCalls(snap["watcher"], listed)]
        /\ deletes' = [deletes EXCEPT !["watcher"] = ExtraJobs(snap["watcher"], listed)]
        /\ UNCHANGED <<crontab, access, jobs, phase, toSync, stream, cache, notes, dirty,
                       requests, owner, snap>>
    BY DEF ListJobs, fsVars, informerVars, watchVars
  <1>2. /\ creates'["watcher"] = MissingCalls(snap["watcher"], listed)
        /\ creates'["handler"] = creates["handler"] /\ deletes'["handler"] = deletes["handler"]
        /\ stage'["watcher"] = "calls"
    BY <1>0, <1>1 DEF TypeOK, Actors
  <1>3. o \in Users /\ phase # "down" /\ dirty = {} /\ snap["watcher"] \in Seq(SUBSET Ids)
        /\ snap["watcher"] \in Contents
    BY <1>0, <1>1, ConstantsAssumption
    DEF PassShape, TypeOK, Actors, CalmParts, StartsEmpty, OneTurn
  <1>4. StartsEmpty' /\ HandlerRests' /\ PassIsCurrent' /\ OneTurn'
    BY <1>1, <1>2, <1>3 DEF CalmParts, StartsEmpty, HandlerRests, PassIsCurrent, OneTurn
  <1>5. EventsAgree'
    BY <1>1 DEF CalmParts, EventsAgree, Unseen, Range, InFile
  <1>6. ListIsComplete'
    BY <1>1, <1>2 DEF CalmParts, ListIsComplete, Waits
  <1>7. ASSUME NEW u \in Users, NEW i \in Ids
        PROVE  /\ IsFiniteSet(JobsOf(u, i)') /\ IsFiniteSet(CallsOf(u, i)')
               /\ \E n \in Occurrences(i) :
                    Cardinality(JobsOf(u, i)') + Cardinality(CallsOf(u, i)') <= n
    <2>0. /\ JobsOf(u, i)' = JobsOf(u, i) /\ IsFiniteSet(JobsOf(u, i))
          /\ Cardinality(JobsOf(u, i)) \in Nat /\ Cardinality(CallsOf(u, i)) \in Nat
      BY <1>1, FS_CardinalityType DEF CalmParts, Counted, JobsOf
    <2>1. CASE JobsOf(u, i) # {} \/ u # o
      <3>1. CallsOf(u, i)' = {}
        <4>1. CASE u # o
          BY <1>1, <4>1 DEF CallsOf
        <4>2. CASE u = o /\ JobsOf(u, i) # {}
          <5>1. PICK j \in jobs : j.user = u /\ j.id = i
            BY <4>2 DEF JobsOf
          <5>2. phase = "running" /\ j \in cache
            BY <1>1, <4>2, <5>1 DEF CalmParts, ListIsComplete, Waits
          <5>3. i \in {k.id : k \in listed}
            BY <4>2, <5>1, <5>2 DEF ListedFor
          <5>4. \A q \in creates'["watcher"] : q[2] # i
            BY <1>2, <1>3, <5>3, CallsForType DEF MissingCalls
          <5>5. QED
            BY <5>4 DEF CallsOf
        <4>3. QED
          BY <2>1, <4>1, <4>2
      <3>2. PICK n \in Occurrences(i) : Cardinality(JobsOf(u, i)) + Cardinality(CallsOf(u, i)) <= n
        BY DEF CalmParts, Counted
      <3>3. n \in Nat
        BY OccurrencesAreNumbers
      <3>4. Cardinality(JobsOf(u, i)) + 0 <= n
        BY <2>0, <3>2, <3>3
      <3>5. QED
        BY <2>0, <3>1, <3>4, FS_EmptySet
    <2>2. CASE JobsOf(u, i) = {} /\ u = o
      <3> DEFINE content == snap["watcher"]
                 wanted == IdsOf(content) \ {j.id : j \in listed}
      <3>1. CallsOf(u, i)' \in SUBSET {q \in CallsFor(content, wanted) : q[2] = i}
        BY <1>2 DEF CallsOf, MissingCalls
      <3>2. IsFiniteSet(CallsOf(u, i)') /\ Cardinality(CallsOf(u, i)') <= Cardinality(Holding(content, i))
        <4> HIDE DEF wanted
        <4>1. QED
          BY <1>3, <3>1, CallsAreCounted
      <3>3. Cardinality(JobsOf(u, i)') = 0 /\ Cardinality(CallsOf(u, i)') \in Nat
        BY <2>0, <2>2, <3>2, FS_EmptySet, FS_CardinalityType
      <3>4. Cardinality(Holding(content, i)) \in Occurrences(i)
        BY <1>3, OccurrencesAreNumbers
      <3>5. QED
        BY <2>0, <3>2, <3>3, <3>4
    <2>3. QED
      BY <2>1, <2>2
  <1>8. Counted'
    BY <1>7 DEF Counted, Occurrences
  <1>9. QED
    BY <1>4, <1>5, <1>6, <1>8 DEF CalmParts

\* The handler has nothing to call for.
LEMMA CalmHandled ==
  ASSUME PassInv, CalmParts, HandleEvent, ~Down
  PROVE  CalmParts'
  <1> DEFINE e == Head(notes)
             u == e.job.user
  <1>0. TypeOK /\ PassShape
    BY DEF PassInv
  <1>1. /\ notes # <<>> /\ notes' = Tail(notes)
        /\ stage' = [stage EXCEPT !["handler"] = "calls"]
        /\ owner' = [owner EXCEPT !["handler"] = u]
        /\ snap' = [snap EXCEPT !["handler"] = FSEntry(u)]
        /\ creates' = [creates EXCEPT !["handler"] = EventCreates(e, FSEntry(u))]
        /\ deletes' = [deletes EXCEPT !["handler"] = EventDeletes(e, FSEntry(u))]
        /\ UNCHANGED <<crontab, access, jobs, phase, toSync, stream, cache, dirty, requests>>
    BY DEF HandleEvent, Read, fsVars, watchVars
  <1>2. notes \in Seq(Event) /\ Range(notes) = {e} \cup Range(notes')
    BY <1>0, <1>1, RangeOfTail DEF TypeOK
  <1>3. e \in Event /\ e \in Unseen /\ u \in Users
    BY <1>0, <1>2, EventTypes DEF Unseen, Job
  <1>4. FSEntry(u) = crontab[u] /\ crontab[u] \in Seq(SUBSET Ids)
    BY <1>0, <1>3, ReadsWhatIsThere, ConstantsAssumption DEF CalmParts, PassIsCurrent, TypeOK
  <1>5. e.type = "added" <=> e.job.id \in IdsOf(crontab[u])
    BY <1>3 DEF CalmParts, EventsAgree, InFile
  <1>6. EventCreates(e, FSEntry(u)) = {} /\ EventDeletes(e, FSEntry(u)) = {}
    <2>1. e.type = "deleted" => e.job.id \notin IdsOf(crontab[u])
      BY <1>5
    <2>2. QED
      BY <1>4, <1>5, <2>1, CallsForType DEF EventCreates, EventDeletes
  <1>7. /\ creates'["handler"] = {} /\ deletes'["handler"] = {}
        /\ creates'["watcher"] = creates["watcher"]
        /\ owner'["watcher"] = owner["watcher"] /\ snap'["watcher"] = snap["watcher"]
        /\ stage'["watcher"] = stage["watcher"]
    BY <1>0, <1>1, <1>6 DEF TypeOK, Actors
  <1>8. StartsEmpty' /\ HandlerRests' /\ PassIsCurrent' /\ OneTurn'
    BY <1>1, <1>7 DEF CalmParts, StartsEmpty, HandlerRests, PassIsCurrent, OneTurn
  <1>9. EventsAgree'
    BY <1>1, <1>2 DEF CalmParts, EventsAgree, Unseen, Range, InFile
  <1>10. ListIsComplete'
    BY <1>1, <1>7 DEF CalmParts, ListIsComplete, Waits
  <1>11. Counted'
    BY <1>1, <1>7, CountedFrame DEF CalmParts, JobsOf, CallsOf
  <1>12. QED
    BY <1>8, <1>9, <1>10, <1>11 DEF CalmParts

\* The watcher creates a job of a line that is in the file.
LEMMA CalmCreated ==
  ASSUME PassInv, CalmParts, NEW q \in creates["watcher"], CreateSucceeds("watcher", q)
  PROVE  CalmParts'
  <1> DEFINE o == owner["watcher"]
  <1>0. TypeOK /\ PassShape /\ "watcher" \in Actors
    BY DEF PassInv, Actors
  <1>1. PICK n \in Names \ NamesInUse :
          /\ jobs' = jobs \cup {[name |-> n, user |-> o, id |-> q[2]]}
          /\ Emit("added", [name |-> n, user |-> o, id |-> q[2]])
    BY DEF CreateSucceeds
  <1> DEFINE j == [name |-> n, user |-> o, id |-> q[2]]
  <1>2. /\ o \in Users /\ q[2] \in Ids /\ j \in Job
        /\ j.user = o /\ j.id = q[2] /\ j.name = n
    BY <1>0, <1>1, CallsHaveOwners DEF Job
  <1>3. /\ creates' = [creates EXCEPT !["watcher"] = @ \ {q}]
        /\ UNCHANGED <<crontab, access, phase, toSync, cache, notes, dirty, requests,
                       stage, owner, snap, deletes>>
    BY DEF CreateSucceeds, CreateDone, fsVars, watchVars
  <1>4. /\ creates'["watcher"] = creates["watcher"] \ {q}
        /\ creates'["handler"] = creates["handler"]
    BY <1>0, <1>3 DEF TypeOK, Actors
  <1>5. stage["watcher"] = "calls" /\ phase # "down" /\ dirty = {} /\ o \notin requests
    <2>1. stage["watcher"] = "calls"
      BY <1>0 DEF PassShape
    <2>2. QED
      BY <1>2, <2>1 DEF CalmParts, StartsEmpty, OneTurn
  <1>6. InFile(o, q[2])
    BY <1>0, <1>2 DEF PassInv, SnapshotJustified, CalmParts, PassIsCurrent, InFile
  <1>7. StartsEmpty' /\ HandlerRests' /\ PassIsCurrent' /\ OneTurn'
    BY <1>3, <1>4, <1>5 DEF CalmParts, StartsEmpty, HandlerRests, PassIsCurrent, OneTurn
  <1>8. EventsAgree'
    <2>1. Range(stream') \subseteq Range(stream) \cup {Added(j)}
      <3>1. CASE phase = "running"
        BY <1>0, <1>1, <1>2, <3>1, EmitAdds DEF Added
      <3>2. CASE phase # "running"
        BY <1>0, <1>1, <1>2, <3>2, EmitAdds
      <3>3. QED
        BY <3>1, <3>2
    <2>2. Added(j).type = "added" /\ Added(j).job = j
      BY DEF Added
    <2>3. \A e \in Unseen' : e \in Unseen \/ e = Added(j)
      BY <1>3, <2>1 DEF Unseen
    <2>4. \A u, i : InFile(u, i)' <=> InFile(u, i)
      BY <1>3 DEF InFile
    <2>5. \A e \in Unseen' : e.type = "added" <=> InFile(e.job.user, e.job.id)'
      BY <1>2, <1>6, <2>2, <2>3, <2>4 DEF CalmParts, EventsAgree
    <2>6. /\ \A k \in toSync' : InFile(k.user, k.id)'
          /\ phase' # "running" => \A k \in jobs' : InFile(k.user, k.id)'
      BY <1>1, <1>2, <1>3, <1>6, <2>4 DEF CalmParts, EventsAgree
    <2>7. QED
      BY <2>5, <2>6 DEF EventsAgree
  <1>9. ListIsComplete'
    <2>1. \A u : Waits(u)' <=> Waits(u)
      BY <1>3 DEF Waits
    <2>2. ~Waits(o)
      BY <1>5 DEF Waits
    <2>3. QED
      BY <1>1, <1>2, <1>3, <2>1, <2>2 DEF CalmParts, ListIsComplete
  <1>10. ASSUME NEW u \in Users, NEW i \in Ids
         PROVE  /\ IsFiniteSet(JobsOf(u, i)') /\ IsFiniteSet(CallsOf(u, i)')
                /\ \E m \in Occurrences(i) :
                     Cardinality(JobsOf(u, i)') + Cardinality(CallsOf(u, i)') <= m
    <2>1. PICK m \in Occurrences(i) : Cardinality(JobsOf(u, i)) + Cardinality(CallsOf(u, i)) <= m
      BY DEF CalmParts, Counted
    <2>2. /\ IsFiniteSet(JobsOf(u, i)) /\ IsFiniteSet(CallsOf(u, i)) /\ m \in Nat
          /\ Cardinality(JobsOf(u, i)) \in Nat /\ Cardinality(CallsOf(u, i)) \in Nat
      BY FS_CardinalityType, OccurrencesAreNumbers DEF CalmParts, Counted
    <2>3. CASE u = o /\ i = q[2]
      <3>1. JobsOf(u, i)' = JobsOf(u, i) \cup {j} /\ CallsOf(u, i)' = CallsOf(u, i) \ {q}
        BY <1>1, <1>2, <1>3, <1>4, <2>3 DEF JobsOf, CallsOf
      <3>2. q \in CallsOf(u, i)
        BY <2>3 DEF CallsOf
      <3>3. /\ IsFiniteSet(JobsOf(u, i)') /\ IsFiniteSet(CallsOf(u, i)')
            /\ Cardinality(JobsOf(u, i)') <= Cardinality(JobsOf(u, i)) + 1
            /\ Cardinality(CallsOf(u, i)') = Cardinality(CallsOf(u, i)) - 1
        <4>1. /\ IsFiniteSet(JobsOf(u, i)')
              /\ Cardinality(JobsOf(u, i)') = IF j \in JobsOf(u, i) THEN Cardinality(JobsOf(u, i))
                                              ELSE Cardinality(JobsOf(u, i)) + 1
          <5> HIDE DEF j
          <5>1. QED
            BY <2>2, <3>1, FS_AddElement
        <4>2. /\ IsFiniteSet(CallsOf(u, i)')
              /\ Cardinality(CallsOf(u, i)') = Cardinality(CallsOf(u, i)) - 1
          BY <2>2, <3>1, <3>2, FS_RemoveElement
        <4>3. QED
          BY <2>2, <4>1, <4>2
      <3>4. Cardinality(JobsOf(u, i)') \in Nat /\ Cardinality(CallsOf(u, i)') \in Nat
        BY <3>3, FS_CardinalityType
      <3>5. QED
        BY <2>1, <2>2, <3>3, <3>4
    <2>4. CASE u # o \/ i # q[2]
      <3>1. JobsOf(u, i)' = JobsOf(u, i) /\ CallsOf(u, i)' = CallsOf(u, i)
        BY <1>1, <1>2, <1>3, <1>4, <2>4 DEF JobsOf, CallsOf
      <3>2. QED
        BY <2>1, <2>2, <3>1
    <2>5. QED
      BY <2>3, <2>4
  <1>11. Counted'
    BY <1>10 DEF Counted, Occurrences
  <1>12. QED
    BY <1>7, <1>8, <1>9, <1>11 DEF CalmParts

\* The watcher deletes a job without a line.
LEMMA CalmDeleted ==
  ASSUME PassInv, CalmParts, NEW j \in deletes["watcher"], DeleteSucceeds("watcher", j)
  PROVE  CalmParts'
  <1>0. TypeOK /\ PassShape /\ "watcher" \in Actors
    BY DEF PassInv, Actors
  <1>1. /\ jobs' = jobs \ {j}
        /\ IF j \in jobs THEN Emit("deleted", j) ELSE UNCHANGED stream
        /\ deletes' = [deletes EXCEPT !["watcher"] = @ \ {j}]
        /\ UNCHANGED <<crontab, access, phase, toSync, cache, notes, dirty, requests,
                       stage, owner, snap, creates>>
    BY DEF DeleteSucceeds, DeleteDone, fsVars, watchVars
  <1>2. j \in Job /\ deletes'["handler"] = deletes["handler"]
    BY <1>0, <1>1 DEF TypeOK, Actors
  <1>3. ~InFile(j.user, j.id)
    <2>1. j.user = owner["watcher"] /\ j.id \notin IdsOf(snap["watcher"]) /\ j.user \in Users
      BY <1>0, <1>2 DEF PassInv, SnapshotJustified, Job
    <2>2. QED
      BY <2>1 DEF CalmParts, PassIsCurrent, InFile
  <1>4. StartsEmpty' /\ HandlerRests' /\ PassIsCurrent' /\ OneTurn'
    BY <1>1, <1>2 DEF CalmParts, StartsEmpty, HandlerRests, PassIsCurrent, OneTurn
  <1>5. EventsAgree'
    <2>1. Range(stream') \subseteq Range(stream) \cup {Deleted(j)}
      <3>1. CASE j \in jobs /\ phase = "running"
        BY <1>0, <1>1, <1>2, <3>1, EmitAdds DEF Deleted
      <3>2. CASE j \in jobs /\ phase # "running"
        BY <1>0, <1>1, <1>2, <3>2, EmitAdds
      <3>3. CASE j \notin jobs
        BY <1>1, <3>3
      <3>4. QED
        BY <3>1, <3>2, <3>3
    <2>2. Deleted(j).type = "deleted" /\ Deleted(j).job = j
      BY DEF Deleted
    <2>3. \A e \in Unseen' : e \in Unseen \/ e = Deleted(j)
      BY <1>1, <2>1 DEF Unseen
    <2>4. \A u, i : InFile(u, i)' <=> InFile(u, i)
      BY <1>1 DEF InFile
    <2>5. \A e \in Unseen' : e.type = "added" <=> InFile(e.job.user, e.job.id)'
      BY <1>3, <2>2, <2>3, <2>4 DEF CalmParts, EventsAgree
    <2>6. QED
      BY <1>1, <2>4, <2>5 DEF CalmParts, EventsAgree
  <1>6. ListIsComplete'
    BY <1>1 DEF CalmParts, ListIsComplete, Waits
  <1>7. Counted'
    BY <1>1, CountedFrame DEF CalmParts, JobsOf, CallsOf
  <1>8. QED
    BY <1>4, <1>5, <1>6, <1>7 DEF CalmParts

\* A user changes a file when nothing is left to do.
LEMMA CalmEdited ==
  ASSUME PassInv, InformerInv, CalmParts, Quiescent,
         NEW u \in Users, NEW content \in Contents, Edit(u, content)
  PROVE  CalmParts'
  <1>1. /\ phase = "running" /\ toSync = {} /\ dirty = {} /\ requests = {} /\ Unseen = {}
        /\ stage["watcher"] = "idle" /\ Range(stream) = {}
    BY RangeOfEmpty DEF Quiescent, Unseen, Actors
  <1>2. /\ dirty' = {u}
        /\ UNCHANGED <<access, jobs, phase, toSync, stream, cache, notes, requests,
                       stage, owner, snap, creates, deletes>>
    BY <1>1 DEF Edit, UserChange, Touch, informerVars, passVars
  <1>3. owner["watcher"] = NoUser
    BY <1>1 DEF PassInv, PassShape, Actors
  <1>4. StartsEmpty' /\ HandlerRests' /\ PassIsCurrent' /\ OneTurn'
    BY <1>1, <1>2, <1>3, ConstantsAssumption
    DEF CalmParts, StartsEmpty, HandlerRests, PassIsCurrent, OneTurn
  <1>5. EventsAgree'
    BY <1>1, <1>2 DEF EventsAgree, Unseen
  <1>6. ListIsComplete'
    <2>1. \A j \in jobs : j \in cache
      BY <1>1 DEF InformerInv, CacheHasJobs
    <2>2. QED
      BY <1>1, <1>2, <2>1 DEF ListIsComplete
  <1>7. Counted'
    BY <1>2, CountedFrame DEF CalmParts, JobsOf, CallsOf
  <1>8. QED
    BY <1>4, <1>5, <1>6, <1>7 DEF CalmParts

\* The process starts, the informer delivers, a turn or a pass ends.
LEMMA CalmDelivered ==
  ASSUME PassInv, InformerInv, CalmParts,
         Restart \/ CacheStart \/ (\E j \in toSync : SyncInitial(j)) \/ SyncEvent \/ Poll
           \/ \E a \in Actors : Return(a)
  PROVE  CalmParts'
  <1>0. TypeOK /\ PassShape /\ stream \in Seq(Event) /\ notes \in Seq(Event)
    BY DEF PassInv, TypeOK
  <1>1. CASE Restart
    <2>1. /\ phase = "down" /\ phase' = "starting" /\ jobs = {} /\ dirty = {}
          /\ owner["watcher"] = NoUser
          /\ UNCHANGED <<crontab, access, jobs, toSync, stream, cache, notes, dirty,
                         stage, owner, snap, creates, deletes>>
      BY <1>0, <1>1
      DEF Restart, CalmParts, StartsEmpty, PassShape, Actors, fsVars, informerVars, passVars
    <2>2. requests' \subseteq Users
      BY <1>1 DEF Restart
    <2>3. StartsEmpty' /\ HandlerRests' /\ PassIsCurrent' /\ OneTurn' /\ ListIsComplete'
      BY <2>1, <2>2, ConstantsAssumption
      DEF CalmParts, StartsEmpty, HandlerRests, PassIsCurrent, OneTurn, ListIsComplete
    <2>4. EventsAgree'
      BY <2>1 DEF CalmParts, EventsAgree, Unseen, Range, InFile
    <2>5. Counted'
      BY <2>1, CountedFrame DEF CalmParts, JobsOf, CallsOf
    <2>6. QED
      BY <2>3, <2>4, <2>5 DEF CalmParts
  <1>2. CASE CacheStart
    <2>1. /\ phase = "starting" /\ phase' = "running" /\ toSync' = jobs
          /\ UNCHANGED <<crontab, access, jobs, stream, cache, notes, dirty, requests,
                         stage, owner, snap, creates, deletes>>
      BY <1>2 DEF CacheStart, fsVars, watchVars, passVars
    <2>2. StartsEmpty' /\ HandlerRests' /\ PassIsCurrent' /\ OneTurn' /\ ListIsComplete'
      BY <2>1
      DEF CalmParts, StartsEmpty, HandlerRests, PassIsCurrent, OneTurn, ListIsComplete, Waits
    <2>3. EventsAgree'
      BY <2>1 DEF CalmParts, EventsAgree, Unseen, Range, InFile
    <2>4. Counted'
      BY <2>1, CountedFrame DEF CalmParts, JobsOf, CallsOf
    <2>5. QED
      BY <2>2, <2>3, <2>4 DEF CalmParts
  <1>3. ASSUME (\E j \in toSync : SyncInitial(j)) \/ SyncEvent
        PROVE  CalmParts'
    <2>1. UNCHANGED <<crontab, access, jobs, phase, dirty, requests, stage, owner, snap,
                      creates, deletes>>
      BY <1>3 DEF SyncInitial, SyncEvent, fsVars, watchVars, passVars
    <2>2. StartsEmpty' /\ HandlerRests' /\ PassIsCurrent' /\ OneTurn'
      BY <2>1 DEF CalmParts, StartsEmpty, HandlerRests, PassIsCurrent, OneTurn
    <2>3. Counted'
      BY <2>1, CountedFrame DEF CalmParts, JobsOf, CallsOf
    <2>4. ASSUME NEW j \in toSync, SyncInitial(j)
          PROVE  EventsAgree' /\ ListIsComplete'
      <3>1. /\ toSync' = toSync \ {j} /\ cache' = cache \cup {j} /\ stream' = stream
            /\ notes' = Append(notes, Added(j)) /\ j \in Job
        BY <1>0, <2>4 DEF SyncInitial, Added, TypeOK
      <3>2. /\ Added(j) \in Event /\ Added(j).type = "added" /\ Added(j).job = j
        BY <1>0, <3>1, EventTypes
      <3>3. Unseen' = Unseen \cup {Added(j)}
        BY <1>0, <3>1, <3>2, RangeOfAppend DEF Unseen
      <3>4. EventsAgree'
        BY <2>1, <3>1, <3>2, <3>3 DEF CalmParts, EventsAgree, InFile
      <3>5. ListIsComplete'
        BY <2>1, <3>1 DEF CalmParts, ListIsComplete, Waits
      <3>6. QED
        BY <3>4, <3>5
    <2>5. ASSUME SyncEvent
          PROVE  EventsAgree' /\ ListIsComplete'
      <3>1. /\ stream # <<>> /\ stream' = Tail(stream) /\ toSync' = toSync
            /\ notes' = Append(notes, Head(stream)) /\ Head(stream) \in Event
            /\ cache' = IF Head(stream).type = "added"
                        THEN cache \cup {Head(stream).job}
                        ELSE cache \ {Head(stream).job}
        BY <1>0, <2>5 DEF SyncEvent
      <3>2. Range(stream) = {Head(stream)} \cup Range(stream')
        BY <1>0, <3>1, RangeOfTail
      <3>3. Unseen' = Unseen
        BY <1>0, <3>1, <3>2, RangeOfAppend DEF Unseen
      <3>4. EventsAgree'
        BY <2>1, <3>1, <3>3 DEF CalmParts, EventsAgree, InFile
      <3>5. Head(stream).type = "added" \/ Head(stream).job \notin jobs
        BY <1>0, <3>1, <3>2, EventTypes DEF InformerInv, DeletedAreGone
      <3>6. ListIsComplete'
        BY <2>1, <3>1, <3>5 DEF CalmParts, ListIsComplete, Waits
      <3>7. QED
        BY <3>4, <3>6
    <2>6. QED
      BY <1>3, <2>2, <2>3, <2>4, <2>5 DEF CalmParts
  <1>4. CASE Poll
    <2>1. /\ phase # "down" /\ requests = {} /\ requests' = dirty /\ dirty' = {}
          /\ stage["watcher"] = "idle" /\ owner["watcher"] = NoUser
          /\ UNCHANGED <<crontab, access, jobs, phase, toSync, stream, cache, notes,
                         stage, owner, snap, creates, deletes>>
      BY <1>0, <1>4
      DEF Poll, CalmParts, OneTurn, PassShape, Actors, fsVars, informerVars, passVars
    <2>2. dirty \subseteq Users
      BY <1>0 DEF TypeOK
    <2>3. StartsEmpty' /\ HandlerRests' /\ PassIsCurrent' /\ OneTurn' /\ ListIsComplete'
      BY <2>1, <2>2, ConstantsAssumption
      DEF CalmParts, StartsEmpty, HandlerRests, PassIsCurrent, OneTurn, ListIsComplete, Waits
    <2>4. EventsAgree'
      BY <2>1 DEF CalmParts, EventsAgree, Unseen, Range, InFile
    <2>5. Counted'
      BY <2>1, CountedFrame DEF CalmParts, JobsOf, CallsOf
    <2>6. QED
      BY <2>3, <2>4, <2>5 DEF CalmParts
  <1>5. ASSUME NEW a \in Actors, Return(a)
        PROVE  CalmParts'
    <2>1. /\ stage[a] = "calls" /\ creates[a] = {}
          /\ stage' = [stage EXCEPT ![a] = "idle"]
          /\ owner' = [owner EXCEPT ![a] = NoUser]
          /\ snap' = [snap EXCEPT ![a] = <<>>]
          /\ UNCHANGED <<crontab, access, jobs, phase, toSync, stream, cache, notes, dirty,
                         requests, creates, deletes>>
      BY <1>5 DEF Return, fsVars, informerVars, watchVars
    <2>2. \/ /\ a = "watcher" /\ owner'["watcher"] = NoUser
             /\ stage'["watcher"] = "idle" /\ stage["watcher"] = "calls"
          \/ /\ a = "handler" /\ owner'["watcher"] = owner["watcher"]
             /\ snap'["watcher"] = snap["watcher"] /\ stage'["watcher"] = stage["watcher"]
      BY <1>0, <2>1 DEF TypeOK, Actors
    <2>3. \A u \in Users : u # NoUser
      BY ConstantsAssumption
    <2>4. requests \subseteq Users
      BY <1>0 DEF TypeOK
    <2>5. StartsEmpty' /\ HandlerRests' /\ PassIsCurrent' /\ OneTurn'
      BY <2>1, <2>2, <2>3, <2>4 DEF CalmParts, StartsEmpty, HandlerRests, PassIsCurrent, OneTurn
    <2>6. ListIsComplete'
      BY <2>1, <2>2 DEF CalmParts, ListIsComplete, Waits
    <2>7. EventsAgree'
      BY <2>1 DEF CalmParts, EventsAgree, Unseen, Range, InFile
    <2>8. \A u \in Users, i \in Ids : CallsOf(u, i)' \subseteq CallsOf(u, i)
      BY <2>1, <2>2, <2>3 DEF CallsOf
    <2>9. Counted'
      BY <2>1, <2>8, CountedFrame DEF CalmParts, JobsOf
    <2>10. QED
      BY <2>5, <2>6, <2>7, <2>9 DEF CalmParts
  <1>6. QED
    BY <1>1, <1>2, <1>3, <1>4, <1>5

LEMMA CalmStep ==
  ASSUME PassInv, InformerInv, CalmInv, [Next]_vars
  PROVE  CalmInv'
  <1> SUFFICES ASSUME Calm'
               PROVE  CalmParts'
    BY DEF CalmInv
  <1>0. TypeOK /\ PassShape
    BY DEF PassInv
  <1>1. Calm /\ CalmParts /\ ~rushed' /\ faults' = faults
    BY <1>0, CalmBefore DEF CalmInv
  <1>2. ~Down /\ \A kind : ~Fault(kind)
    BY <1>0, <1>1, ConstantsAssumption DEF Down, Fault, TypeOK
  <1>3. ASSUME NEW a \in Actors, CreateCall(a)
        PROVE  CalmParts'
    <2>1. PICK q \in creates[a] : CreateSucceeds(a, q) \/ CreateRefused(a, q)
      BY <1>2, <1>3 DEF CreateCall, NextCreates, CreatePanics, CreateFails
    <2>2. a = "watcher"
      BY <1>1, <2>1 DEF Actors, CalmParts, HandlerRests
    <2>3. CASE CreateSucceeds(a, q)
      BY <1>1, <2>1, <2>2, <2>3, CalmCreated
    <2>4. CASE CreateRefused(a, q)
      <3>1. /\ creates' = [creates EXCEPT !["watcher"] = @ \ {q}]
            /\ UNCHANGED <<crontab, access, jobs, phase, toSync, stream, cache, notes, dirty,
                           requests, stage, owner, snap, deletes>>
        BY <2>2, <2>4 DEF CreateRefused, CreateDone, fsVars, informerVars, watchVars
      <3>2. /\ creates'["handler"] = creates["handler"]
            /\ creates'["watcher"] \subseteq creates["watcher"]
        BY <1>0, <3>1 DEF TypeOK, Actors
      <3>3. /\ StartsEmpty' /\ HandlerRests' /\ PassIsCurrent' /\ OneTurn' /\ ListIsComplete'
        BY <1>1, <3>1, <3>2
        DEF CalmParts, StartsEmpty, HandlerRests, PassIsCurrent, OneTurn, ListIsComplete, Waits
      <3>4. EventsAgree'
        BY <1>1, <3>1 DEF CalmParts, EventsAgree, Unseen, Range, InFile
      <3>5. Counted'
        BY <1>1, <3>1, <3>2, CountedFrame DEF CalmParts, JobsOf, CallsOf
      <3>6. QED
        BY <3>3, <3>4, <3>5 DEF CalmParts
    <2>5. QED
      BY <2>1, <2>3, <2>4
  <1>4. ASSUME NEW a \in Actors, DeleteCall(a)
        PROVE  CalmParts'
    <2>1. PICK j \in deletes[a] : DeleteSucceeds(a, j)
      BY <1>2, <1>4 DEF DeleteCall, DeleteFails
    <2>2. a = "watcher"
      BY <1>1, <2>1 DEF Actors, CalmParts, HandlerRests
    <2>3. QED
      BY <1>1, <2>1, <2>2, CalmDeleted
  <1>5. CASE Operator
    <2>1. CASE \/ Restart \/ CacheStart \/ (\E j \in toSync : SyncInitial(j)) \/ SyncEvent \/ Poll
               \/ \E a \in Actors : Return(a)
      BY <1>1, <2>1, CalmDelivered
    <2>2. CASE ListJobs
      BY <1>1, <2>2, CalmListed
    <2>3. CASE HandleEvent
      BY <1>1, <1>2, <2>3, CalmHandled
    <2>4. CASE \E u \in Users : BeginReconcile(u)
      BY <1>1, <1>2, <2>4, CalmRead
    <2>5. QED
      BY <1>3, <1>4, <1>5, <2>1, <2>2, <2>3, <2>4 DEF Operator
  <1>6. CASE Environment
    <2>1. ~(\E u \in Users : RestoreAccess(u))
      BY <1>1 DEF CalmParts, PassIsCurrent, RestoreAccess
    <2>2. PICK u \in Users, content \in Contents : Edit(u, content)
      BY <1>2, <1>6, <2>1 DEF Environment, Rewrite, Deny, Break, ExternalDelete, Crash
    <2>3. Quiescent
      BY <1>1, <2>2 DEF Edit, UserChange
    <2>4. QED
      BY <1>1, <2>2, <2>3, CalmEdited
  <1>7. CASE UNCHANGED vars
    <2>1. UNCHANGED <<crontab, access, jobs, phase, toSync, stream, cache, notes, dirty,
                      requests, stage, owner, snap, creates, deletes>>
      BY <1>7 DEF vars, fsVars, informerVars, watchVars, passVars
    <2>2. /\ StartsEmpty' /\ HandlerRests' /\ PassIsCurrent' /\ OneTurn' /\ ListIsComplete'
      BY <1>1, <2>1
      DEF CalmParts, StartsEmpty, HandlerRests, PassIsCurrent, OneTurn, ListIsComplete, Waits
    <2>3. EventsAgree'
      BY <1>1, <2>1 DEF CalmParts, EventsAgree, Unseen, Range, InFile
    <2>4. Counted'
      BY <1>1, <2>1, CountedFrame DEF CalmParts, JobsOf, CallsOf
    <2>5. QED
      BY <2>2, <2>3, <2>4 DEF CalmParts
  <1>8. QED
    BY <1>5, <1>6, <1>7 DEF Next

LEMMA CalmInvariant == Spec => []CalmInv
  <1>1. ASSUME Init
        PROVE  CalmParts
    <2>1. /\ jobs = {} /\ dirty = {} /\ requests = {} /\ toSync = {} /\ stage["watcher"] = "idle"
          /\ Unseen = {} /\ \A a \in Actors : creates[a] = {} /\ deletes[a] = {}
          /\ owner["watcher"] = NoUser /\ \A u \in Users : access[u] = "ok"
      BY <1>1, RangeOfEmpty DEF Init, Unseen, Actors
    <2>2. /\ StartsEmpty /\ HandlerRests /\ PassIsCurrent /\ EventsAgree /\ OneTurn /\ ListIsComplete
      BY <2>1, ConstantsAssumption
      DEF StartsEmpty, HandlerRests, PassIsCurrent, EventsAgree, OneTurn, ListIsComplete, Actors
    <2>3. \A u \in Users, i \in Ids : JobsOf(u, i) = {} /\ CallsOf(u, i) = {}
      BY <2>1 DEF JobsOf, CallsOf, Actors
    <2>4. Counted
      <3>1. \A i \in Ids : \E n \in Occurrences(i) : 0 + 0 <= n
        BY OccurrencesAreNumbers
      <3>2. QED
        BY <2>3, <3>1, FS_EmptySet DEF Counted
    <2>5. QED
      BY <2>2, <2>4 DEF CalmParts
  <1>2. Init => CalmInv
    BY <1>1 DEF CalmInv
  <1>3. PassInv /\ SettlingInv /\ CalmInv /\ [Next]_vars => CalmInv'
    BY CalmStep DEF SettlingInv
  <1>4. QED
    BY <1>2, <1>3, PassInvariant, SettlingInvariant, PTL DEF Spec

\* When users wait for the operator to settle before each edit and nothing
\* fails, no line gets more jobs than a file holds it times: List may be as
\* stale, and the two actors interleaved, as they can be.
THEOREM CalmLinesGetOneJob == Spec => []AtMostOneJob
  <1>1. ASSUME CalmInv, Calm, NEW u \in Users, NEW i \in Ids
        PROVE  \E n \in Occurrences(i) : Cardinality(JobsOf(u, i)) <= n
    <2>1. /\ IsFiniteSet(JobsOf(u, i)) /\ IsFiniteSet(CallsOf(u, i))
          /\ \E n \in Occurrences(i) : Cardinality(JobsOf(u, i)) + Cardinality(CallsOf(u, i)) <= n
      BY <1>1 DEF CalmInv, CalmParts, Counted
    <2>2. Cardinality(JobsOf(u, i)) \in Nat /\ Cardinality(CallsOf(u, i)) \in Nat
      BY <2>1, FS_CardinalityType
    <2>3. QED
      BY <2>1, <2>2, OccurrencesAreNumbers
  <1>2. CalmInv => AtMostOneJob
    BY <1>1 DEF AtMostOneJob, Calm
  <1>3. QED
    BY <1>2, CalmInvariant, PTL
=============================================================================
