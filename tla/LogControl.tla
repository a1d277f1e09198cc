------------------------------ MODULE LogControl ------------------------------
(***************************************************************************)
(* How the log level of a cron wrapper follows its configuration file      *)
(* (src/cronwrapper: internal/configwatcher, internal/logctl, onChangeCb   *)
(* in server.go).  The kubelet replaces the file and fsnotify queues an    *)
(* event; one goroutine forwards the event over an unbuffered channel; the *)
(* loop of logctl.Watch only sets a flag, and calls the callback when its  *)
(* ticker finds the flag set.                                              *)
(*                                                                         *)
(* fsnotify and the kubelet are external.  A file is what GetLogControl    *)
(* makes of it: unreadable, an array with entries, or the JSON null that   *)
(* it dereferences.  Only events that recreate "..data" are modelled, the  *)
(* others are dropped unseen.                                              *)
(***************************************************************************)
EXTENDS Naturals, Sequences

CONSTANTS
  Levels,      \* what logrus.ParseLevel takes
  Severities,  \* what the file may hold for one
  Arrays,      \* the arrays of entries a file may hold
  MaxUpdates   \* bound on the replacements of the file

\* ours: the container of the entry is this service.
Entry == [ours : BOOLEAN, severity : Severities]

ASSUME LogAssumption ==
  /\ Levels \subseteq Severities
  /\ "info" \in Levels
  /\ Arrays \subseteq Seq(Entry)
  /\ MaxUpdates \in Nat

File == [kind : {"unreadable", "null"}] \cup [kind : {"entries"}, entries : Arrays]

VARIABLES
  file,
  process,    \* "running", "fatal", "panicked" or "done"
  watching,   \* fsnotify watches the directory
  events,     \* queued events
  forwarding, \* the goroutine has an event for notifCh
  invokCb,
  loop,       \* "select", "read" or "apply"
  loaded,     \* the entries the callback applies
  applied,    \* how many it has applied
  level,      \* of the logger
  updates,
  noticed,    \* history: the last replacement of the file made an event
  unread      \* history: the file was replaced since the callback last read it

watcherVars == <<watching, events, forwarding>>
loopVars == <<invokCb, loop, loaded, applied, level>>
fileVars == <<file, updates, noticed, unread>>
vars == <<process, watcherVars, loopVars, fileVars>>

Init ==
  /\ file \in File
  /\ process = "running"
  /\ watching = FALSE /\ events = 0 /\ forwarding = FALSE
  /\ invokCb = FALSE /\ loop = "select" /\ loaded = <<>> /\ applied = 0
  /\ level = "info"
  /\ updates = 0 /\ noticed = FALSE /\ unread = FALSE

-----------------------------------------------------------------------------
(* configwatcher.Watch *)

AddWatch ==
  /\ process = "running"
  /\ ~watching
  /\ watching' = TRUE
  /\ UNCHANGED <<process, events, forwarding, loopVars, fileVars>>

\* The directory is missing, or there are no inotify instances left.
AddWatchFails ==
  /\ process = "running"
  /\ ~watching
  /\ process' = "fatal"
  /\ UNCHANGED <<watcherVars, loopVars, fileVars>>

\* Mutant of TakeEvent: the event is dropped when the loop is not receiving.
TakeEventOrDrop ==
  /\ process = "running"
  /\ events > 0 /\ ~forwarding
  /\ events' = events - 1
  /\ forwarding' = (loop = "select")
  /\ UNCHANGED <<process, watching, loopVars, fileVars>>

TakeEvent ==
  /\ process = "running"
  /\ events > 0 /\ ~forwarding
  /\ events' = events - 1
  /\ forwarding' = TRUE
  /\ UNCHANGED <<process, watching, loopVars, fileVars>>

-----------------------------------------------------------------------------
(* logctl.Watch and onChangeCb *)

\* notifCh is received.
Notified ==
  /\ process = "running"
  /\ loop = "select"
  /\ forwarding
  /\ forwarding' = FALSE
  /\ invokCb' = TRUE
  /\ UNCHANGED <<process, watching, events, loop, loaded, applied, level, fileVars>>

\* The ticker fires with the flag set; without it nothing happens.
Tick ==
  /\ process = "running"
  /\ loop = "select"
  /\ invokCb
  /\ loop' = "read"
  /\ UNCHANGED <<process, watcherVars, invokCb, loaded, applied, level, fileVars>>

\* Mutant of ReadFile: an error clears the flag.
ReadFileOnce ==
  /\ process = "running"
  /\ loop = "read"
  /\ unread' = FALSE
  /\ IF file.kind = "entries"
     THEN loop' = "apply" /\ loaded' = file.entries /\ UNCHANGED <<process, invokCb>>
     ELSE loop' = "select" /\ invokCb' = FALSE /\ UNCHANGED <<process, loaded>>
  /\ UNCHANGED <<watcherVars, applied, level, file, updates, noticed>>

\* GetLogControl: an error leaves the flag set, so that the next tick tries
\* again; null is dereferenced.
ReadFile ==
  /\ process = "running"
  /\ loop = "read"
  /\ unread' = FALSE
  /\ CASE file.kind = "entries" ->
            loop' = "apply" /\ loaded' = file.entries /\ UNCHANGED process
       [] file.kind = "unreadable" ->
            loop' = "select" /\ UNCHANGED <<process, loaded>>
       [] file.kind = "null" ->
            process' = "panicked" /\ UNCHANGED <<loop, loaded>>
  /\ UNCHANGED <<watcherVars, invokCb, applied, level, file, updates, noticed>>

CallbackEnds ==
  /\ loop' = "select"
  /\ loaded' = <<>>
  /\ applied' = 0

\* Mutant of ApplyEntry: the result of SetLevel is not looked at.
ApplyUnchecked ==
  /\ process = "running"
  /\ loop = "apply"
  /\ applied < Len(loaded)
  /\ LET entry == loaded[applied + 1]
     IN  level' = IF entry.ours THEN entry.severity ELSE level
  /\ applied' = applied + 1
  /\ UNCHANGED <<process, watcherVars, invokCb, loop, loaded, fileVars>>

\* One entry of the array: those of other services are skipped, a severity
\* that SetLevel refuses is an error of the callback, which leaves the flag.
ApplyEntry ==
  /\ process = "running"
  /\ loop = "apply"
  /\ applied < Len(loaded)
  /\ LET entry == loaded[applied + 1]
     IN  IF entry.ours /\ entry.severity \notin Levels
         THEN CallbackEnds /\ UNCHANGED level
         ELSE /\ level' = IF entry.ours THEN entry.severity ELSE level
              /\ applied' = applied + 1
              /\ UNCHANGED <<loop, loaded>>
  /\ UNCHANGED <<process, watcherVars, invokCb, fileVars>>

Applied ==
  /\ process = "running"
  /\ loop = "apply"
  /\ applied = Len(loaded)
  /\ CallbackEnds
  /\ invokCb' = FALSE
  /\ UNCHANGED <<process, watcherVars, level, fileVars>>

\* main returns.
Finish ==
  /\ process = "running"
  /\ process' = "done"
  /\ UNCHANGED <<watcherVars, loopVars, fileVars>>

\* The kubelet replaces the file at once, by renaming "..data".
Update(content) ==
  /\ process = "running"
  /\ updates < MaxUpdates
  /\ updates' = updates + 1
  /\ file' = content
  /\ unread' = TRUE
  /\ noticed' = watching
  /\ events' = IF watching THEN events + 1 ELSE events
  /\ UNCHANGED <<process, watching, forwarding, loopVars>>

Watcher == AddWatch \/ AddWatchFails \/ TakeEvent
Loop == Notified \/ Tick \/ ReadFile \/ ApplyEntry \/ Applied

Next ==
  \/ Watcher \/ Loop \/ Finish
  \/ \E content \in File : Update(content)

Spec == Init /\ [][Next]_vars

\* Both goroutines run, and the ticker fires for as long as the process lives.
FairSpec == Spec /\ WF_vars(Watcher) /\ WF_vars(Loop)

-----------------------------------------------------------------------------
(* Properties *)

\* Every variable keeps its type; nothing is set to a level that logrus refuses.
TypeOK ==
  /\ file \in File
  /\ process \in {"running", "fatal", "panicked", "done"}
  /\ watching \in BOOLEAN /\ forwarding \in BOOLEAN
  /\ events \in 0 .. updates /\ updates \in 0 .. MaxUpdates
  /\ invokCb \in BOOLEAN
  /\ loop \in {"select", "read", "apply"}
  /\ loaded \in Seq(Entry) /\ applied \in 0 .. Len(loaded)
  /\ level \in Levels
  /\ noticed \in BOOLEAN /\ unread \in BOOLEAN

\* What the first n entries ask for: no severity that is refused, and the
\* level of the last one for this service, if there is one.
Accepted(entries, n) ==
  \A k \in 1 .. n : entries[k].ours => entries[k].severity \in Levels
Obeyed(entries, n) ==
  \A k \in 1 .. n : entries[k].ours =>
    entries[k].severity = level \/ \E l \in k + 1 .. n : entries[l].ours

Usable == file.kind = "entries" /\ Accepted(file.entries, Len(file.entries))
Follows == Usable /\ Obeyed(file.entries, Len(file.entries))

\* Nothing is on its way to the callback.
Quiet == events = 0 /\ ~forwarding /\ ~invokCb

\* Between the event queue, the channel and the throttle no replacement of the
\* file gets lost: when nothing is on its way, the level is that of the file
\* as it is now, and no error has been forgotten.
QuietFollows == process = "running" /\ noticed /\ Quiet => Follows

\* While the process lives, the level becomes and stays that of a file whose
\* last replacement made an event and which can be applied.
LevelFollowsFile ==
  <>[](process = "running" /\ noticed /\ Usable => Follows)

\* "The callback is invoked by logctl whenever the configmap is updated".
EveryUpdateIsRead == unread ~> (~unread \/ process # "running")

=============================================================================
