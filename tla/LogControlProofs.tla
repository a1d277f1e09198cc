--------------------------- MODULE LogControlProofs ---------------------------
(* Theorems about LogControl, for every value of its constants. *)
EXTENDS LogControl, TLAPS

\* The flag stays set during a callback, and nothing is left of the last one.
CallbackShape ==
  /\ loop # "select" => invokCb
  /\ loop # "apply" => loaded = <<>> /\ applied = 0

\* The entries a callback has applied were accepted and obeyed.
SoFarObeyed == loop = "apply" => Accepted(loaded, applied) /\ Obeyed(loaded, applied)

\* What a callback applies is the file as it is now, unless an event is still
\* on its way.
LoadedIsCurrent ==
  loop = "apply" /\ noticed /\ events = 0 /\ ~forwarding =>
    file.kind = "entries" /\ loaded = file.entries

LogInv == TypeOK /\ CallbackShape /\ SoFarObeyed /\ LoadedIsCurrent /\ QuietFollows

LEMMA NoEntries == <<>> \in Seq(Entry) /\ Len(<<>>) = 0 /\ 0 \in 0 .. Len(<<>>)
  OBVIOUS

LEMMA InitInv == Init => LogInv
  <1>1. Init => TypeOK
    <2>1. 0 \in 0 .. 0 /\ 0 \in 0 .. MaxUpdates
      BY LogAssumption
    <2>2. Init => loaded \in Seq(Entry) /\ applied \in 0 .. Len(loaded) /\ level \in Levels
      BY LogAssumption, NoEntries DEF Init
    <2>3. Init => events \in 0 .. updates /\ updates \in 0 .. MaxUpdates
      BY <2>1 DEF Init
    <2>4. QED
      BY <2>2, <2>3 DEF Init, TypeOK
  <1>2. QED
    BY <1>1 DEF Init, LogInv, CallbackShape, SoFarObeyed, LoadedIsCurrent, QuietFollows

\* The entries of a file are a sequence of entries.
LEMMA FileEntries ==
  ASSUME TypeOK, file.kind = "entries"
  PROVE  file.entries \in Seq(Entry)
  <1>1. file \in [kind : {"entries"}, entries : Arrays]
    BY DEF TypeOK, File
  <1>2. QED
    BY <1>1, LogAssumption

-----------------------------------------------------------------------------
(* The steps *)

\* Steps that leave the callback and the file alone.
LEMMA OutsideStep ==
  ASSUME LogInv, TypeOK',
         UNCHANGED <<loop, loaded, applied, level, file, noticed>>,
         loop # "select" => invokCb' = invokCb,
         events' = 0 /\ ~forwarding' => (events = 0 /\ ~forwarding) \/ loop = "select",
         process' = "running" /\ Quiet' => process = "running" /\ Quiet
  PROVE  LogInv'
  <1>1. CallbackShape'
    BY DEF LogInv, CallbackShape
  <1>2. SoFarObeyed'
    BY DEF LogInv, SoFarObeyed, Accepted, Obeyed
  <1>3. LoadedIsCurrent'
    BY DEF LogInv, LoadedIsCurrent
  <1>4. QuietFollows'
    <2>1. Follows => Follows'
      BY DEF Follows, Usable, Accepted, Obeyed
    <2>2. QED
      BY <2>1 DEF LogInv, QuietFollows
  <1>5. QED
    BY <1>1, <1>2, <1>3, <1>4 DEF LogInv

LEMMA WatcherStep ==
  ASSUME LogInv, Watcher \/ Finish
  PROVE  LogInv'
  <1>1. TypeOK'
    <2>1. CASE TakeEvent
      <3>1. events \in 0 .. updates /\ updates \in 0 .. MaxUpdates /\ events > 0
        BY <2>1 DEF LogInv, TypeOK, TakeEvent
      <3>2. events - 1 \in 0 .. updates
        BY <3>1, LogAssumption
      <3>3. QED
        BY <2>1, <3>2 DEF LogInv, TypeOK, TakeEvent, loopVars, fileVars
    <2>2. CASE AddWatch \/ AddWatchFails \/ Finish
      BY <2>2 DEF LogInv, TypeOK, Finish, AddWatch, AddWatchFails,
                  watcherVars, loopVars, fileVars
    <2>3. QED
      BY <2>1, <2>2 DEF Watcher
  <1>2. QED
    BY <1>1, OutsideStep
       DEF LogInv, TypeOK, Watcher, Finish, AddWatch, AddWatchFails, TakeEvent, Quiet,
           watcherVars, loopVars, fileVars

LEMMA NotifiedStep ==
  ASSUME LogInv, Notified
  PROVE  LogInv'
  <1>1. TypeOK'
    BY DEF LogInv, TypeOK, Notified, fileVars
  <1>2. QED
    BY <1>1, OutsideStep DEF Notified, Quiet, fileVars

LEMMA TickStep ==
  ASSUME LogInv, Tick
  PROVE  LogInv'
  <1>1. TypeOK'
    BY DEF LogInv, TypeOK, Tick, watcherVars, fileVars
  <1>2. QED
    BY <1>1 DEF LogInv, Tick, CallbackShape, SoFarObeyed, LoadedIsCurrent, QuietFollows,
                Quiet, watcherVars, fileVars

LEMMA ReadStep ==
  ASSUME LogInv, ReadFile
  PROVE  LogInv'
  <1>1. invokCb /\ invokCb' /\ loaded = <<>> /\ applied = 0 /\ applied' = 0
    BY DEF LogInv, CallbackShape, ReadFile
  <1>2. QuietFollows'
    BY <1>1 DEF QuietFollows, Quiet
  <1>3. CASE file.kind = "entries"
    <2>1. /\ loop' = "apply" /\ loaded' = file.entries
          /\ UNCHANGED <<process, watcherVars, invokCb, applied, level, file, updates, noticed>>
          /\ unread' = FALSE
      BY <1>3 DEF ReadFile
    <2>2. TypeOK'
      <3>1. file.entries \in Seq(Entry)
        BY <1>3, FileEntries DEF LogInv
      <3>2. 0 \in 0 .. Len(file.entries)
        BY <3>1
      <3>3. QED
        BY <1>1, <2>1, <3>1, <3>2 DEF LogInv, TypeOK, watcherVars
    <2>3. CallbackShape' /\ SoFarObeyed' /\ LoadedIsCurrent'
      BY <1>1, <1>3, <2>1 DEF CallbackShape, SoFarObeyed, LoadedIsCurrent, Accepted, Obeyed
    <2>4. QED
      BY <1>2, <2>2, <2>3 DEF LogInv
  <1>4. CASE file.kind \in {"unreadable", "null"}
    <2>1. /\ loop' # "apply" /\ loop' \in {"select", "read"} /\ loaded' = loaded
          /\ process' \in {process, "panicked"}
          /\ UNCHANGED <<watcherVars, invokCb, applied, level, file, updates, noticed>>
          /\ unread' = FALSE
      BY <1>4 DEF ReadFile
    <2>2. TypeOK'
      BY <2>1 DEF LogInv, TypeOK, watcherVars
    <2>3. CallbackShape' /\ SoFarObeyed' /\ LoadedIsCurrent'
      BY <1>1, <2>1 DEF CallbackShape, SoFarObeyed, LoadedIsCurrent
    <2>4. QED
      BY <1>2, <2>2, <2>3 DEF LogInv
  <1>5. file.kind \in {"entries", "unreadable", "null"}
    BY DEF LogInv, TypeOK, File
  <1>6. QED
    BY <1>3, <1>4, <1>5

LEMMA ApplyStep ==
  ASSUME LogInv, ApplyEntry
  PROVE  LogInv'
  <1> DEFINE entry == loaded[applied + 1]
  <1>1. /\ loaded \in Seq(Entry) /\ applied \in Nat /\ applied < Len(loaded)
        /\ level \in Levels
    BY DEF LogInv, TypeOK, ApplyEntry
  <1>2. entry \in Entry
    BY <1>1
  <1>3. invokCb /\ invokCb'
    BY DEF LogInv, CallbackShape, ApplyEntry
  <1>4. QuietFollows'
    BY <1>3 DEF QuietFollows, Quiet
  <1>5. UNCHANGED <<process, watcherVars, fileVars, invokCb>> /\ loop = "apply"
    BY DEF ApplyEntry
  <1>6. CASE entry.ours /\ entry.severity \notin Levels
    <2>1. loop' = "select" /\ loaded' = <<>> /\ applied' = 0 /\ level' = level
      BY <1>6 DEF ApplyEntry, CallbackEnds
    <2>2. TypeOK'
      BY <1>5, <2>1, NoEntries DEF LogInv, TypeOK, watcherVars, fileVars
    <2>3. CallbackShape' /\ SoFarObeyed' /\ LoadedIsCurrent'
      BY <2>1 DEF CallbackShape, SoFarObeyed, LoadedIsCurrent
    <2>4. QED
      BY <1>4, <2>2, <2>3 DEF LogInv
  <1>7. CASE ~(entry.ours /\ entry.severity \notin Levels)
    <2>1. /\ level' = IF entry.ours THEN entry.severity ELSE level
          /\ applied' = applied + 1 /\ loop' = loop /\ loaded' = loaded
      BY <1>7 DEF ApplyEntry
    <2>2. level' \in Levels
      BY <1>1, <1>7, <2>1
    <2>3. TypeOK'
      BY <1>1, <1>5, <2>1, <2>2 DEF LogInv, TypeOK, watcherVars, fileVars
    <2>4. SoFarObeyed'
      <3>1. Accepted(loaded, applied) /\ Obeyed(loaded, applied)
        BY <1>5 DEF LogInv, SoFarObeyed
      <3>2. \A k \in 1 .. applied + 1 : k \in 1 .. applied \/ k = applied + 1
        BY <1>1
      <3>3. Accepted(loaded, applied + 1)
        BY <1>7, <3>1, <3>2 DEF Accepted
      <3>4. ASSUME NEW k \in 1 .. applied + 1, loaded[k].ours
            PROVE  \/ loaded[k].severity = level'
                   \/ \E l \in k + 1 .. applied + 1 : loaded[l].ours
        <4>2. CASE k = applied + 1
          BY <2>1, <3>4, <4>2
        <4>3. CASE k \in 1 .. applied /\ entry.ours
          <5>1. applied + 1 \in k + 1 .. applied + 1
            BY <1>1, <4>3
          <5>2. QED
            BY <4>3, <5>1
        <4>4. CASE k \in 1 .. applied /\ ~entry.ours
          <5>1. level' = level
            BY <2>1, <4>4
          <5>2. \A l \in k + 1 .. applied : l \in k + 1 .. applied + 1
            BY <1>1
          <5>3. QED
            BY <3>1, <3>4, <4>4, <5>1, <5>2 DEF Obeyed
        <4>5. QED
          BY <3>2, <4>2, <4>3, <4>4
      <3>5. QED
        BY <2>1, <3>3, <3>4 DEF SoFarObeyed, Accepted, Obeyed
    <2>5. CallbackShape' /\ LoadedIsCurrent'
      BY <1>3, <1>5, <2>1 DEF LogInv, CallbackShape, LoadedIsCurrent, watcherVars, fileVars
    <2>6. QED
      BY <1>4, <2>3, <2>4, <2>5 DEF LogInv
  <1>8. QED
    BY <1>6, <1>7

\* The flag is cleared only when the file as it is now has been obeyed.
LEMMA AppliedStep ==
  ASSUME LogInv, Applied
  PROVE  LogInv'
  <1>1. /\ loop' = "select" /\ loaded' = <<>> /\ applied' = 0 /\ level' = level
        /\ invokCb' = FALSE /\ loop = "apply" /\ applied = Len(loaded)
        /\ UNCHANGED <<process, watcherVars, fileVars>>
    BY DEF Applied, CallbackEnds
  <1>2. TypeOK'
    BY <1>1, NoEntries DEF LogInv, TypeOK, watcherVars, fileVars
  <1>3. CallbackShape' /\ SoFarObeyed' /\ LoadedIsCurrent'
    BY <1>1 DEF CallbackShape, SoFarObeyed, LoadedIsCurrent
  <1>4. ASSUME noticed, events = 0, ~forwarding
        PROVE  Follows'
    <2>1. file.kind = "entries" /\ loaded = file.entries
      BY <1>1, <1>4 DEF LogInv, LoadedIsCurrent
    <2>2. Accepted(loaded, applied) /\ Obeyed(loaded, applied)
      BY <1>1 DEF LogInv, SoFarObeyed
    <2>3. Follows
      BY <1>1, <2>1, <2>2 DEF Follows, Usable
    <2>4. QED
      BY <1>1, <2>3 DEF Follows, Usable, Accepted, Obeyed, fileVars
  <1>5. QuietFollows'
    BY <1>1, <1>4 DEF QuietFollows, Quiet, watcherVars, fileVars
  <1>6. QED
    BY <1>2, <1>3, <1>5 DEF LogInv

LEMMA UpdateStep ==
  ASSUME LogInv, NEW content \in File, Update(content)
  PROVE  LogInv'
  <1>1. /\ UNCHANGED <<process, watching, forwarding, loopVars>>
        /\ noticed' = watching /\ file' = content /\ unread' = TRUE
        /\ updates' = updates + 1 /\ updates < MaxUpdates
        /\ events' = IF watching THEN events + 1 ELSE events
    BY DEF Update
  <1>2. TypeOK'
    BY <1>1, LogAssumption DEF LogInv, TypeOK, loopVars
  <1>3. noticed' => events' # 0
    BY <1>1 DEF LogInv, TypeOK
  <1>4. LoadedIsCurrent' /\ QuietFollows'
    BY <1>3 DEF LoadedIsCurrent, QuietFollows, Quiet
  <1>5. CallbackShape' /\ SoFarObeyed'
    BY <1>1 DEF LogInv, CallbackShape, SoFarObeyed, Accepted, Obeyed, loopVars
  <1>6. QED
    BY <1>2, <1>4, <1>5 DEF LogInv

THEOREM LogInvariant == Spec => []LogInv
  <1>1. LogInv /\ [Next]_vars => LogInv'
    <2>1. LogInv /\ Next => LogInv'
      BY WatcherStep, NotifiedStep, TickStep, ReadStep, ApplyStep, AppliedStep, UpdateStep
         DEF Next, Loop
    <2>2. LogInv /\ UNCHANGED vars => LogInv'
      BY DEF LogInv, TypeOK, CallbackShape, SoFarObeyed, LoadedIsCurrent, QuietFollows, Quiet,
             Follows, Usable, Accepted, Obeyed, vars, watcherVars, loopVars, fileVars
    <2>3. QED
      BY <2>1, <2>2
  <1>2. QED
    BY <1>1, InitInv, PTL DEF Spec

\* Every variable keeps its type, for any files and any number of updates.
THEOREM LogTypeCorrect == Spec => []TypeOK
  BY LogInvariant, PTL DEF LogInv

\* When no event is on its way and the flag is clear, the level is that of the
\* file as it is now, for any number of replacements and entries.
THEOREM ThrottleLosesNothing == Spec => []QuietFollows
  BY LogInvariant, PTL DEF LogInv

=============================================================================
