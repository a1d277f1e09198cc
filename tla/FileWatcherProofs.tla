-------------------------- MODULE FileWatcherProofs --------------------------
(* Theorems about FileWatcher and their proofs. *)
EXTENDS FileWatcher, FiniteSetTheorems, TLAPS

\* What exists is linked below something that exists.
Tree == \A p \in Paths \ {Root} : Exists(p) => Exists(Parent[p])

\* The mutex is held by the walk, or by pollEvents while it sends.
MutexShape ==
  /\ mu = "poller" <=> poller \in {"walk", "fail"}
  /\ mu = "diff" <=> diff \in {"sending", "cancelled"}

\* At most one pollEvents at a time, and where it is in its cycle.
DiffShape ==
  /\ poller \in {"unstarted", "list", "walk", "fail", "sleep"} => diff = "none"
  /\ poller \in {"select", "forward"} => diff \in {"spawned", "sending", "done"}
  /\ poller \in {"save", "returned"} => diff \in {"none", "cancelled"}
  /\ diff # "sending" => pending = {}
  /\ wg = 1 => poller = "unstarted"

\* An event on its way is one of a path in the list of this cycle.
EventShape == poller = "forward" /\ event.op = "Write" => fileList[event.path] # Absent

ShapeInv == TypeOK /\ Tree /\ MutexShape /\ DiffShape /\ EventShape /\ PendingIsCurrent

\* What the consumer has received and what is on its way to it.
Sent == delivered \cup IF poller = "forward" THEN {event} ELSE {}
KeptOf(events) == {c \in events : Ops = {} \/ c.op \in Ops}

\* A cycle that compares and delivers, of a watcher that has not been closed.
InCycle == life = "up" /\ running /\ poller \in {"select", "forward"}

\* What was sent and what is still pending are together what the cycle found.
CycleCovers ==
  /\ InCycle /\ diff = "spawned" => Sent = {}
  /\ InCycle /\ diff # "spawned" => Sent \cup KeptOf(pending) = Kept

\* Under a limit, no more than that many events were sent.
CycleCounts ==
  InCycle => /\ IsFiniteSet(Sent) /\ Cardinality(Sent) <= numEvents
             /\ MaxEvents > 0 => Cardinality(Sent) <= MaxEvents
             /\ diff = "spawned" => numEvents = 0

CycleInv == ShapeInv /\ CycleCovers /\ CycleCounts /\ NoChangeLost

-----------------------------------------------------------------------------
(* Types and shapes *)

LEMMA ChangesType ==
  ASSUME TypeOK
  PROVE  Changes \subseteq Event
  BY DEF TypeOK, Changes, Event, Renames, Gone, New, InBoth

LEMMA InfoType ==
  ASSUME NEW p \in Paths, NEW d \in Listing, d[p] # Absent
  PROVE  d[p] \in Info
  BY DEF Listing

LEMMA NowType ==
  ASSUME NEW info \in Info, TypeOK
  PROVE  Now(info) \in Info /\ Now(info) # Absent
  BY AbsentAssumption DEF TypeOK, Info, Now

\* Relink keeps a listing, and what exists, but for the entry it changes.
LEMMA RelinkStep ==
  ASSUME NEW d \in Listing, NEW p \in Paths, NEW info \in Info \cup {Absent},
         TypeOK, p # Root => d[Parent[p]] # Absent /\ Parent[p] # p
  PROVE  /\ Relink(d, p, info) \in Listing
         /\ \A q \in Paths \ {p} : Relink(d, p, info)[q] = Absent <=> d[q] = Absent
         /\ Relink(d, p, info)[p] = info
  <1>1. CASE p = Root
    BY <1>1 DEF Relink, Listing
  <1>2. CASE p # Root
    <2>1. Parent[p] \in Paths /\ d[Parent[p]] \in Info
      BY <1>2, InfoType, WatcherAssumption
    <2>2. Now(d[Parent[p]]) \in Info /\ Now(d[Parent[p]]) # Absent
      BY <2>1, NowType
    <2>3. \A q \in Paths : Relink(d, p, info)[q] =
            IF q = p THEN info ELSE IF q = Parent[p] THEN Now(d[q]) ELSE d[q]
      BY <1>2 DEF Relink
    <2>4. \A q \in Paths : Relink(d, p, info)[q] \in Info \cup {Absent}
      BY <2>2, <2>3 DEF Listing
    <2>5. Relink(d, p, info) \in Listing
      BY <2>4 DEF Relink, Listing
    <2>6. QED
      BY <1>2, <2>2, <2>3, <2>5
  <1>3. QED
    BY <1>1, <1>2

LEMMA TickType ==
  ASSUME TypeOK, Tick
  PROVE  clock \in 0 .. MaxTime /\ clock' \in 1 .. MaxTime
  BY WatcherAssumption DEF TypeOK, Tick

\* The users keep the tree a tree, and its entries well-typed.
LEMMA FileSystemStep ==
  ASSUME TypeOK, Tree, FileSystem
  PROVE  disk' \in Listing /\ clock' \in 1 .. MaxTime /\ Tree'
  <1>0. disk \in Listing
    BY DEF TypeOK
  <1>1. ASSUME NEW p \in Paths, Put(p)
        PROVE  disk' \in Listing /\ clock' \in 1 .. MaxTime /\ Tree'
    <2>1. Parent[p] # p /\ p # Root /\ disk[Parent[p]] # Absent
      BY <1>1, WatcherAssumption DEF Put, Exists
    <2>2. PICK i \in Inodes : disk' = Relink(disk, p, [mtime |-> clock, inode |-> i, mode |-> "open"])
      BY <1>1 DEF Put, FreeInodes
    <2>3. [mtime |-> clock, inode |-> i, mode |-> "open"] \in Info
      BY <1>1, TickType DEF Put, Info, Modes
    <2>4. /\ disk' \in Listing
          /\ \A q \in Paths \ {p} : disk'[q] = Absent <=> disk[q] = Absent
          /\ disk'[p] # Absent
      BY <1>0, <2>1, <2>2, <2>3, RelinkStep, AbsentAssumption
    <2>5. Tree'
      BY <2>1, <2>4, WatcherAssumption DEF Tree, Exists
    <2>6. QED
      BY <1>1, <2>4, <2>5, TickType DEF Put
  <1>2. ASSUME NEW p \in Paths, WriteInPlace(p)
        PROVE  disk' \in Listing /\ clock' \in 1 .. MaxTime /\ Tree'
    <2>1. disk[p] \in Info
      BY <1>0, <1>2, InfoType DEF WriteInPlace, Exists
    <2>2. [disk[p] EXCEPT !.mtime = clock] \in Info
      BY <1>2, <2>1, TickType DEF WriteInPlace, Info
    <2>3. disk' = [disk EXCEPT ![p] = [disk[p] EXCEPT !.mtime = clock]]
      BY <1>2 DEF WriteInPlace, Now
    <2>4. disk' \in Listing /\ \A q \in Paths : disk'[q] = Absent <=> disk[q] = Absent
      BY <1>0, <2>1, <2>2, <2>3, AbsentAssumption DEF Listing
    <2>5. Tree'
      BY <2>4, WatcherAssumption DEF Tree, Exists
    <2>6. QED
      BY <1>2, <2>4, <2>5, TickType DEF WriteInPlace
  <1>3. ASSUME NEW p \in Paths, Unlink(p)
        PROVE  disk' \in Listing /\ clock' \in 1 .. MaxTime /\ Tree'
    <2>1. p # Root => Parent[p] # p /\ disk[Parent[p]] # Absent
      BY <1>3 DEF Unlink, Tree, Exists
    <2>2. /\ disk' \in Listing
          /\ \A q \in Paths \ {p} : disk'[q] = Absent <=> disk[q] = Absent
          /\ disk'[p] = Absent
      BY <1>0, <1>3, <2>1, RelinkStep DEF Unlink
    <2>3. Tree'
      BY <1>3, <2>2, WatcherAssumption DEF Tree, Exists, Unlink
    <2>4. QED
      BY <1>3, <2>2, <2>3, TickType DEF Unlink
  <1>4. ASSUME NEW p \in Paths, NEW q \in Paths, RenameTo(p, q)
        PROVE  disk' \in Listing /\ clock' \in 1 .. MaxTime /\ Tree'
    <2> DEFINE linked == Relink(disk, q, disk[p])
    <2>1. /\ p # q /\ p \notin Dirs /\ q \notin Dirs
          /\ p # Root /\ q # Root
          /\ Parent[p] \in Dirs /\ Parent[q] \in Dirs
          /\ disk[Parent[p]] # Absent /\ disk[Parent[q]] # Absent
          /\ disk[p] \in Info
      BY <1>0, <1>4, WatcherAssumption, InfoType DEF RenameTo, Tree, Exists
    <2>2. /\ linked \in Listing
          /\ \A x \in Paths \ {q} : linked[x] = Absent <=> disk[x] = Absent
          /\ linked[q] = disk[p]
      BY <1>0, <2>1, RelinkStep
    <2>3. linked[Parent[p]] # Absent
      BY <2>1, <2>2, WatcherAssumption
    <2>4. disk' = Relink(linked, p, Absent)
      BY <1>4 DEF RenameTo
    <2>5. /\ disk' \in Listing
          /\ \A x \in Paths \ {p} : disk'[x] = Absent <=> linked[x] = Absent
          /\ disk'[p] = Absent
      <3> HIDE DEF linked
      <3>1. QED
        BY <2>1, <2>2, <2>3, <2>4, RelinkStep
    <2>6. Tree'
      <3>1. \A x \in Dirs : disk'[x] = Absent <=> disk[x] = Absent
        BY <2>1, <2>2, <2>5, WatcherAssumption
      <3>2. \A x \in Paths \ {p, q} : disk'[x] = Absent <=> disk[x] = Absent
        BY <2>2, <2>5
      <3>3. QED
        BY <2>1, <2>5, <3>1, <3>2, WatcherAssumption DEF Tree, Exists
    <2>7. QED
      BY <1>4, <2>5, <2>6, TickType DEF RenameTo
  <1>5. ASSUME NEW p \in Paths, ChangeMode(p)
        PROVE  disk' \in Listing /\ clock' \in 1 .. MaxTime /\ Tree'
    <2>1. disk[p] \in Info
      BY <1>0, <1>5, InfoType DEF ChangeMode, Exists
    <2>2. PICK m \in Modes : disk' = [disk EXCEPT ![p] = [disk[p] EXCEPT !.mode = m]]
      BY <1>5 DEF ChangeMode, Modes
    <2>3. [disk[p] EXCEPT !.mode = m] \in Info
      BY <2>1 DEF Info
    <2>4. disk' \in Listing /\ \A q \in Paths : disk'[q] = Absent <=> disk[q] = Absent
      BY <1>0, <2>1, <2>2, <2>3, AbsentAssumption DEF Listing
    <2>5. Tree'
      BY <2>4, WatcherAssumption DEF Tree, Exists
    <2>6. QED
      BY <1>5, <2>4, <2>5, TickType DEF ChangeMode
  <1>6. QED
    BY <1>1, <1>2, <1>3, <1>4, <1>5 DEF FileSystem

-----------------------------------------------------------------------------
(* One lemma per group of actions: shapes *)

\* What a step of the users leaves alone.
LEMMA UserStepShape ==
  ASSUME ShapeInv, FileSystem
  PROVE  ShapeInv'
  <1>1. /\ UNCHANGED <<life, mu, fieldVars, poller, pollVars, diffVars, endVars, historyVars>>
        /\ disk' \in Listing /\ clock' \in 1 .. MaxTime /\ Tree'
    BY FileSystemStep
    DEF ShapeInv, FileSystem, Put, WriteInPlace, Unlink, RenameTo, ChangeMode, Tick
  <1>2. TypeOK'
    BY <1>1 DEF ShapeInv, TypeOK, fieldVars, pollVars, diffVars, endVars, historyVars
  <1>3. MutexShape' /\ DiffShape' /\ EventShape' /\ PendingIsCurrent'
    BY <1>1 DEF ShapeInv, MutexShape, DiffShape, EventShape, PendingIsCurrent,
       fieldVars, pollVars, diffVars, endVars, Changes, Renames, Gone, New, InBoth
  <1>4. QED
    BY <1>1, <1>2, <1>3 DEF ShapeInv

LEMMA TreeUnchanged ==
  ASSUME Tree, UNCHANGED disk
  PROVE  Tree'
  BY DEF Tree, Exists

LEMMA ChangesUnchanged ==
  ASSUME UNCHANGED <<files, fileList>>
  PROVE  Changes' = Changes /\ Kept' = Kept
  BY DEF Changes, Kept, Renames, Gone, New, InBoth

LEMMA NothingType == Nothing \in Listing
  BY DEF Nothing, Listing

LEMMA StartShape ==
  ASSUME ShapeInv, Start
  PROVE  ShapeInv'
  <1>1. TypeOK'
    BY WatcherAssumption
    DEF ShapeInv, Start, TypeOK, fsVars, pollVars, diffVars, historyVars, fieldVars
  <1>2. Tree' /\ PendingIsCurrent'
    BY TreeUnchanged, ChangesUnchanged
    DEF ShapeInv, Start, fsVars, pollVars, diffVars, PendingIsCurrent
  <1>3. MutexShape' /\ DiffShape' /\ EventShape'
    BY DEF ShapeInv, TypeOK, Start, pollVars, diffVars, MutexShape, DiffShape, EventShape
  <1>4. QED
    BY <1>1, <1>2, <1>3 DEF ShapeInv

LEMMA CloseShape ==
  ASSUME ShapeInv, Close
  PROVE  ShapeInv'
  <1>1. TypeOK'
    BY NothingType DEF ShapeInv, Close, TypeOK, fsVars, pollVars, diffVars, historyVars
  <1>2. diff # "sending"
    BY DEF ShapeInv, Close, MutexShape
  <1>3. Tree' /\ MutexShape' /\ DiffShape' /\ EventShape' /\ PendingIsCurrent'
    BY <1>2, TreeUnchanged
    DEF ShapeInv, Close, fsVars, pollVars, diffVars, MutexShape, DiffShape, EventShape, PendingIsCurrent
  <1>4. QED
    BY <1>1, <1>3 DEF ShapeInv

LEMMA CallTypes ==
  ASSUME NEW p \in Paths
  PROVE  <<"lstat", p>> \in {"lstat", "names"} \X Paths /\ <<"names", p>> \in {"lstat", "names"} \X Paths
  OBVIOUS

LEMMA LstatType ==
  ASSUME TypeOK, NEW p \in Paths, Lstat(p)
  PROVE  fileList' \in Listing /\ todo' \subseteq {"lstat", "names"} \X Paths
  BY CallTypes DEF TypeOK, Lstat, Vanished, Exists, Listing

LEMMA ReadDirNamesType ==
  ASSUME TypeOK, NEW p \in Paths, ReadDirNames(p)
  PROVE  fileList' \in Listing /\ todo' \subseteq {"lstat", "names"} \X Paths
  <1>1. \A q \in Children(p) : <<"lstat", q>> \in {"lstat", "names"} \X Paths
    BY DEF Children
  <1>2. QED
    BY <1>1 DEF TypeOK, ReadDirNames, Vanished

\* One call of the walk.
WalkCall == \E p \in Paths : Lstat(p) \/ ReadDirNames(p)

LEMMA WalkCallStep ==
  ASSUME WalkCall
  PROVE  /\ UNCHANGED <<fsVars, life, mu, fieldVars, numEvents, event, diffVars, endVars, historyVars>>
         /\ poller = "walk" /\ poller' \in {"walk", "fail"}
  BY DEF WalkCall, Lstat, ReadDirNames, Vanished, Call

LEMMA WalkShape ==
  ASSUME ShapeInv, Walk
  PROVE  ShapeInv'
  <1>1. CASE WalkBegin
    <2>1. Nothing \in Listing /\ <<"lstat", Root>> \in {"lstat", "names"} \X Paths
      BY NothingType, CallTypes, WatcherAssumption
    <2>2. TypeOK'
      BY <1>1, <2>1
      DEF ShapeInv, WalkBegin, TypeOK, fsVars, fieldVars, diffVars, endVars, historyVars
    <2>3. diff = "none"
      BY <1>1 DEF ShapeInv, WalkBegin, DiffShape
    <2>4. Tree' /\ PendingIsCurrent' /\ MutexShape' /\ DiffShape' /\ EventShape'
      BY <1>1, <2>3, TreeUnchanged
      DEF ShapeInv, WalkBegin, fsVars, diffVars, endVars, MutexShape, DiffShape, EventShape, PendingIsCurrent
    <2>5. QED
      BY <2>2, <2>4 DEF ShapeInv
  <1>2. CASE WalkCall
    <2>1. fileList' \in Listing /\ todo' \subseteq {"lstat", "names"} \X Paths
      BY <1>2, LstatType, ReadDirNamesType DEF WalkCall, ShapeInv
    <2>2. TypeOK'
      BY <1>2, <2>1, WalkCallStep
      DEF ShapeInv, TypeOK, fsVars, fieldVars, diffVars, endVars, historyVars
    <2>3. diff = "none"
      BY <1>2, WalkCallStep DEF ShapeInv, DiffShape
    <2>4. Tree' /\ PendingIsCurrent' /\ MutexShape' /\ DiffShape' /\ EventShape'
      BY <1>2, <2>3, WalkCallStep, TreeUnchanged
      DEF ShapeInv, fsVars, diffVars, endVars, MutexShape, DiffShape, EventShape, PendingIsCurrent
    <2>5. QED
      BY <2>2, <2>4 DEF ShapeInv
  <1>3. CASE WalkEnd
    <2>1. diff = "none" /\ mu = "poller"
      BY <1>3 DEF ShapeInv, WalkEnd, MutexShape, DiffShape
    <2>2. TypeOK'
      BY <1>3 DEF ShapeInv, WalkEnd, TypeOK, fsVars, fieldVars, endVars
    <2>3. Tree' /\ PendingIsCurrent' /\ MutexShape' /\ DiffShape' /\ EventShape'
      BY <1>3, <2>1, TreeUnchanged
      DEF ShapeInv, WalkEnd, fsVars, endVars, MutexShape, DiffShape, EventShape, PendingIsCurrent
    <2>4. QED
      BY <2>2, <2>3 DEF ShapeInv
  <1>4. QED
    BY <1>1, <1>2, <1>3 DEF Walk, WalkCall

LEMMA DiffBeginShape ==
  ASSUME ShapeInv, DiffBegin
  PROVE  ShapeInv'
  <1>1. TypeOK'
    BY ChangesType
    DEF ShapeInv, DiffBegin, TypeOK, fsVars, fieldVars, pollVars, endVars, historyVars
  <1>2. Tree' /\ PendingIsCurrent'
    BY TreeUnchanged, ChangesUnchanged
    DEF ShapeInv, DiffBegin, fsVars, fieldVars, pollVars, PendingIsCurrent
  <1>3. MutexShape' /\ DiffShape' /\ EventShape'
    BY DEF ShapeInv, DiffBegin, pollVars, endVars, MutexShape, DiffShape, EventShape
  <1>4. QED
    BY <1>1, <1>2, <1>3 DEF ShapeInv

LEMMA WriteIsListed ==
  ASSUME NEW e \in Changes, e.op = "Write"
  PROVE  fileList[e.path] # Absent
  BY DEF Changes, InBoth

LEMMA DiffSendShape ==
  ASSUME ShapeInv, NEW e \in pending, DiffSend(e)
  PROVE  ShapeInv'
  <1>1. e \in Event /\ e \in Changes
    BY DEF ShapeInv, TypeOK, DiffSend, PendingIsCurrent
  <1>2. TypeOK'
    BY <1>1 DEF ShapeInv, DiffSend, TypeOK, fsVars, fieldVars, endVars, historyVars
  <1>3. Tree' /\ PendingIsCurrent'
    BY TreeUnchanged, ChangesUnchanged DEF ShapeInv, DiffSend, fsVars, fieldVars, PendingIsCurrent
  <1>4. EventShape'
    BY <1>1, WriteIsListed DEF DiffSend, EventShape
  <1>5. MutexShape' /\ DiffShape'
    BY DEF ShapeInv, DiffSend, endVars, MutexShape, DiffShape
  <1>6. QED
    BY <1>2, <1>3, <1>4, <1>5 DEF ShapeInv

LEMMA DiffEndShape ==
  ASSUME ShapeInv, DiffEnd
  PROVE  ShapeInv'
  <1>1. TypeOK'
    BY DEF ShapeInv, DiffEnd, TypeOK, fsVars, fieldVars, pollVars, endVars, historyVars
  <1>2. Tree' /\ PendingIsCurrent'
    BY TreeUnchanged DEF ShapeInv, DiffEnd, fsVars, PendingIsCurrent
  <1>3. MutexShape' /\ DiffShape' /\ EventShape'
    BY DEF ShapeInv, DiffEnd, pollVars, endVars, MutexShape, DiffShape, EventShape
  <1>4. QED
    BY <1>1, <1>2, <1>3 DEF ShapeInv

LEMMA ForwardShape ==
  ASSUME ShapeInv, Forward
  PROVE  ShapeInv'
  <1>1. seen' \in [Paths -> 0 .. MaxTime]
    <2>1. event.path \in Paths
      BY DEF ShapeInv, TypeOK, Event
    <2>2. CASE event.op = "Write"
      <3>1. fileList[event.path] \in Info
        BY <2>1, <2>2, InfoType DEF ShapeInv, TypeOK, EventShape, Forward
      <3>2. QED
        BY <2>1, <2>2, <3>1 DEF ShapeInv, TypeOK, Forward, Info
    <2>3. CASE event.op # "Write"
      BY <2>3 DEF ShapeInv, TypeOK, Forward
    <2>4. QED
      BY <2>2, <2>3
  <1>2. TypeOK'
    BY <1>1 DEF ShapeInv, Forward, TypeOK, fsVars, fieldVars, pollVars, diffVars
  <1>3. Tree' /\ PendingIsCurrent'
    BY TreeUnchanged, ChangesUnchanged
    DEF ShapeInv, Forward, fsVars, fieldVars, pollVars, diffVars, PendingIsCurrent
  <1>4. MutexShape' /\ DiffShape' /\ EventShape'
    BY DEF ShapeInv, Forward, pollVars, diffVars, MutexShape, DiffShape, EventShape
  <1>5. QED
    BY <1>2, <1>3, <1>4 DEF ShapeInv

LEMMA SaveShape ==
  ASSUME ShapeInv, Save
  PROVE  ShapeInv'
  <1>1. diff = "none"
    BY DEF ShapeInv, Save, MutexShape, DiffShape
  <1>2. TypeOK'
    BY DEF ShapeInv, Save, TypeOK, fsVars, pollVars, diffVars, endVars, historyVars
  <1>3. Tree' /\ MutexShape' /\ DiffShape' /\ EventShape' /\ PendingIsCurrent'
    BY <1>1, TreeUnchanged
    DEF ShapeInv, Save, fsVars, pollVars, diffVars, endVars,
        MutexShape, DiffShape, EventShape, PendingIsCurrent
  <1>4. QED
    BY <1>2, <1>3 DEF ShapeInv

\* The steps that only move a goroutine on.
Moves == SendError \/ Handled \/ CycleDone \/ Wake \/ CloseReceived

LEMMA MovesShape ==
  ASSUME ShapeInv, Moves
  PROVE  ShapeInv'
  <1>1. TypeOK'
    BY DEF ShapeInv, Moves, SendError, Handled, CycleDone, Wake, CloseReceived, TypeOK,
       fsVars, fieldVars, pollVars, diffVars, endVars, historyVars
  <1>2. Tree' /\ PendingIsCurrent'
    BY TreeUnchanged, ChangesUnchanged
    DEF ShapeInv, Moves, SendError, Handled, CycleDone, Wake, CloseReceived,
        fsVars, fieldVars, pollVars, diffVars, PendingIsCurrent
  <1>3. MutexShape' /\ DiffShape' /\ EventShape'
    BY DEF ShapeInv, Moves, SendError, Handled, CycleDone, Wake, CloseReceived,
       pollVars, diffVars, endVars, MutexShape, DiffShape, EventShape
  <1>4. QED
    BY <1>1, <1>2, <1>3 DEF ShapeInv

LEMMA ShapeStep ==
  ASSUME ShapeInv, [Next]_vars
  PROVE  ShapeInv'
  <1>1. CASE UNCHANGED vars
    <2>1. TypeOK' /\ MutexShape' /\ DiffShape' /\ EventShape'
      BY <1>1 DEF ShapeInv, vars, fsVars, fieldVars, pollVars, diffVars, endVars, historyVars,
         TypeOK, MutexShape, DiffShape, EventShape
    <2>2. Tree' /\ PendingIsCurrent'
      BY <1>1, TreeUnchanged, ChangesUnchanged
      DEF ShapeInv, vars, fsVars, fieldVars, pollVars, diffVars, PendingIsCurrent
    <2>3. QED
      BY <2>1, <2>2 DEF ShapeInv
  <1>2. CASE Next
    BY <1>2, StartShape, CloseShape, WalkShape, DiffBeginShape,
       DiffSendShape, DiffEndShape, ForwardShape, SaveShape, MovesShape, UserStepShape
    DEF Next, Poller, Diff, Moves
  <1>3. QED
    BY <1>1, <1>2

LEMMA InitShape ==
  ASSUME Init
  PROVE  ShapeInv
  <1>1. TypeOK
    <2>1. disk \in Listing /\ files = disk /\ todo = {} /\ fileList = Nothing
      BY DEF Init
    <2>2. NoEvent \in Event
      BY WatcherAssumption DEF NoEvent, Event
    <2>3. /\ clock \in 1 .. MaxTime /\ starts \in 0 .. MaxStarts
          /\ seen \in [Paths -> 0 .. MaxTime]
      BY WatcherAssumption DEF Init
    <2>4. QED
      BY NothingType, <2>1, <2>2, <2>3 DEF Init, TypeOK
  <1>2. Tree /\ MutexShape /\ DiffShape /\ EventShape /\ PendingIsCurrent
    BY DEF Init, Tree, MutexShape, DiffShape, EventShape, PendingIsCurrent
  <1>3. QED
    BY <1>1, <1>2 DEF ShapeInv

-----------------------------------------------------------------------------
(* What a cycle delivers *)

\* Steps that take no part in a cycle, or leave what it covers as it is.
Asides == WalkBegin \/ WalkCall \/ SendError \/ Handled \/ Wake \/ FileSystem \/ Save \/ CloseReceived
            \/ Start \/ Close

LEMMA AsidesStep ==
  ASSUME CycleInv, Asides
  PROVE  CycleCovers' /\ CycleCounts' /\ NoChangeLost'
  <1>1. CASE Start \/ Close \/ WalkBegin \/ WalkCall \/ SendError \/ Wake \/ Save \/ CloseReceived
    <2>1. ~InCycle' /\ ~(life = "up" /\ poller = "save" /\ running)'
      BY <1>1, WalkCallStep
      DEF CycleInv, ShapeInv, DiffShape, TypeOK, Start, Close, WalkBegin, SendError, Wake,
         Save, CloseReceived, InCycle, fieldVars
    <2>2. QED
      BY <2>1 DEF CycleCovers, CycleCounts, NoChangeLost
  <1>2. CASE Handled \/ FileSystem
    <2>1. /\ UNCHANGED <<life, fieldVars, poller, pollVars, diffVars, historyVars>>
      BY <1>2 DEF Handled, FileSystem, Put, WriteInPlace, Unlink, RenameTo, ChangeMode, Tick
    <2>2. /\ Kept' = Kept /\ Sent' = Sent /\ InCycle' = InCycle
          /\ KeptOf(pending)' = KeptOf(pending)
      BY <2>1, ChangesUnchanged
      DEF fieldVars, pollVars, diffVars, historyVars, Sent, InCycle, KeptOf
    <2>3. UNCHANGED <<life, poller, running, diff, delivered, numEvents>>
      BY <2>1 DEF fieldVars, pollVars, diffVars, historyVars
    <2>4. QED
      BY <2>2, <2>3 DEF CycleInv, CycleCovers, CycleCounts, NoChangeLost
  <1>3. QED
    BY <1>1, <1>2 DEF Asides

LEMMA WalkEndStep ==
  ASSUME CycleInv, WalkEnd
  PROVE  CycleCovers' /\ CycleCounts' /\ NoChangeLost'
  <1>1. Sent' = {} /\ numEvents' = 0 /\ poller' = "select" /\ diff' = "spawned"
    BY DEF WalkEnd, Sent
  <1>2. IsFiniteSet(Sent') /\ Cardinality(Sent') = 0
    BY <1>1, FS_EmptySet
  <1>3. QED
    BY <1>1, <1>2, WatcherAssumption DEF CycleCovers, CycleCounts, NoChangeLost

LEMMA DiffBeginStep ==
  ASSUME CycleInv, DiffBegin
  PROVE  CycleCovers' /\ CycleCounts' /\ NoChangeLost'
  <1>1. /\ Kept' = Kept /\ Sent' = Sent /\ InCycle' = InCycle
        /\ KeptOf(pending)' = Kept
        /\ diff = "spawned" /\ diff' = "sending"
        /\ UNCHANGED <<life, poller, running, delivered, numEvents>>
    BY ChangesUnchanged
    DEF DiffBegin, fieldVars, pollVars, historyVars, Sent, InCycle, KeptOf, Kept
  <1>2. QED
    BY <1>1 DEF CycleInv, CycleCovers, CycleCounts, NoChangeLost

LEMMA DiffSendStep ==
  ASSUME CycleInv, NEW e \in pending, DiffSend(e)
  PROVE  CycleCovers' /\ CycleCounts' /\ NoChangeLost'
  <1> DEFINE kept == Ops = {} \/ e.op \in Ops
  <1>1. /\ Kept' = Kept /\ Sent = delivered /\ poller = "select"
        /\ UNCHANGED <<life, running, delivered>>
        /\ diff = "sending"
    BY ChangesUnchanged DEF DiffSend, fieldVars, historyVars, Sent
  <1>2. /\ numEvents \in Nat /\ MaxEvents \in Nat
    BY WatcherAssumption DEF CycleInv, ShapeInv, TypeOK
  <1>3. InCycle <=> life = "up" /\ running
    BY <1>1 DEF InCycle
  <1>4. ASSUME InCycle
        PROVE  /\ delivered \cup KeptOf(pending) = Kept
               /\ IsFiniteSet(delivered) /\ Cardinality(delivered) \in Nat
               /\ Cardinality(delivered) <= numEvents
               /\ MaxEvents > 0 => Cardinality(delivered) <= MaxEvents
    <2>1. IsFiniteSet(delivered)
      BY <1>1, <1>4 DEF CycleInv, CycleCounts
    <2>2. QED
      BY <1>1, <1>4, <2>1, FS_CardinalityType DEF CycleInv, CycleCovers, CycleCounts
  <1>5. CASE kept /\ Excess
    <2>1. poller' = "save" /\ MaxEvents > 0
      BY <1>5 DEF DiffSend, Excess
    <2>2. QED
      BY <1>1, <1>2, <1>3, <1>4, <2>1 DEF CycleCovers, CycleCounts, NoChangeLost, InCycle
  <1>6. CASE kept /\ ~Excess
    <2>1. /\ poller' = "forward" /\ event' = e /\ diff' = "sending"
          /\ pending' = pending \ {e} /\ numEvents' = numEvents + 1
      BY <1>1, <1>6 DEF DiffSend
    <2>2. Sent' = delivered \cup {e} /\ (InCycle' => InCycle)
      BY <1>1, <1>3, <2>1 DEF Sent, InCycle
    <2>3. KeptOf(pending)' \cup {e} = KeptOf(pending)
      BY <1>6, <2>1 DEF KeptOf
    <2>4. ASSUME InCycle
          PROVE  /\ IsFiniteSet(Sent') /\ Cardinality(Sent') \in Nat
                 /\ Cardinality(Sent') <= Cardinality(delivered) + 1
      <3>1. IsFiniteSet(Sent')
        BY <1>4, <2>2, <2>4, FS_AddElement
      <3>2. \/ Cardinality(Sent') = Cardinality(delivered)
            \/ Cardinality(Sent') = Cardinality(delivered) + 1
        BY <1>4, <2>2, <2>4, FS_AddElement
      <3>3. QED
        BY <1>4, <2>4, <3>1, <3>2
    <2>5. ASSUME InCycle
          PROVE  /\ Cardinality(Sent') <= numEvents'
                 /\ MaxEvents > 0 => Cardinality(Sent') <= MaxEvents
      BY <1>2, <1>4, <1>6, <2>1, <2>4, <2>5 DEF Excess
    <2>6. CycleCovers'
      BY <1>1, <1>4, <2>1, <2>2, <2>3 DEF CycleCovers
    <2>7. CycleCounts'
      BY <2>1, <2>2, <2>4, <2>5 DEF CycleCounts
    <2>8. QED
      BY <2>1, <2>6, <2>7 DEF NoChangeLost
  <1>7. CASE ~kept
    <2>1. /\ poller' = "select" /\ diff' = "sending"
          /\ pending' = pending \ {e} /\ numEvents' = numEvents
      BY <1>1, <1>7 DEF DiffSend
    <2>2. Sent' = Sent /\ InCycle' = InCycle /\ KeptOf(pending)' = KeptOf(pending)
      BY <1>1, <1>7, <2>1 DEF Sent, InCycle, KeptOf
    <2>3. QED
      BY <1>1, <2>1, <2>2 DEF CycleInv, CycleCovers, CycleCounts, NoChangeLost
  <1>8. QED
    BY <1>5, <1>6, <1>7

LEMMA DiffEndStep ==
  ASSUME CycleInv, DiffEnd
  PROVE  CycleCovers' /\ CycleCounts' /\ NoChangeLost'
  <1>1. /\ Kept' = Kept /\ Sent' = Sent /\ InCycle' = InCycle
        /\ KeptOf(pending)' = KeptOf(pending)
        /\ diff # "spawned" /\ diff' # "spawned"
        /\ UNCHANGED <<life, poller, running, delivered, numEvents>>
    BY ChangesUnchanged
    DEF DiffEnd, fieldVars, pollVars, historyVars, Sent, InCycle, KeptOf
  <1>2. QED
    BY <1>1 DEF CycleInv, CycleCovers, CycleCounts, NoChangeLost

LEMMA ForwardStep ==
  ASSUME CycleInv, Forward
  PROVE  CycleCovers' /\ CycleCounts' /\ NoChangeLost'
  <1>1. /\ Kept' = Kept /\ Sent' = Sent /\ InCycle' = InCycle
        /\ KeptOf(pending)' = KeptOf(pending)
        /\ poller' = "select"
        /\ UNCHANGED <<life, running, diff, numEvents>>
    BY ChangesUnchanged
    DEF Forward, fieldVars, pollVars, diffVars, Sent, InCycle, KeptOf
  <1>2. QED
    BY <1>1 DEF CycleInv, CycleCovers, CycleCounts, NoChangeLost

LEMMA CycleDoneStep ==
  ASSUME CycleInv, CycleDone
  PROVE  CycleCovers' /\ CycleCounts' /\ NoChangeLost'
  <1>1. /\ Kept' = Kept /\ poller = "select" /\ poller' = "save"
        /\ UNCHANGED <<life, running, delivered>>
        /\ diff = "done"
    BY ChangesUnchanged DEF CycleDone, fieldVars, pollVars, historyVars
  <1>2. KeptOf(pending) = {} /\ Sent = delivered
    BY <1>1 DEF CycleInv, ShapeInv, DiffShape, KeptOf, Sent
  <1>3. ASSUME life = "up", running
        PROVE  delivered = Kept /\ (MaxEvents > 0 => Cardinality(delivered) <= MaxEvents)
    BY <1>1, <1>2, <1>3 DEF CycleInv, CycleCovers, CycleCounts, InCycle
  <1>4. QED
    BY <1>1, <1>3 DEF CycleCovers, CycleCounts, NoChangeLost, InCycle

LEMMA CycleStep ==
  ASSUME CycleInv, [Next]_vars
  PROVE  CycleInv'
  <1>1. ShapeInv'
    BY ShapeStep DEF CycleInv
  <1>2. CASE UNCHANGED vars
    <2>1. /\ Kept' = Kept /\ Sent' = Sent /\ InCycle' = InCycle
          /\ KeptOf(pending)' = KeptOf(pending)
          /\ UNCHANGED <<life, poller, running, diff, delivered, numEvents>>
      BY <1>2, ChangesUnchanged
      DEF vars, fieldVars, pollVars, diffVars, historyVars, Sent, InCycle, KeptOf
    <2>2. QED
      BY <1>1, <2>1 DEF CycleInv, CycleCovers, CycleCounts, NoChangeLost
  <1>3. CASE Next
    <2>1. CycleCovers' /\ CycleCounts' /\ NoChangeLost'
      BY <1>3, AsidesStep, WalkEndStep, DiffBeginStep, DiffSendStep, DiffEndStep,
         ForwardStep, CycleDoneStep
      DEF Next, Poller, Walk, WalkCall, Diff, Asides
    <2>2. QED
      BY <1>1, <2>1 DEF CycleInv
  <1>4. QED
    BY <1>2, <1>3

THEOREM WatcherInvariant == Spec => []CycleInv
  <1>1. Init => CycleInv
    <2>1. ASSUME Init
          PROVE  CycleCovers /\ CycleCounts /\ NoChangeLost
      BY <2>1 DEF Init, CycleCovers, CycleCounts, NoChangeLost, InCycle
    <2>2. QED
      BY <2>1, InitShape DEF CycleInv
  <1>2. QED
    BY <1>1, CycleStep, PTL DEF Spec

\* Every variable keeps its type, and the tree stays a tree, for any tree,
\* filter and limit, with Close and a second Start at any time.
THEOREM WatcherTypeCorrect == Spec => []TypeOK
  BY WatcherInvariant, PTL DEF CycleInv, ShapeInv

\* What pollEvents still has to send is a difference of the lists as they are:
\* nobody replaces one of them while they are compared.
THEOREM ComparedListsStay == Spec => []PendingIsCurrent
  BY WatcherInvariant, PTL DEF CycleInv, ShapeInv

\* Nobody who holds the mutex and sends has lost the goroutine that receives:
\* pollEvents and the loop of Start never wait for one another, nor does Close
\* for both.
THEOREM SendersHaveReceivers == Spec => []SenderHasReceiver
  <1>1. ASSUME ShapeInv
        PROVE  SenderHasReceiver
    <2>1. pending # {} => diff = "sending"
      BY <1>1 DEF ShapeInv, DiffShape
    <2>2. diff = "sending" => poller \in {"select", "forward"}
      BY <1>1 DEF ShapeInv, DiffShape, TypeOK
    <2>3. QED
      BY <2>1, <2>2 DEF SenderHasReceiver
  <1>2. QED
    BY <1>1, WatcherInvariant, PTL DEF CycleInv

\* A cycle hands over exactly what the filter keeps of the differences, or as
\* many of them as the limit allows, before the list is replaced.
THEOREM CyclesDeliverWhatTheyFind == Spec => []NoChangeLost
  BY WatcherInvariant, PTL DEF CycleInv

-----------------------------------------------------------------------------
(* FileWatcher implements ChangeFeed *)

\* Start has run once in a process that is up, and the watcher is open until
\* somebody has called Close.
LifeShape ==
  /\ life = "up" /\ poller = "unstarted" => wg = 1 /\ ~running /\ watched
  /\ life = "up" /\ poller # "unstarted" => wg = 0 /\ (running <=> watched)
  /\ caller = "closing" => ~watched

FeedInv == CycleInv /\ LifeShape

LEMMA LifeStep ==
  ASSUME ShapeInv, LifeShape, [Next]_vars
  PROVE  LifeShape'
  <1>0. wg \in {0, 1}
    BY DEF ShapeInv, TypeOK
  <1>1. CASE Start \/ Close \/ CloseReceived
    BY <1>0, <1>1 DEF LifeShape, Start, Close, CloseReceived, fieldVars
  <1>2. CASE WalkBegin \/ WalkCall \/ WalkEnd \/ SendError
    BY <1>2, WalkCallStep DEF LifeShape, WalkBegin, WalkEnd, SendError, fieldVars, endVars
  <1>3. CASE Forward \/ CycleDone \/ Save \/ Wake
    BY <1>3 DEF LifeShape, Forward, CycleDone, Save, Wake, fieldVars, endVars
  <1>4. CASE Diff
    BY <1>4 DEF LifeShape, Diff, DiffBegin, DiffSend, DiffEnd, fieldVars, endVars
  <1>5. CASE Handled \/ FileSystem \/ UNCHANGED vars
    BY <1>5
    DEF LifeShape, Handled, FileSystem, Put, WriteInPlace, Unlink, RenameTo, ChangeMode, Tick,
        vars, fieldVars, endVars
  <1>6. QED
    BY <1>1, <1>2, <1>3, <1>4, <1>5 DEF Next, Poller, Walk, WalkCall

LEMMA FeedInvariant == Spec => []FeedInv
  <1>1. Init => CycleInv /\ LifeShape
    <2>1. ASSUME Init
          PROVE  CycleCovers /\ CycleCounts /\ NoChangeLost /\ LifeShape
      BY <2>1 DEF Init, CycleCovers, CycleCounts, NoChangeLost, InCycle, LifeShape
    <2>2. QED
      BY <2>1, InitShape DEF CycleInv
  <1>2. FeedInv /\ [Next]_vars => FeedInv'
    BY CycleStep, LifeStep DEF FeedInv, CycleInv
  <1>3. QED
    BY <1>1, <1>2, PTL DEF Spec, FeedInv

\* No list is the empty function.
LEMMA ListsAreLists ==
  ASSUME TypeOK
  PROVE  <<>> \notin Listing /\ (FeedFound = <<>> <=> ~Comparing)
  <1>1. \A list \in Listing : DOMAIN list = Paths
    BY DEF Listing
  <1>2. Root \in Paths /\ DOMAIN <<>> = {}
    BY WatcherAssumption
  <1>3. <<>> \notin Listing
    BY <1>1, <1>2
  <1>4. QED
    BY <1>3 DEF TypeOK, FeedFound

\* The modified paths are those with a Write among the changes.
LEMMA ModifiedAreWritten ==
  ASSUME Comparing
  PROVE  Feed!Modified = {e.path : e \in {x \in Changes : x.op = "Write"}}
  <1> DEFINE Writes == [op : {"Write"}, path : {p \in Paths : InBoth(p) /\ files[p].mtime # fileList[p].mtime}]
  <1>1. \A x \in Changes : x.op = "Write" <=> x \in Writes
    BY DEF Changes
  <1>2. {x \in Changes : x.op = "Write"} = Writes
    BY <1>1 DEF Changes
  <1>3. Feed!Modified = {p \in Paths : InBoth(p) /\ files[p].mtime # fileList[p].mtime}
    BY DEF Feed!Modified, InBoth, FeedFound
  <1>4. ASSUME NEW p \in Feed!Modified
        PROVE  p \in {e.path : e \in Writes}
    <2>1. [op |-> "Write", path |-> p] \in Writes /\ [op |-> "Write", path |-> p].path = p
      BY <1>3, <1>4
    <2>2. QED
      BY <2>1
  <1>5. ASSUME NEW e \in Writes
        PROVE  e.path \in Feed!Modified
    BY <1>3, <1>5
  <1>6. QED
    BY <1>2, <1>4, <1>5

\* A step that does not change what ChangeFeed sees.
LEMMA SameFeed ==
  ASSUME UNCHANGED <<life, watched, files>>, Comparing' = Comparing,
         Comparing => UNCHANGED <<fileList, delivered>>
  PROVE  UNCHANGED Feed!vars
  BY DEF Feed!vars, FeedState, FeedFound, FeedTold

\* The walk has made its last call.
LEMMA WalkLooks ==
  ASSUME FeedInv, FeedInv', WalkEnd
  PROVE  Feed!Look
  <1>1. /\ life = "up" /\ ~Comparing /\ UNCHANGED <<life, watched, files>>
        /\ delivered' = {} /\ poller' = "select"
    BY DEF WalkEnd, Comparing, fieldVars
  <1>2. FeedFound = <<>> /\ FeedTold = {} /\ FeedTold' = {}
    BY <1>1 DEF FeedFound, FeedTold, Comparing
  <1>3. FeedFound' \in Listing
    BY <1>1 DEF FeedFound, Comparing, FeedInv, CycleInv, ShapeInv, TypeOK
  <1>4. FeedState' = FeedState /\ FeedState # "ended"
    BY <1>1 DEF FeedState
  <1>5. QED
    BY <1>1, <1>2, <1>3, <1>4 DEF Feed!Look

\* The consumer receives an event.
LEMMA ForwardTells ==
  ASSUME FeedInv, Forward
  PROVE  [Feed!Next]_(Feed!vars)
  <1>1. /\ life = "up" /\ poller = "forward" /\ poller' = "select"
        /\ delivered' = delivered \cup {event}
        /\ UNCHANGED <<life, watched, files, fileList>>
        /\ Comparing /\ Comparing' /\ TypeOK
    BY DEF Forward, Comparing, fieldVars, pollVars, FeedInv, CycleInv, ShapeInv
  <1>2. /\ FeedFound = fileList /\ FeedFound' = FeedFound /\ FeedState' = FeedState
        /\ FeedState # "ended" /\ FeedFound # <<>>
    BY <1>1, ListsAreLists DEF FeedFound, FeedState
  <1>3. CASE event.op # "Write"
    <2>1. FeedTold' = FeedTold
      BY <1>1, <1>3 DEF FeedTold
    <2>2. QED
      BY <1>1, <1>2, <2>1 DEF Feed!vars
  <1>4. CASE event.op = "Write"
    <2>1. FeedTold' = FeedTold \cup {event.path}
      BY <1>1, <1>4 DEF FeedTold
    <2>2. event.path \in Paths /\ fileList[event.path] # Absent
      BY <1>1, <1>4 DEF TypeOK, Event, FeedInv, CycleInv, ShapeInv, EventShape
    <2>3. ASSUME FeedState = "open"
          PROVE  event.path \in Feed!Modified
      <3>1. InCycle
        BY <1>1, <2>3 DEF FeedState, FeedInv, LifeShape, InCycle
      <3>2. event \in Sent
        BY <1>1 DEF Sent
      <3>3. event \in Changes
        BY <3>1, <3>2 DEF FeedInv, CycleInv, CycleCovers, Kept
      <3>4. QED
        BY <1>1, <1>4, <3>3, ModifiedAreWritten
    <2>4. Feed!Tell(event.path)
      BY <1>1, <1>2, <2>1, <2>2, <2>3 DEF Feed!Tell
    <2>5. QED
      BY <2>2, <2>4 DEF Feed!Next
  <1>5. QED
    BY <1>3, <1>4

\* The list replaces the one it was compared with.
LEMMA SaveAccepts ==
  ASSUME FeedInv, Save
  PROVE  Feed!Accept
  <1>1. /\ life = "up" /\ poller = "save" /\ files' = fileList
        /\ UNCHANGED <<life, watched>> /\ Comparing /\ ~Comparing' /\ TypeOK
    BY DEF Save, Comparing, FeedInv, CycleInv, ShapeInv
  <1>2. /\ FeedFound = fileList /\ FeedFound' = <<>> /\ FeedTold' = {}
        /\ FeedState' = FeedState /\ FeedState # "ended" /\ FeedFound # <<>>
    BY <1>1, ListsAreLists DEF FeedFound, FeedTold, FeedState
  <1>3. ASSUME FeedState = "open"
        PROVE  /\ FeedTold \subseteq Feed!Modified
               /\ MaxEvents = 0 /\ (Ops = {} \/ "Write" \in Ops) => FeedTold = Feed!Modified
    <2>1. running
      BY <1>1, <1>3 DEF FeedState, FeedInv, LifeShape
    <2>2. /\ delivered \subseteq Kept
          /\ MaxEvents = 0 => delivered = Kept
      BY <1>1, <2>1 DEF FeedInv, CycleInv, NoChangeLost
    <2>3. /\ Kept \subseteq Changes
          /\ Ops = {} \/ "Write" \in Ops => \A x \in Changes : x.op = "Write" => x \in Kept
      BY DEF Kept
    <2>4. FeedTold = {e.path : e \in {x \in delivered : x.op = "Write"}}
      BY <1>1 DEF FeedTold
    <2>5. FeedTold \subseteq Feed!Modified
      BY <1>1, <2>2, <2>3, <2>4, ModifiedAreWritten
    <2>6. ASSUME MaxEvents = 0, Ops = {} \/ "Write" \in Ops
          PROVE  Feed!Modified \subseteq FeedTold
      <3>1. \A x \in Changes : x.op = "Write" => x \in delivered
        BY <2>2, <2>3, <2>6
      <3>2. QED
        BY <1>1, <2>4, <3>1, ModifiedAreWritten
    <2>7. QED
      BY <2>5, <2>6
  <1>4. QED
    BY <1>1, <1>2, <1>3 DEF Feed!Accept

LEMMA CloseCloses ==
  ASSUME FeedInv, Close
  PROVE  Feed!Close
  <1>1. /\ life = "up" /\ life' = life /\ running /\ ~watched' /\ files' = Nothing
        /\ UNCHANGED <<poller, fileList, delivered>>
    BY DEF Close, pollVars, historyVars
  <1>2. poller # "unstarted" /\ watched
    BY <1>1 DEF FeedInv, LifeShape
  <1>3. FeedFound' = FeedFound /\ FeedTold' = FeedTold
    BY <1>1 DEF FeedFound, FeedTold, Comparing
  <1>4. QED
    BY <1>1, <1>2, <1>3 DEF Feed!Close, FeedState, Nothing

LEMMA FeedStep ==
  ASSUME FeedInv, FeedInv', [Next]_vars
  PROVE  [Feed!Next]_(Feed!vars)
  <1>1. CASE Start
    <2>1. CASE life' = life
      BY <1>1, <2>1, SameFeed
      DEF Start, FeedInv, LifeShape, Comparing, pollVars, historyVars
    <2>2. CASE life' = "panicked"
      <3>1. FeedState # "ended" /\ FeedState' = "ended"
        BY <1>1, <2>2 DEF Start, FeedState
      <3>2. /\ files' = files /\ FeedFound' = FeedFound /\ FeedTold' = FeedTold
        BY <1>1, <2>2
        DEF Start, FeedInv, LifeShape, FeedFound, FeedTold, Comparing, pollVars, historyVars
      <3>3. QED
        BY <3>1, <3>2 DEF Feed!Next, Feed!End
    <2>3. QED
      BY <1>1, <2>1, <2>2 DEF Start
  <1>2. CASE Close
    BY <1>2, CloseCloses DEF Feed!Next
  <1>3. CASE CloseReceived
    <2>1. FeedState = "closed" /\ FeedState' = FeedState /\ files' = files
      BY <1>3 DEF CloseReceived, FeedInv, LifeShape, FeedState, fieldVars
    <2>2. FeedFound' = <<>> /\ FeedTold' = {}
      BY <1>3 DEF CloseReceived, FeedFound, FeedTold, Comparing
    <2>3. QED
      BY <2>1, <2>2 DEF Feed!Next, Feed!GiveUp
  <1>4. CASE SendError
    <2>1. FeedState # "ended" /\ FeedState' = "ended" /\ files' = files
      BY <1>4 DEF SendError, FeedState, fieldVars
    <2>2. FeedFound' = FeedFound /\ FeedTold' = FeedTold
      BY <1>4 DEF SendError, FeedFound, FeedTold, Comparing, pollVars, historyVars
    <2>3. QED
      BY <2>1, <2>2 DEF Feed!Next, Feed!End
  <1>5. CASE WalkEnd
    BY <1>5, WalkLooks DEF Feed!Next
  <1>6. CASE Forward
    BY <1>6, ForwardTells
  <1>7. CASE Save
    BY <1>7, SaveAccepts DEF Feed!Next
  <1>8. CASE WalkBegin \/ WalkCall \/ CycleDone \/ Wake
    BY <1>8, SameFeed, WalkCallStep
    DEF WalkBegin, CycleDone, Wake, Comparing, fieldVars, pollVars, historyVars
  <1>9. CASE Diff
    BY <1>9, SameFeed DEF Diff, DiffBegin, DiffSend, DiffEnd, Comparing, fieldVars, pollVars, historyVars
  <1>10. CASE Handled \/ FileSystem \/ UNCHANGED vars
    <2>1. UNCHANGED <<life, watched, files, poller, fileList, delivered>>
      BY <1>10
      DEF Handled, FileSystem, Put, WriteInPlace, Unlink, RenameTo, ChangeMode, Tick,
          vars, fieldVars, pollVars, historyVars
    <2>2. QED
      BY <2>1, SameFeed DEF Comparing
  <1>11. QED
    BY <1>1, <1>2, <1>3, <1>4, <1>5, <1>6, <1>7, <1>8, <1>9, <1>10
    DEF Next, Poller, Walk, WalkCall

LEMMA FeedStarts ==
  ASSUME Init
  PROVE  Feed!Init
  <1>1. files \in Listing /\ poller = "unstarted" /\ life = "up" /\ watched
    BY DEF Init
  <1>2. QED
    BY <1>1 DEF Feed!Init, FeedState, FeedFound, FeedTold, Comparing

\* Every behaviour of the watcher, with any tree, filter and limit, with Close
\* and a second Start at any time, is one of the abstract feed: lists are
\* compared one after the other, and none is accepted before the consumer has
\* been told what was modified since the one before.
THEOREM WatcherImplementsChangeFeed == Spec => ImplementsChangeFeed
  <1>1. FeedInv /\ FeedInv' /\ [Next]_vars => [Feed!Next]_(Feed!vars)
    BY FeedStep
  <1>2. QED
    BY <1>1, FeedStarts, FeedInvariant, PTL DEF Spec, ImplementsChangeFeed, Feed!Spec
=============================================================================
