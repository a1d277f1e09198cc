----------------------------- MODULE FileWatcher -----------------------------
(***************************************************************************)
(* The polling watcher (internal/watcher/watcher.go) as the operator uses  *)
(* it: one root, added recursively, a filter of operations, one consumer   *)
(* that ends the process when it receives an error.                        *)
(*                                                                         *)
(* Goroutines: Start ("poller"), one pollEvents per cycle ("diff"), the    *)
(* receiver of Event and Error ("consumer"), and a caller of Close.  The   *)
(* mutex is held across channel operations, so the channels, all of them   *)
(* unbuffered, are modelled as rendez-vous of the two ends.                *)
(***************************************************************************)
EXTENDS Naturals, FiniteSets

CONSTANTS
  Paths, Root, Parent,  \* the tree: Parent[p] of every p but the root
  Dirs,                 \* the paths that are directories
  Inodes,               \* what os.SameFile compares
  Absent,               \* the info of a path that does not exist
  Ops,                  \* the operations FilterOps keeps
  MaxEvents,            \* events per cycle, 0 for no limit
  MaxTime,              \* bound on modification times
  MaxStarts,            \* bound on the calls of Start
  MayClose              \* somebody calls Close

ASSUME WatcherAssumption ==
  /\ Root \in Dirs /\ Dirs \subseteq Paths
  /\ Parent \in [Paths \ {Root} -> Dirs]
  /\ Ops \subseteq {"Create", "Write", "Remove", "Rename", "Chmod", "Move"}
  /\ MaxEvents \in Nat /\ MaxTime \in Nat \ {0} /\ MaxStarts \in Nat
  /\ MayClose \in BOOLEAN

Modes == {"closed", "open"}
Info == [mtime : 0 .. MaxTime, inode : Inodes, mode : Modes]
Listing == [Paths -> Info \cup {Absent}]

ASSUME AbsentAssumption == Absent \notin Info

Event == [op : {"Create", "Write", "Remove", "Rename", "Chmod", "Move"}, path : Paths]

Nothing == [p \in Paths |-> Absent]

VARIABLES
  disk,       \* the tree
  clock,      \* the time a modification gets
  life,       \* the process: "up", "exited" or "panicked"
  mu,         \* who holds the mutex
  running, watched, files,  \* the fields it protects; watched: Root is in names
  wg,         \* the counter of the wait group
  poller,     \* stage of the goroutine in Start
  todo,       \* calls the walk of this cycle has still to make
  fileList,   \* what that walk has found so far
  numEvents,
  event,      \* event on its way from evt to Event
  diff,       \* stage of this cycle's pollEvents
  pending,    \* events it still has to send
  leaked,     \* pollEvents goroutines blocked for ever on done
  consumer,   \* "ready" or "busy"
  caller,     \* "idle" or "closing"
  starts,
  delivered,  \* history: the events of this cycle the consumer received
  seen        \* history: modification times the consumer was told of

fsVars == <<disk, clock>>
fieldVars == <<running, watched, files>>
pollVars == <<todo, fileList, numEvents, event>>
diffVars == <<diff, pending, leaked>>
endVars == <<consumer, caller, starts, wg>>
historyVars == <<delivered, seen>>
vars == <<fsVars, life, mu, fieldVars, poller, pollVars, diffVars, endVars, historyVars>>

Exists(p) == disk[p] # Absent
\* The inodes the files have at first; which ones they are does not matter.
Home == CHOOSE h \in [Paths -> Inodes] : \A p, q \in Paths : p # q => h[p] # h[q]

NoEvent == [op |-> "Chmod", path |-> Root]

-----------------------------------------------------------------------------
(* New, FilterOps and AddRecursive(Root), then the calls of the owner *)

Init ==
  /\ disk \in {d \in Listing : d[Root] # Absent}
  /\ \A p \in Paths : Exists(p) => disk[p] = [mtime |-> 0, inode |-> Home[p], mode |-> "open"]
  /\ \A p \in Paths \ {Root} : Exists(p) => Exists(Parent[p])
  /\ clock = 1
  /\ life = "up" /\ mu = "free"
  /\ running = FALSE /\ watched = TRUE /\ files = disk
  /\ wg = 1
  /\ poller = "unstarted"
  /\ todo = {} /\ fileList = Nothing /\ numEvents = 0
  /\ event = NoEvent
  /\ diff = "none" /\ pending = {} /\ leaked = 0
  /\ consumer = "ready" /\ caller = "idle" /\ starts = 0
  /\ delivered = {} /\ seen = [p \in Paths |-> 0]

\* Start, until its loop.  wg.Done panics when the counter is 0 already.
Start ==
  /\ life = "up" /\ mu = "free"
  /\ starts < MaxStarts
  /\ starts' = starts + 1
  /\ ~running
  /\ running' = TRUE
  /\ IF wg = 0
     THEN life' = "panicked" /\ UNCHANGED <<wg, poller>>
     ELSE life' = life /\ wg' = wg - 1 /\ poller' = "list"
  /\ UNCHANGED <<fsVars, mu, watched, files, pollVars, diffVars, consumer, caller, historyVars>>

\* Mutant of Close: the fields are cleared without the mutex.
CloseUnlocked ==
  /\ MayClose
  /\ life = "up" /\ caller = "idle"
  /\ running
  /\ running' = FALSE /\ watched' = FALSE /\ files' = Nothing
  /\ caller' = "closing"
  /\ UNCHANGED <<fsVars, life, mu, poller, pollVars, diffVars, consumer, starts, wg, historyVars>>

\* Close, until it sends on w.close.
Close ==
  /\ MayClose
  /\ life = "up" /\ mu = "free" /\ caller = "idle"
  /\ running
  /\ running' = FALSE /\ watched' = FALSE /\ files' = Nothing
  /\ caller' = "closing"
  /\ UNCHANGED <<fsVars, life, mu, poller, pollVars, diffVars, consumer, starts, wg, historyVars>>

-----------------------------------------------------------------------------
(* retrieveFileList: filepath.Walk, under the mutex, while the users go on. *)
(* It makes its calls one by one, in the order of the names; here each      *)
(* directory is read after its own info, and no other order is kept.        *)

Children(p) == {q \in Paths \ {Root} : Parent[q] = p}

\* Mutant of WalkBegin: the list is a nil map.
WalkBeginNil ==
  /\ life = "up" /\ poller = "list" /\ mu = "free"
  /\ mu' = "poller"
  /\ poller' = "walk"
  /\ fileList' = <<>>
  /\ todo' = IF watched THEN {<<"lstat", Root>>} ELSE {}
  /\ UNCHANGED <<fsVars, life, fieldVars, numEvents, event, diffVars, endVars, historyVars>>

WalkBegin ==
  /\ life = "up" /\ poller = "list" /\ mu = "free"
  /\ mu' = "poller"
  /\ poller' = "walk"
  /\ fileList' = Nothing
  /\ todo' = IF watched THEN {<<"lstat", Root>>} ELSE {}
  /\ UNCHANGED <<fsVars, life, fieldVars, numEvents, event, diffVars, endVars, historyVars>>

Call(c) ==
  /\ life = "up" /\ poller = "walk"
  /\ c \in todo
  /\ UNCHANGED <<fsVars, life, mu, fieldVars, numEvents, event, diffVars, endVars, historyVars>>

\* Whatever went after its name was read is an error, which the walk wraps
\* with %v, so that os.IsNotExist never recognises one and every error is sent.
Vanished(p) == ~Exists(p) /\ poller' = "fail" /\ UNCHANGED <<todo, fileList>>

Lstat(p) ==
  /\ Call(<<"lstat", p>>)
  /\ \/ Vanished(p)
     \/ /\ Exists(p)
        /\ fileList' = [fileList EXCEPT ![p] = disk[p]]
        /\ todo' = (todo \ {<<"lstat", p>>}) \cup (IF p \in Dirs THEN {<<"names", p>>} ELSE {})
        /\ UNCHANGED poller

ReadDirNames(p) ==
  /\ Call(<<"names", p>>)
  /\ \/ Vanished(p)
     \/ /\ Exists(p)
        /\ todo' = (todo \ {<<"names", p>>}) \cup {<<"lstat", q>> : q \in {c \in Children(p) : Exists(c)}}
        /\ UNCHANGED <<poller, fileList>>

\* The list is complete: pollEvents gets a goroutine of its own.
WalkEnd ==
  /\ life = "up" /\ poller = "walk" /\ todo = {}
  /\ mu' = "free"
  /\ poller' = "select"
  /\ diff' = "spawned"
  /\ numEvents' = 0
  /\ delivered' = {}
  /\ UNCHANGED <<fsVars, life, fieldVars, todo, fileList, event, pending, leaked, endVars, seen>>

Walk == WalkBegin \/ (\E p \in Paths : Lstat(p) \/ ReadDirNames(p)) \/ WalkEnd

\* The error is sent with the mutex held; the consumer is log.Fatalln.
SendError ==
  /\ life = "up" /\ poller = "fail" /\ consumer = "ready"
  /\ life' = "exited"
  /\ UNCHANGED <<fsVars, mu, fieldVars, poller, pollVars, diffVars, endVars, historyVars>>

-----------------------------------------------------------------------------
(* pollEvents *)

\* Mutant of InBoth: only files are compared.
InBothFiles(p) == files[p] # Absent /\ fileList[p] # Absent /\ p \notin Dirs

InBoth(p) == files[p] # Absent /\ fileList[p] # Absent
Gone == {p \in Paths : files[p] # Absent /\ fileList[p] = Absent}
New == {p \in Paths : files[p] = Absent /\ fileList[p] # Absent}

\* A file gone and a file made that os.SameFile takes for the same one.
Renames ==
  {r \in Gone \X New : files[r[1]].inode = fileList[r[2]].inode}

Changes ==
  [op : {"Write"}, path : {p \in Paths : InBoth(p) /\ files[p].mtime # fileList[p].mtime}]
    \cup [op : {"Chmod"}, path : {p \in Paths : InBoth(p) /\ files[p].mode # fileList[p].mode}]
    \cup {[op |-> IF Parent[r[1]] = Parent[r[2]] THEN "Rename" ELSE "Move", path |-> r[2]] : r \in Renames}
    \cup [op : {"Create"}, path : New \ {r[2] : r \in Renames}]
    \cup [op : {"Remove"}, path : Gone \ {r[1] : r \in Renames}]

\* The order in which pollEvents sends; within a rank it is that of a map.
Rank(op) == CASE op \in {"Write", "Chmod"} -> 1
              [] op \in {"Rename", "Move"} -> 2
              [] op = "Create" -> 3
              [] op = "Remove" -> 4

DiffBegin ==
  /\ life = "up" /\ diff = "spawned" /\ mu = "free"
  /\ mu' = "diff"
  /\ diff' = "sending"
  /\ pending' = Changes
  /\ UNCHANGED <<fsVars, life, fieldVars, poller, pollVars, leaked, endVars, historyVars>>

\* Mutant of Excess: 0 is a limit, too.
ExcessOfNone == numEvents >= MaxEvents

\* Mutant of Excess: the event that is one too many is let through.
ExcessLate == MaxEvents > 0 /\ numEvents > MaxEvents

Excess == MaxEvents > 0 /\ numEvents >= MaxEvents

\* evt <- e, received by the inner loop of Start, which filters the event,
\* cancels the cycle when it is one too many, or forwards it.
DiffSend(e) ==
  LET kept == Ops = {} \/ e.op \in Ops
  IN  /\ life = "up" /\ diff = "sending" /\ poller = "select"
      /\ \A f \in pending : Rank(e.op) <= Rank(f.op)
      /\ IF kept /\ Excess
         THEN diff' = "cancelled" /\ pending' = {}
         ELSE diff' = diff /\ pending' = pending \ {e}
      /\ poller' = IF ~kept THEN "select" ELSE IF Excess THEN "save" ELSE "forward"
      /\ numEvents' = IF kept THEN numEvents + 1 ELSE numEvents
      /\ event' = e
      /\ UNCHANGED <<fsVars, life, mu, fieldVars, todo, fileList, leaked, endVars, historyVars>>

\* Mutant of DiffEnd: the return on cancel keeps the mutex.
DiffEndHolding ==
  /\ life = "up"
  /\ diff \in {"sending", "cancelled"} /\ pending = {}
  /\ IF diff = "cancelled"
     THEN diff' = "none" /\ leaked' = leaked + 1 /\ UNCHANGED mu
     ELSE diff' = "done" /\ mu' = "free" /\ UNCHANGED leaked
  /\ UNCHANGED <<fsVars, life, fieldVars, poller, pollVars, pending, endVars, historyVars>>

\* pollEvents returns and releases the mutex; done is received by the cycle
\* it belongs to, and by nobody once that one was cut short.
DiffEnd ==
  /\ life = "up"
  /\ diff \in {"sending", "cancelled"} /\ pending = {}
  /\ mu' = "free"
  /\ IF diff = "cancelled"
     THEN diff' = "none" /\ leaked' = leaked + 1
     ELSE diff' = "done" /\ UNCHANGED leaked
  /\ UNCHANGED <<fsVars, life, fieldVars, poller, pollVars, pending, endVars, historyVars>>

-----------------------------------------------------------------------------
(* The rest of the cycle, the consumer and the end *)

\* w.Event <- event: the sender watches neither w.close nor cancel.
Forward ==
  /\ life = "up" /\ poller = "forward" /\ consumer = "ready"
  /\ poller' = "select"
  /\ consumer' = "busy"
  /\ delivered' = delivered \cup {event}
  /\ seen' = IF event.op = "Write"
             THEN [seen EXCEPT ![event.path] = fileList[event.path].mtime]
             ELSE seen
  /\ UNCHANGED <<fsVars, life, mu, fieldVars, pollVars, diffVars, caller, starts, wg>>

\* The consumer has handled the event, whatever that takes.
Handled ==
  /\ life = "up" /\ consumer = "busy"
  /\ consumer' = "ready"
  /\ UNCHANGED <<fsVars, life, mu, fieldVars, poller, pollVars, diffVars, caller, starts, wg, historyVars>>

CycleDone ==
  /\ life = "up" /\ poller = "select" /\ diff = "done"
  /\ poller' = "save" /\ diff' = "none"
  /\ UNCHANGED <<fsVars, life, mu, fieldVars, pollVars, pending, leaked, endVars, historyVars>>

\* Mutant of Save: the tree as it is by now is saved.
SaveUncompared ==
  /\ life = "up" /\ poller = "save" /\ mu = "free"
  /\ files' = disk
  /\ poller' = "sleep"
  /\ UNCHANGED <<fsVars, life, mu, running, watched, pollVars, diffVars, endVars, historyVars>>

Save ==
  /\ life = "up" /\ poller = "save" /\ mu = "free"
  /\ files' = fileList
  /\ poller' = "sleep"
  /\ UNCHANGED <<fsVars, life, mu, running, watched, pollVars, diffVars, endVars, historyVars>>

Wake ==
  /\ life = "up" /\ poller = "sleep"
  /\ poller' = "list"
  /\ UNCHANGED <<fsVars, life, mu, fieldVars, pollVars, diffVars, endVars, historyVars>>

\* Mutant of CloseReceived: cancel stays open, and pollEvents goes on.
CloseReceivedUncancelled ==
  /\ life = "up" /\ poller = "select" /\ caller = "closing"
  /\ poller' = "returned"
  /\ caller' = "idle"
  /\ UNCHANGED <<fsVars, life, mu, fieldVars, pollVars, diffVars, consumer, starts, wg, historyVars>>

\* <-w.close: the cycle is cancelled and Start returns.  A pollEvents that has
\* not begun to send sends nothing; nobody receives done.
CloseReceived ==
  /\ life = "up" /\ poller = "select" /\ caller = "closing"
  /\ poller' = "returned"
  /\ caller' = "idle"
  /\ IF diff = "sending"
     THEN diff' = "cancelled" /\ UNCHANGED leaked
     ELSE diff' = "none" /\ leaked' = leaked + 1
  /\ pending' = {}
  /\ UNCHANGED <<fsVars, life, mu, fieldVars, pollVars, consumer, starts, wg, historyVars>>

-----------------------------------------------------------------------------
(* The users of the file system.  Every change gets a time of its own.  *)

Tick ==
  /\ clock < MaxTime
  /\ clock' = clock + 1
  /\ UNCHANGED <<life, mu, fieldVars, poller, pollVars, diffVars, endVars, historyVars>>

Now(info) == [info EXCEPT !.mtime = clock]

\* d with the entry p of its parent changed to info.
Relink(d, p, info) ==
  [q \in Paths |-> IF q = p THEN info
                   ELSE IF p # Root /\ q = Parent[p] THEN Now(d[q])
                   ELSE d[q]]

FreeInodes == Inodes \ {disk[p].inode : p \in {q \in Paths : Exists(q)}}

\* A new file, directory, or file renamed over an old one.
Put(p) ==
  /\ Tick
  /\ p # Root
  /\ Exists(Parent[p])
  /\ Exists(p) => p \notin Dirs
  /\ \E i \in FreeInodes :
       disk' = Relink(disk, p, [mtime |-> clock, inode |-> i, mode |-> "open"])

\* A file that is written where it is.
WriteInPlace(p) ==
  /\ Tick
  /\ Exists(p) /\ p \notin Dirs
  /\ disk' = [disk EXCEPT ![p] = Now(@)]

Unlink(p) ==
  /\ Tick
  /\ Exists(p)
  /\ \A q \in Paths \ {Root} : Parent[q] = p => ~Exists(q)
  /\ disk' = Relink(disk, p, Absent)

\* A file at q is replaced.
RenameTo(p, q) ==
  /\ Tick
  /\ {p, q} \cap Dirs = {} /\ p # q
  /\ Exists(p) /\ Exists(Parent[q])
  /\ disk' = Relink(Relink(disk, q, disk[p]), p, Absent)

ChangeMode(p) ==
  /\ Tick
  /\ Exists(p)
  /\ disk' = [disk EXCEPT ![p].mode = IF @ = "open" THEN "closed" ELSE "open"]

FileSystem ==
  \/ \E p \in Paths : Put(p) \/ WriteInPlace(p) \/ Unlink(p) \/ ChangeMode(p)
  \/ \E p, q \in Paths : RenameTo(p, q)

Poller == Walk \/ SendError \/ Forward \/ CycleDone \/ Save \/ Wake
Diff == DiffBegin \/ (\E e \in pending : DiffSend(e)) \/ DiffEnd

Next == Start \/ Close \/ CloseReceived \/ Poller \/ Diff \/ Handled \/ FileSystem

Spec == Init /\ [][Next]_vars

\* Goroutines that can run do; a waiter for the mutex gets it, and a select
\* does not pass over the same ready channel for ever.
FairSpec ==
  /\ Spec
  /\ WF_vars(Start) /\ WF_vars(Handled)
  /\ SF_vars(Poller) /\ SF_vars(Diff)
  /\ SF_vars(CloseReceived)

-----------------------------------------------------------------------------
(* Properties *)

\* Every variable keeps the shape its declaration gives it.
TypeOK ==
  /\ disk \in Listing /\ clock \in 1 .. MaxTime
  /\ life \in {"up", "exited", "panicked"}
  /\ mu \in {"free", "poller", "diff"}
  /\ running \in BOOLEAN /\ watched \in BOOLEAN /\ files \in Listing
  /\ wg \in {0, 1}
  /\ poller \in {"unstarted", "list", "walk", "fail", "select", "forward", "save", "sleep", "returned"}
  /\ todo \subseteq {"lstat", "names"} \X Paths /\ fileList \in Listing /\ numEvents \in Nat
  /\ event \in Event
  /\ diff \in {"none", "spawned", "sending", "cancelled", "done"}
  /\ pending \subseteq Event /\ leaked \in Nat
  /\ consumer \in {"ready", "busy"} /\ caller \in {"idle", "closing"}
  /\ starts \in 0 .. MaxStarts
  /\ delivered \subseteq Event /\ seen \in [Paths -> 0 .. MaxTime]

Kept == {c \in Changes : Ops = {} \/ c.op \in Ops}

\* When a cycle of a running watcher replaces the list of files, the consumer
\* has received what the filter keeps of the differences between the two lists:
\* all of it, or, under a limit, some of it and no more than the limit.
NoChangeLost ==
  life = "up" /\ poller = "save" /\ running =>
    /\ delivered \subseteq Kept
    /\ MaxEvents = 0 => delivered = Kept
    /\ MaxEvents > 0 => Cardinality(delivered) <= MaxEvents

\* The lists pollEvents compares stay as they are until it has sent its last
\* event: the mutex keeps Close and the next cycle away.
PendingIsCurrent == diff = "sending" => pending \subseteq Changes

\* While pollEvents holds the mutex with events left to send, the goroutine that
\* receives them comes back for them: it never waits for that mutex itself, and
\* neither an event too many nor Close makes it leave the sender behind.
SenderHasReceiver ==
  life = "up" /\ mu = "diff" /\ pending # {} => poller \in {"select", "forward"}

\* A directory or file that was known and changes is reported, or goes away.
ChangeIsReported ==
  \A p \in Paths :
    (/\ life = "up" /\ Exists(p) /\ files[p] # Absent
     /\ disk[p].mtime # files[p].mtime)
    ~> (life # "up" \/ ~Exists(p) \/ files[p] = Absent \/ seen[p] = disk[p].mtime)

\* A call of Close returns while the consumer goes on receiving.
CloseReturns == caller = "closing" ~> (caller = "idle" \/ life # "up")

\* A cycle compares what it has listed, until the list replaces the old one.
Comparing == poller \in {"select", "forward", "save"}

\* What ChangeFeed sees of a state: where the watcher is in its life, the list
\* that is compared, and the Write events of the cycle the consumer received.
FeedState == IF life # "up" THEN "ended" ELSE IF watched THEN "open" ELSE "closed"
FeedFound == IF Comparing THEN fileList ELSE <<>>
FeedTold == IF Comparing THEN {e.path : e \in {x \in delivered : x.op = "Write"}} ELSE {}

Feed ==
  INSTANCE ChangeFeed WITH
    Lists <- Listing,
    NoList <- <<>>,
    Complete <- MaxEvents = 0 /\ (Ops = {} \/ "Write" \in Ops),
    state <- FeedState,
    known <- files,
    found <- FeedFound,
    told <- FeedTold

\* Each list of a watcher that is not closed is compared with the one accepted
\* before it, which nothing else replaces, and is accepted itself only when
\* the consumer knows of every path modified in between.
ImplementsChangeFeed == Feed!Spec

=============================================================================
