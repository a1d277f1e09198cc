------------------------------ MODULE ChangeFeed ------------------------------
(***************************************************************************)
(* What the polling watcher promises the one that receives its events: the *)
(* tree is listed again and again, each list is compared with the one that *)
(* was accepted before, and the next list becomes the known one only when  *)
(* the consumer has been told what was modified between the two.  Close    *)
(* ends the promise, and the lists of two processes are never compared.    *)
(* FileWatcher implements this module, and CronOperator with restarts.     *)
(***************************************************************************)
CONSTANTS
  Paths,
  Lists,     \* what listing the tree may find
  Absent,    \* the entry of a path that is not there
  NoList,    \* what was found while nothing is compared
  Complete   \* all modifications are told: no limit, no filter that drops them

VARIABLES
  state,  \* "open", "closed" by Close, or the process has "ended"
  known,  \* the list accepted last
  found,  \* the list it is compared with
  told    \* the modified paths the consumer was told of in this comparison

vars == <<state, known, found, told>>

\* What is in both lists with different modification times.
Modified ==
  {p \in Paths : known[p] # Absent /\ found[p] # Absent /\ known[p].mtime # found[p].mtime}

Init ==
  /\ state = "open"
  /\ known \in Lists
  /\ found = NoList /\ told = {}

Look ==
  /\ state # "ended"
  /\ found = NoList
  /\ found' \in Lists
  /\ UNCHANGED <<state, known, told>>

\* What is on its way when Close clears the list is still told.
Tell(p) ==
  /\ state # "ended"
  /\ found # NoList
  /\ IF state = "open" THEN p \in Modified ELSE found[p] # Absent
  /\ told' = told \cup {p}
  /\ UNCHANGED <<state, known, found>>

Accept ==
  /\ state # "ended"
  /\ found # NoList
  /\ state = "open" => told \subseteq Modified /\ (Complete => told = Modified)
  /\ known' = found
  /\ found' = NoList /\ told' = {}
  /\ UNCHANGED state

\* The list is cleared, and a comparison goes on without it or is given up.
Close ==
  /\ state = "open"
  /\ state' = "closed"
  /\ known' = [p \in Paths |-> Absent]
  /\ UNCHANGED <<found, told>>

GiveUp ==
  /\ state = "closed"
  /\ found' = NoList /\ told' = {}
  /\ UNCHANGED <<state, known>>

End ==
  /\ state # "ended"
  /\ state' = "ended"
  /\ UNCHANGED <<known, found, told>>

\* Another process starts from a list of its own.
Begin ==
  /\ state = "ended"
  /\ state' = "open"
  /\ known' \in Lists
  /\ found' = NoList /\ told' = {}

Next ==
  \/ Look \/ Accept \/ Close \/ GiveUp \/ End \/ Begin
  \/ \E p \in Paths : Tell(p)

Spec == Init /\ [][Next]_vars
=============================================================================
