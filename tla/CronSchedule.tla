----------------------------- MODULE CronSchedule -----------------------------
(***************************************************************************)
(* What the operator promises at every moment, whatever it is in the       *)
(* middle of: a line gets a job because somebody read it in its owner's    *)
(* file, and loses its last job because somebody did not find it there.    *)
(* Readers act on what they read for as long as they keep it; a file that  *)
(* cannot be read looks empty.  CronJobController implements this module.  *)
(***************************************************************************)
CONSTANTS
  Users, Ids, Readers,
  NoView,   \* what a reader that has read nothing keeps
  Losable   \* somebody else deletes jobs, too

VARIABLES
  lines,      \* per user, the lines of the file
  readable,   \* per user, whether the file can be read
  scheduled,  \* the pairs of user and line that have a job
  views       \* per reader, the user and the lines it has read

fileVars == <<lines, readable>>
vars == <<fileVars, scheduled, views>>

Init ==
  /\ lines \in [Users -> SUBSET Ids]
  /\ readable = [u \in Users |-> TRUE]
  /\ scheduled = {}
  /\ views = [r \in Readers |-> NoView]

\* Users change their files and the access to them at any time.
Change ==
  /\ lines' \in [Users -> SUBSET Ids]
  /\ readable' \in [Users -> BOOLEAN]
  /\ UNCHANGED <<scheduled, views>>

Look(r, u) ==
  /\ views[r] = NoView
  /\ views' = [views EXCEPT ![r] = <<u, IF readable[u] THEN lines[u] ELSE {}>>]
  /\ UNCHANGED <<fileVars, scheduled>>

Schedule(r, i) ==
  /\ views[r] # NoView
  /\ i \in views[r][2]
  /\ scheduled' = scheduled \cup {<<views[r][1], i>>}
  /\ UNCHANGED <<fileVars, views>>

Unschedule(r, i) ==
  /\ views[r] # NoView
  /\ i \notin views[r][2]
  /\ scheduled' = scheduled \ {<<views[r][1], i>>}
  /\ UNCHANGED <<fileVars, views>>

Forget(r) ==
  /\ views' = [views EXCEPT ![r] = NoView]
  /\ UNCHANGED <<fileVars, scheduled>>

\* The process ends, and with it all that was read.
End ==
  /\ views' = [r \in Readers |-> NoView]
  /\ UNCHANGED <<fileVars, scheduled>>

Lose(u, i) ==
  /\ Losable
  /\ scheduled' = scheduled \ {<<u, i>>}
  /\ UNCHANGED <<fileVars, views>>

Next ==
  \/ Change
  \/ \E r \in Readers, u \in Users : Look(r, u)
  \/ \E r \in Readers, i \in Ids : Schedule(r, i) \/ Unschedule(r, i)
  \/ \E r \in Readers : Forget(r)
  \/ End
  \/ \E u \in Users, i \in Ids : Lose(u, i)

Spec == Init /\ [][Next]_vars
=============================================================================
