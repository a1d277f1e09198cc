----------------------------- MODULE CronExecution -----------------------------
(***************************************************************************)
(* What the cron wrapper and the ODP factory promise about the executions  *)
(* of scheduled lines: an execution asks for an On Demand Pod, one request *)
(* at a time and for as long as it runs; a request makes at most one pod,  *)
(* and none for an execution that has one; a pod that became ready stays;  *)
(* and an execution succeeds when its own pod is ready.                    *)
(***************************************************************************)
CONSTANT Executions

VARIABLES
  outcome,  \* per execution: "due", "running", "succeeded", "givenup" or "failed"
  asked,    \* the executions with a request that was not handled
  pods      \* the On Demand Pods, each with the execution it was made for

vars == <<outcome, asked, pods>>

PodsOf(e) == {p \in pods : p.command = e}

Init ==
  /\ outcome = [e \in Executions |-> "due"]
  /\ asked = {}
  /\ pods = {}

Become(e, next) == outcome' = [outcome EXCEPT ![e] = next]

Start(e) ==
  /\ outcome[e] = "due"
  /\ Become(e, "running")
  /\ UNCHANGED <<asked, pods>>

Ask(e) ==
  /\ outcome[e] = "running"
  /\ e \notin asked
  /\ asked' = asked \cup {e}
  /\ UNCHANGED <<outcome, pods>>

Create(e) ==
  /\ e \in asked
  /\ asked' = asked \ {e}
  /\ PodsOf(e) = {}
  /\ \E p \in pods' :
       p.command = e /\ p.status \in {"creating", "failed"} /\ pods' = pods \cup {p}
  /\ UNCHANGED outcome

\* A request repeated finds the pod of an earlier one.
Report(e) ==
  /\ e \in asked
  /\ asked' = asked \ {e}
  /\ PodsOf(e) # {}
  /\ UNCHANGED <<outcome, pods>>

Settle(p) ==
  /\ p.status = "creating"
  /\ \E status \in {"ready", "failed"} :
       pods' = (pods \ {p}) \cup {[p EXCEPT !.status = status]}
  /\ UNCHANGED <<outcome, asked>>

Expire(p) ==
  /\ p.status = "failed"
  /\ pods' = pods \ {p}
  /\ UNCHANGED <<outcome, asked>>

Succeed(e) ==
  /\ outcome[e] = "running" /\ e \notin asked
  /\ \E p \in PodsOf(e) : p.status = "ready"
  /\ Become(e, "succeeded")
  /\ UNCHANGED <<asked, pods>>

\* Only after the answer to the last request.
GiveUp(e) ==
  /\ outcome[e] = "running" /\ e \notin asked
  /\ Become(e, "givenup")
  /\ UNCHANGED <<asked, pods>>

\* The last request is lost or not: its pod may come when nobody waits for it.
Fail(e) ==
  /\ outcome[e] = "running"
  /\ Become(e, "failed")
  /\ asked' \in {asked, asked \ {e}}
  /\ UNCHANGED pods

Next ==
  \/ \E e \in Executions :
       \/ Start(e) \/ Ask(e) \/ Create(e) \/ Report(e)
       \/ Succeed(e) \/ GiveUp(e) \/ Fail(e)
  \/ \E p \in pods : Settle(p) \/ Expire(p)

Spec == Init /\ [][Next]_vars
=============================================================================
