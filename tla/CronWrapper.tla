----------------------------- MODULE CronWrapper -----------------------------
(***************************************************************************)
(* The cron wrapper (src/cronwrapper/cmd/eric-odp-cronwrapper/server.go):  *)
(* each execution of a scheduled line is a pod that asks the ODP factory   *)
(* for one On Demand Pod, which runs the command, and repeats the request  *)
(* with a growing sleep until the ODP is ready or the sleep is too long.   *)
(*                                                                         *)
(* The factory is external and modelled by what api/client/odp-factory.yaml *)
(* promises: an ODP is created for an instance id it does not know, a known *)
(* one is reported as it is, an error is repeated until it expires.  The   *)
(* executions are those of one user; the pod of an execution is never      *)
(* restarted (RestartPolicyNever, BackoffLimit 0).                         *)
(***************************************************************************)
EXTENDS Integers

CONSTANTS
  Executions,     \* what the scheduled lines of the user start
  UniqueCronId,   \* UNIQUE_CRON_ID, which no deployment of the operator sets
  FirstSleep,     \* SLEEP_TIME
  MaxSleepTime,   \* MAX_SLEEP_TIME
  ClockTicks      \* two executions never start in the same nanosecond

ASSUME WrapperAssumption ==
  /\ FirstSleep \in Int
  /\ MaxSleepTime \in Int
  /\ ClockTicks \in BOOLEAN

Ended == {"ready", "gaveup", "failed"}
Stages == {"due", "request", "waiting", "sleep"} \cup Ended
Statuses == {"creating", "ready", "failed"}
Answers == {"none"} \cup Statuses

VARIABLES
  clock,      \* nanoseconds
  stage,      \* per execution, where requestODPFactoryForODP is
  instance,   \* uniquePodId
  sleepTime,
  slept,      \* history: the seconds spent in time.Sleep
  posts,      \* executions whose request is on its way to the factory
  answer,     \* the factory's answer on its way back
  odps        \* the On Demand Pods

vars == <<clock, stage, instance, sleepTime, slept, posts, answer, odps>>

Instances == {UniqueCronId} \X Nat
Odp == [id : Instances, command : Executions, status : Statuses]

\* Mutant of generateUniqueInstanceId: the time of day in seconds.
InstanceOfTheSecond(now) == <<UniqueCronId, 0>>

\* The md5 is taken as injective.
generateUniqueInstanceId(now) == <<UniqueCronId, now>>

Init ==
  /\ clock = 0
  /\ stage = [e \in Executions |-> "due"]
  /\ instance = [e \in Executions |-> generateUniqueInstanceId(0)]
  /\ sleepTime = [e \in Executions |-> FirstSleep]
  /\ slept = [e \in Executions |-> 0]
  /\ posts = {}
  /\ answer = [e \in Executions |-> "none"]
  /\ odps = {}

Goto(e, next) == stage' = [stage EXCEPT ![e] = next]

-----------------------------------------------------------------------------
(* requestODPFactoryForODP *)

\* The instance id is made once, before the loop.
Start(e) ==
  /\ stage[e] = "due"
  /\ Goto(e, "request")
  /\ instance' = [instance EXCEPT ![e] = generateUniqueInstanceId(clock)]
  /\ \E now \in {clock, clock + 1} : (ClockTicks => now > clock) /\ clock' = now
  /\ UNCHANGED <<sleepTime, slept, posts, answer, odps>>

\* Mutant of Post: every request gets an instance id of its own.
PostAnew(e) ==
  /\ stage[e] = "request"
  /\ Goto(e, "waiting")
  /\ posts' = posts \cup {e}
  /\ instance' = [instance EXCEPT ![e] = generateUniqueInstanceId(clock)]
  /\ clock' = clock + 1
  /\ UNCHANGED <<sleepTime, slept, answer, odps>>

\* Every request of an execution is the same.
Post(e) ==
  /\ stage[e] = "request"
  /\ Goto(e, "waiting")
  /\ posts' = posts \cup {e}
  /\ UNCHANGED <<clock, instance, sleepTime, slept, answer, odps>>

\* log.Fatal: the connection fails or the answer cannot be read.  The factory
\* may have got the request, or get it later.
LoseAnswer(e) ==
  /\ stage[e] = "waiting"
  /\ Goto(e, "failed")
  /\ posts' \in {posts, posts \ {e}}
  /\ answer' = [answer EXCEPT ![e] = "none"]
  /\ UNCHANGED <<clock, instance, sleepTime, slept, odps>>

\* An error ends the process, readiness the loop; everything else means that
\* the ODP is still being created.
Receive(e) ==
  /\ stage[e] = "waiting"
  /\ answer[e] # "none"
  /\ Goto(e, CASE answer[e] = "failed" -> "failed"
               [] answer[e] = "ready" -> "ready"
               [] answer[e] = "creating" -> "sleep")
  /\ answer' = [answer EXCEPT ![e] = "none"]
  /\ UNCHANGED <<clock, instance, sleepTime, slept, posts, odps>>

\* A negative time.Sleep returns at once.
Pass(e) == slept' = [slept EXCEPT ![e] = IF sleepTime[e] > 0 THEN @ + sleepTime[e] ELSE @]

\* Mutants of Sleep: the limit is tested on the next sleep; the sleep stays as
\* long as the first one; it grows past the limit.
SleepLess(e) ==
  /\ stage[e] = "sleep"
  /\ Pass(e)
  /\ sleepTime' = [sleepTime EXCEPT ![e] = @ + 2]
  /\ Goto(e, IF sleepTime'[e] <= MaxSleepTime THEN "request" ELSE "gaveup")
  /\ UNCHANGED <<clock, instance, posts, answer, odps>>
SleepSteadily(e) ==
  /\ stage[e] = "sleep"
  /\ slept' = slept
  /\ Goto(e, IF sleepTime[e] <= MaxSleepTime THEN "request" ELSE "gaveup")
  /\ UNCHANGED <<clock, instance, sleepTime, posts, answer, odps>>
SleepOnceMore(e) ==
  /\ stage[e] = "sleep"
  /\ Pass(e)
  /\ sleepTime' = [sleepTime EXCEPT ![e] = @ + 2]
  /\ Goto(e, IF sleepTime[e] <= MaxSleepTime THEN "request" ELSE "gaveup")
  /\ UNCHANGED <<clock, instance, posts, answer, odps>>

\* The sleep grows while it is within the limit; one that was not is the last.
Sleep(e) ==
  /\ stage[e] = "sleep"
  /\ Pass(e)
  /\ IF sleepTime[e] <= MaxSleepTime
     THEN sleepTime' = [sleepTime EXCEPT ![e] = @ + 2] /\ Goto(e, "request")
     ELSE Goto(e, "gaveup") /\ UNCHANGED sleepTime
  /\ UNCHANGED <<clock, instance, posts, answer, odps>>

\* The process ends in between: log.Fatal of the goroutine that serves the
\* metrics or watches the log configuration, or the pod is evicted.
Die(e) ==
  /\ stage[e] \notin {"due"} \cup Ended
  /\ Goto(e, "failed")
  /\ answer' = [answer EXCEPT ![e] = "none"]
  /\ UNCHANGED <<clock, instance, sleepTime, slept, posts, odps>>

-----------------------------------------------------------------------------
(* The factory *)

\* Nobody waits for the answer to a process that has ended.
Reply(e, status) ==
  answer' = IF stage[e] = "waiting" THEN [answer EXCEPT ![e] = status] ELSE answer

Known(e) == {o \in odps : o.id = instance[e]}

\* A new ODP, or an attempt that fails at once, ...
CreateOdp(e, status) ==
  /\ Known(e) = {}
  /\ odps' = odps \cup {[id |-> instance[e], command |-> e, status |-> status]}
  /\ Reply(e, status)

\* ... or the one of an earlier request with the same id.
ReportOdp(e) ==
  /\ \E o \in Known(e) : Reply(e, o.status)
  /\ UNCHANGED odps

Handle(e) ==
  /\ e \in posts
  /\ posts' = posts \ {e}
  /\ (\E status \in {"creating", "failed"} : CreateOdp(e, status)) \/ ReportOdp(e)
  /\ UNCHANGED <<clock, stage, instance, sleepTime, slept>>

\* The creation ends, whether or not anybody asks; a ready ODP runs its command.
Settle(o, status) ==
  /\ o.status = "creating"
  /\ odps' = (odps \ {o}) \cup {[o EXCEPT !.status = status]}
  /\ UNCHANGED <<clock, stage, instance, sleepTime, slept, posts, answer>>

ExpireError(o) ==
  /\ o.status = "failed"
  /\ odps' = odps \ {o}
  /\ UNCHANGED <<clock, stage, instance, sleepTime, slept, posts, answer>>

Wrapper(e) == Post(e) \/ LoseAnswer(e) \/ Receive(e) \/ Sleep(e)

Next ==
  \/ \E e \in Executions : Start(e) \/ Wrapper(e) \/ Die(e) \/ Handle(e)
  \/ \E o \in odps : Settle(o, "ready") \/ Settle(o, "failed") \/ ExpireError(o)

Spec == Init /\ [][Next]_vars

\* A process that has started runs, and the factory answers.  When executions
\* start and whether ODPs settle is up to others.
Fairness ==
  \A e \in Executions : WF_vars(Wrapper(e)) /\ WF_vars(Handle(e))

FairSpec == Spec /\ Fairness

-----------------------------------------------------------------------------
(* Properties *)

LongestSleep == IF FirstSleep > MaxSleepTime THEN FirstSleep ELSE MaxSleepTime + 2

\* Every variable keeps its type, and no sleep is longer than the limit by
\* more than the two seconds of one step.
TypeOK ==
  /\ clock \in Nat
  /\ stage \in [Executions -> Stages]
  /\ instance \in [Executions -> Instances]
  /\ sleepTime \in [Executions -> FirstSleep .. LongestSleep]
  /\ slept \in [Executions -> Nat]
  /\ posts \subseteq Executions
  /\ answer \in [Executions -> Answers]
  /\ odps \subseteq Odp

\* However often an execution repeats its request, and whatever becomes of the
\* requests and answers, there is never more than one ODP for it.
OneOdpPerExecution ==
  \A o, p \in odps : o.command = p.command => o = p

\* An execution that ends because its ODP is ready has one that runs its own command,
\* not the one of another execution, past or overlapping.
SuccessRunsTheCommand ==
  \A e \in Executions : stage[e] = "ready" =>
    \E o \in odps : o.command = e /\ o.status = "ready"

\* An execution is given up only after it has slept longer than the maximum.
GivesUpAfterMaxSleep ==
  \A e \in Executions : stage[e] = "gaveup" => slept[e] > MaxSleepTime

\* Every execution that starts ends, even if its ODP never settles.
EveryStartEnds ==
  \A e \in Executions : stage[e] # "due" ~> stage[e] \in Ended

\* What CronExecution sees of an execution.
Outcome(e) ==
  CASE stage[e] = "due" -> "due"
    [] stage[e] \in {"request", "waiting", "sleep"} -> "running"
    [] stage[e] = "ready" -> "succeeded"
    [] stage[e] = "gaveup" -> "givenup"
    [] stage[e] = "failed" -> "failed"

Execution ==
  INSTANCE CronExecution WITH
    outcome <- [e \in Executions |-> Outcome(e)],
    asked <- posts,
    pods <- odps

\* Whatever is repeated and lost, an execution asks for one ODP at a time while
\* it runs, never gets a second one, and succeeds only once its own is ready,
\* which it then stays.
ImplementsCronExecution == Execution!Spec

=============================================================================
