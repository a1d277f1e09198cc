-------------------------- MODULE CronWrapperProofs --------------------------
(* Theorems about CronWrapper, for every value of its constants. *)
EXTENDS CronWrapper, TLAPS

\* A sleep that is within the limit may grow by one step.
LEMMA NextSleep ==
  ASSUME NEW s \in FirstSleep .. LongestSleep, s <= MaxSleepTime
  PROVE  s + 2 \in FirstSleep .. LongestSleep
  BY WrapperAssumption DEF LongestSleep

LEMMA InstancesType ==
  ASSUME NEW now \in Nat
  PROVE  generateUniqueInstanceId(now) \in Instances
  BY DEF generateUniqueInstanceId, Instances

LEMMA InitType == Init => TypeOK
  <1>1. FirstSleep \in FirstSleep .. LongestSleep
    BY WrapperAssumption DEF LongestSleep
  <1>2. generateUniqueInstanceId(0) \in Instances
    BY InstancesType
  <1>3. QED
    BY <1>1, <1>2 DEF Init, TypeOK, Stages, Answers

\* The steps of an execution.
LEMMA ExecutionType ==
  ASSUME TypeOK, NEW e \in Executions, Start(e) \/ Wrapper(e) \/ Die(e)
  PROVE  TypeOK'
  <1>1. CASE Start(e)
    <2>1. generateUniqueInstanceId(clock) \in Instances
      BY InstancesType DEF TypeOK
    <2>2. QED
      BY <1>1, <2>1 DEF Start, Goto, TypeOK, Stages
  <1>2. CASE Post(e)
    BY <1>2 DEF Post, Goto, TypeOK, Stages
  <1>3. CASE LoseAnswer(e)
    BY <1>3 DEF LoseAnswer, Goto, TypeOK, Stages, Ended, Answers
  <1>4. CASE Receive(e)
    <2>1. answer[e] \in {"failed", "ready", "creating"}
      BY <1>4 DEF Receive, TypeOK, Answers, Statuses
    <2>2. stage' \in [Executions -> Stages]
      BY <1>4, <2>1 DEF Receive, Goto, TypeOK, Stages, Ended
    <2>3. QED
      BY <1>4, <2>2 DEF Receive, TypeOK, Answers
  <1>5. CASE Sleep(e)
    <2>1. sleepTime' \in [Executions -> FirstSleep .. LongestSleep]
      <3>1. sleepTime[e] \in FirstSleep .. LongestSleep
        BY DEF TypeOK
      <3>2. sleepTime[e] <= MaxSleepTime => sleepTime[e] + 2 \in FirstSleep .. LongestSleep
        BY <3>1, NextSleep
      <3>3. QED
        BY <1>5, <3>2 DEF Sleep, TypeOK
    <2>2. slept' \in [Executions -> Nat]
      <3>1. sleepTime[e] \in Int /\ slept[e] \in Nat
        BY WrapperAssumption DEF TypeOK
      <3>2. (IF sleepTime[e] > 0 THEN slept[e] + sleepTime[e] ELSE slept[e]) \in Nat
        BY <3>1
      <3>3. QED
        BY <1>5, <3>2 DEF Sleep, Pass, TypeOK
    <2>3. stage' \in [Executions -> Stages]
      BY <1>5 DEF Sleep, Goto, TypeOK, Stages, Ended
    <2>4. QED
      BY <1>5, <2>1, <2>2, <2>3 DEF Sleep, TypeOK
  <1>6. CASE Die(e)
    BY <1>6 DEF Die, Goto, TypeOK, Stages, Ended, Answers
  <1>7. QED
    BY <1>1, <1>2, <1>3, <1>4, <1>5, <1>6 DEF Wrapper

\* A new ODP has a type; so has one that settles.
LEMMA OdpType ==
  ASSUME TypeOK
  PROVE  /\ \A e \in Executions, status \in Statuses :
              [id |-> instance[e], command |-> e, status |-> status] \in Odp
         /\ \A o \in odps, status \in Statuses : [o EXCEPT !.status = status] \in Odp
  BY DEF TypeOK, Odp

LEMMA ReplyType ==
  ASSUME TypeOK, NEW e \in Executions, NEW status \in Statuses, Reply(e, status)
  PROVE  answer' \in [Executions -> Answers]
  BY DEF TypeOK, Reply, Answers

\* The steps of the factory.
LEMMA FactoryType ==
  ASSUME TypeOK,
         \/ \E e \in Executions : Handle(e)
         \/ \E o \in odps : Settle(o, "ready") \/ Settle(o, "failed") \/ ExpireError(o)
  PROVE  TypeOK'
  <1>1. ASSUME NEW e \in Executions, Handle(e)
        PROVE  TypeOK'
    <2>1. /\ odps' \subseteq Odp
          /\ answer' \in [Executions -> Answers]
      <3>1. ASSUME NEW status \in {"creating", "failed"}, CreateOdp(e, status)
            PROVE  odps' \subseteq Odp /\ answer' \in [Executions -> Answers]
        <4>1. status \in Statuses
          BY DEF Statuses
        <4>2. odps' \subseteq Odp
          BY <3>1, <4>1, OdpType DEF CreateOdp, TypeOK
        <4>3. answer' \in [Executions -> Answers]
          BY <3>1, <4>1, ReplyType DEF CreateOdp
        <4>4. QED
          BY <4>2, <4>3
      <3>2. ASSUME ReportOdp(e)
            PROVE  odps' \subseteq Odp /\ answer' \in [Executions -> Answers]
        <4>1. PICK o \in Known(e) : Reply(e, o.status)
          BY <3>2 DEF ReportOdp
        <4>2. o.status \in Statuses
          BY <4>1 DEF Known, TypeOK, Odp
        <4>3. answer' \in [Executions -> Answers]
          BY <4>1, <4>2, ReplyType
        <4>4. QED
          BY <3>2, <4>3 DEF ReportOdp, TypeOK
      <3>3. QED
        BY <1>1, <3>1, <3>2 DEF Handle
    <2>2. QED
      BY <1>1, <2>1 DEF Handle, TypeOK
  <1>2. ASSUME NEW o \in odps, NEW status \in Statuses, Settle(o, status)
        PROVE  TypeOK'
    BY <1>2, OdpType DEF Settle, TypeOK
  <1>3. ASSUME NEW o \in odps, ExpireError(o)
        PROVE  TypeOK'
    BY <1>3 DEF ExpireError, TypeOK
  <1>4. QED
    BY <1>1, <1>2, <1>3 DEF Statuses

LEMMA StutterType == TypeOK /\ UNCHANGED vars => TypeOK'
  BY DEF TypeOK, vars

\* Every variable keeps its type, and no sleep exceeds the limit by more than
\* one step.
THEOREM TypeCorrect == Spec => []TypeOK
  <1>1. Init => TypeOK
    BY InitType
  <1>2. TypeOK /\ [Next]_vars => TypeOK'
    BY ExecutionType, FactoryType, StutterType DEF Next
  <1>3. QED
    BY <1>1, <1>2, PTL DEF Spec

-----------------------------------------------------------------------------
(* Giving up *)

LEMMA GiveUpStep ==
  ASSUME TypeOK, GivesUpAfterMaxSleep, [Next]_vars
  PROVE  GivesUpAfterMaxSleep'
  <1>1. ASSUME NEW e \in Executions, Sleep(e)
        PROVE  GivesUpAfterMaxSleep'
    <2>1. sleepTime[e] \in Int /\ slept[e] \in Nat
      BY WrapperAssumption DEF TypeOK
    <2>2. stage'[e] = "gaveup" => slept'[e] > MaxSleepTime
      BY <1>1, <2>1, WrapperAssumption DEF Sleep, Pass, Goto, TypeOK
    <2>3. \A f \in Executions \ {e} : stage'[f] = stage[f] /\ slept'[f] = slept[f]
      BY <1>1 DEF Sleep, Pass, Goto, TypeOK
    <2>4. QED
      BY <2>2, <2>3 DEF GivesUpAfterMaxSleep
  <1>2. ASSUME slept' = slept,
               \A e \in Executions : stage'[e] = "gaveup" => stage[e] = "gaveup"
        PROVE  GivesUpAfterMaxSleep'
    BY <1>2 DEF GivesUpAfterMaxSleep
  <1>3. ASSUME NEW e \in Executions,
               Start(e) \/ Post(e) \/ LoseAnswer(e) \/ Receive(e) \/ Die(e)
        PROVE  GivesUpAfterMaxSleep'
    <2>1. \A f \in Executions : stage'[f] = "gaveup" => stage[f] = "gaveup"
      <3>1. CASE Receive(e)
        <4>1. answer[e] \in {"failed", "ready", "creating"}
          BY <3>1 DEF Receive, TypeOK, Answers, Statuses
        <4>2. QED
          BY <3>1, <4>1 DEF Receive, Goto, TypeOK
      <3>2. CASE ~Receive(e)
        BY <1>3, <3>2 DEF Start, Post, LoseAnswer, Die, Goto, TypeOK
      <3>3. QED
        BY <3>1, <3>2
    <2>2. slept' = slept
      BY <1>3 DEF Start, Post, LoseAnswer, Receive, Die
    <2>3. QED
      BY <1>2, <2>1, <2>2
  <1>4. ASSUME NEW e \in Executions, Handle(e)
        PROVE  GivesUpAfterMaxSleep'
    BY <1>4, <1>2 DEF Handle
  <1>5. ASSUME NEW o \in odps, Settle(o, "ready") \/ Settle(o, "failed") \/ ExpireError(o)
        PROVE  GivesUpAfterMaxSleep'
    BY <1>5, <1>2 DEF Settle, ExpireError
  <1>6. CASE UNCHANGED vars
    BY <1>6, <1>2 DEF vars
  <1>7. QED
    BY <1>1, <1>3, <1>4, <1>5, <1>6 DEF Next, Wrapper

\* An execution is given up only after it has slept longer than the maximum,
\* whatever the first sleep and the maximum are.
THEOREM GivenUpLate == Spec => []GivesUpAfterMaxSleep
  <1>1. Init => GivesUpAfterMaxSleep
    BY DEF Init, GivesUpAfterMaxSleep
  <1>2. QED
    BY <1>1, GiveUpStep, TypeCorrect, PTL DEF Spec

-----------------------------------------------------------------------------
(* Requests and On Demand Pods *)

Started(e) == stage[e] # "due"

\* What is asked for belongs to an execution that has started, under the id it
\* keeps; so an id of an ODP is one of the executions'.
OdpsAreAskedFor ==
  /\ \A e \in posts : Started(e)
  /\ \A o \in odps : Started(o.command) /\ o.id = instance[o.command]

RequestInv == TypeOK /\ OdpsAreAskedFor /\ OneOdpPerExecution

\* A started execution stays one, and keeps its id.
LEMMA StartedStays ==
  ASSUME TypeOK, [Next]_vars, NEW e \in Executions, Started(e)
  PROVE  Started(e)' /\ instance'[e] = instance[e]
  <1>1. ASSUME NEW f \in Executions, Start(f)
        PROVE  Started(e)' /\ instance'[e] = instance[e]
    BY <1>1 DEF Start, Started, Goto, TypeOK
  <1>2. ASSUME NEW f \in Executions, Wrapper(f) \/ Die(f)
        PROVE  Started(e)' /\ instance'[e] = instance[e]
    <2>1. CASE Receive(f)
      <3>1. answer[f] \in {"failed", "ready", "creating"}
        BY <2>1 DEF Receive, TypeOK, Answers, Statuses
      <3>2. QED
        BY <2>1, <3>1 DEF Receive, Started, Goto, TypeOK
    <2>2. CASE ~Receive(f)
      BY <1>2, <2>2 DEF Wrapper, Post, LoseAnswer, Sleep, Die, Started, Goto, TypeOK
    <2>3. QED
      BY <2>1, <2>2
  <1>3. CASE stage' = stage /\ instance' = instance
    BY <1>3 DEF Started
  <1>4. QED
    BY <1>1, <1>2, <1>3 DEF Next, Handle, Settle, ExpireError, vars

\* Only the factory changes the ODPs, and only an execution posts.
LEMMA RequestStep ==
  ASSUME RequestInv, [Next]_vars
  PROVE  OdpsAreAskedFor' /\ OneOdpPerExecution'
  <1>1. \A e \in Executions : Started(e) => Started(e)' /\ instance'[e] = instance[e]
    BY StartedStays DEF RequestInv
  <1>2. ASSUME odps' = odps, posts' \subseteq posts
        PROVE  OdpsAreAskedFor' /\ OneOdpPerExecution'
    <2>1. \A o \in odps : o.command \in Executions
      BY DEF RequestInv, TypeOK, Odp
    <2>2. posts \subseteq Executions
      BY DEF RequestInv, TypeOK
    <2>3. QED
      BY <1>1, <1>2, <2>1, <2>2 DEF RequestInv, OdpsAreAskedFor, OneOdpPerExecution
  <1>3. ASSUME NEW e \in Executions, Post(e)
        PROVE  OdpsAreAskedFor' /\ OneOdpPerExecution'
    <2>1. \A o \in odps : o.command \in Executions
      BY DEF RequestInv, TypeOK, Odp
    <2>2. Started(e)
      BY <1>3 DEF Post, Started
    <2>3. posts \subseteq Executions
      BY DEF RequestInv, TypeOK
    <2>4. odps' = odps /\ posts' = posts \cup {e}
      BY <1>3 DEF Post
    <2>5. QED
      BY <1>1, <2>1, <2>2, <2>3, <2>4 DEF RequestInv, OdpsAreAskedFor, OneOdpPerExecution
  <1>4. ASSUME NEW e \in Executions, NEW status \in Statuses, e \in posts, CreateOdp(e, status),
               posts' \subseteq posts
        PROVE  OdpsAreAskedFor' /\ OneOdpPerExecution'
    <2>1. \A o \in odps : o.command \in Executions
      BY DEF RequestInv, TypeOK, Odp
    <2>2. Started(e) /\ posts \subseteq Executions
      BY <1>4 DEF RequestInv, OdpsAreAskedFor, TypeOK
    <2>3. \A o \in odps : o.command # e
      BY <1>4 DEF RequestInv, OdpsAreAskedFor, CreateOdp, Known
    <2> DEFINE new == [id |-> instance[e], command |-> e, status |-> status]
    <2>4. odps' = odps \cup {new} /\ new.command = e /\ new.id = instance[e]
      BY <1>4 DEF CreateOdp
    <2> HIDE DEF new
    <2>5. OdpsAreAskedFor'
      BY <1>1, <1>4, <2>1, <2>2, <2>4 DEF RequestInv, OdpsAreAskedFor
    <2>6. OneOdpPerExecution'
      BY <2>3, <2>4 DEF RequestInv, OneOdpPerExecution
    <2>7. QED
      BY <2>5, <2>6
  <1>5. ASSUME NEW e \in Executions, Handle(e)
        PROVE  OdpsAreAskedFor' /\ OneOdpPerExecution'
    BY <1>5, <1>2, <1>4 DEF Handle, ReportOdp, Statuses
  <1>6. ASSUME NEW o \in odps, NEW status \in Statuses, Settle(o, status)
        PROVE  OdpsAreAskedFor' /\ OneOdpPerExecution'
    <2>1. \A p \in odps : p.command \in Executions
      BY DEF RequestInv, TypeOK, Odp
    <2> DEFINE settled == [o EXCEPT !.status = status]
    <2>2. /\ odps' = (odps \ {o}) \cup {settled}
          /\ settled.command = o.command /\ settled.id = o.id
      <3>1. o \in Odp
        BY DEF RequestInv, TypeOK
      <3>2. settled.command = o.command /\ settled.id = o.id
        BY <3>1 DEF Odp
      <3>3. QED
        BY <1>6, <3>2 DEF Settle
    <2> HIDE DEF settled
    <2>3. stage' = stage /\ instance' = instance /\ posts' = posts
      BY <1>6 DEF Settle
    <2>4. OdpsAreAskedFor'
      BY <2>2, <2>3 DEF RequestInv, OdpsAreAskedFor, Started
    <2>5. OneOdpPerExecution'
      BY <2>2 DEF RequestInv, OneOdpPerExecution
    <2>6. QED
      BY <2>4, <2>5
  <1>7. ASSUME NEW o \in odps, ExpireError(o)
        PROVE  OdpsAreAskedFor' /\ OneOdpPerExecution'
    BY <1>7 DEF ExpireError, RequestInv, OdpsAreAskedFor, OneOdpPerExecution, Started
  <1>8. ASSUME NEW e \in Executions,
               Start(e) \/ LoseAnswer(e) \/ Receive(e) \/ Sleep(e) \/ Die(e)
        PROVE  OdpsAreAskedFor' /\ OneOdpPerExecution'
    <2>1. odps' = odps /\ posts' \subseteq posts
      BY <1>8 DEF Start, LoseAnswer, Receive, Sleep, Die
    <2>2. QED
      BY <1>2, <2>1
  <1>9. CASE UNCHANGED vars
    BY <1>9, <1>2 DEF vars
  <1>10. QED
    BY <1>3, <1>5, <1>6, <1>7, <1>8, <1>9 DEF Next, Wrapper, Statuses

THEOREM Requests == Spec => []RequestInv
  <1>1. Init => RequestInv
    BY InitType DEF Init, RequestInv, OdpsAreAskedFor, OneOdpPerExecution
  <1>2. RequestInv /\ [Next]_vars => RequestInv'
    BY RequestStep, ExecutionType, FactoryType, StutterType DEF RequestInv, Next
  <1>3. QED
    BY <1>1, <1>2, PTL DEF Spec

\* However often a request is repeated and whatever is lost, an execution has
\* at most one ODP, also when two executions share an id.
THEOREM AtMostOneOdp == Spec => []OneOdpPerExecution
  BY Requests, PTL DEF RequestInv

-----------------------------------------------------------------------------
(* Success, when no two executions start in the same nanosecond *)

\* The clock is past the id of every execution that has started.
IdsAreOld ==
  \A e \in Executions : Started(e) => instance[e][2] \in Nat /\ instance[e][2] < clock

\* Ids differ; where the clock may stand still they need not.
InstanceIdsAreUnique ==
  \A e, f \in Executions :
    e # f /\ stage[e] # "due" /\ stage[f] # "due" => instance[e] # instance[f]

\* Who was told that an ODP is ready has one.
ReadyInv ==
  \A e \in Executions : "ready" \in {stage[e], answer[e]} =>
    \E o \in odps : o.command = e /\ o.status = "ready"

SuccessInv == RequestInv /\ IdsAreOld /\ InstanceIdsAreUnique /\ ReadyInv

LEMMA IdsStep ==
  ASSUME ClockTicks, SuccessInv, [Next]_vars
  PROVE  IdsAreOld' /\ InstanceIdsAreUnique'
  <1>0. TypeOK
    BY DEF SuccessInv, RequestInv
  <1>1. ASSUME NEW e \in Executions, Start(e)
        PROVE  IdsAreOld' /\ InstanceIdsAreUnique'
    <2>1. /\ clock \in Nat /\ clock' \in Nat /\ clock' > clock
          /\ instance'[e] = <<UniqueCronId, clock>>
      BY <1>0, <1>1 DEF Start, TypeOK, generateUniqueInstanceId
    <2>2. \A f \in Executions \ {e} : stage'[f] = stage[f] /\ instance'[f] = instance[f]
      BY <1>0, <1>1 DEF Start, Goto, TypeOK
    <2>3. \A f \in Executions \ {e} : Started(f)' => instance'[f] # instance'[e]
      BY <2>1, <2>2 DEF SuccessInv, IdsAreOld, Started
    <2>4. IdsAreOld'
      BY <2>1, <2>2 DEF SuccessInv, IdsAreOld, Started
    <2>5. InstanceIdsAreUnique'
      BY <2>2, <2>3 DEF SuccessInv, InstanceIdsAreUnique, Started
    <2>6. QED
      BY <2>4, <2>5
  <1>2. ASSUME clock' = clock, instance' = instance,
               \A e \in Executions : Started(e)' => Started(e)
        PROVE  IdsAreOld' /\ InstanceIdsAreUnique'
    BY <1>2 DEF SuccessInv, IdsAreOld, InstanceIdsAreUnique, Started
  <1>3. ASSUME NEW e \in Executions, Wrapper(e) \/ Die(e)
        PROVE  IdsAreOld' /\ InstanceIdsAreUnique'
    <2>1. Started(e) /\ clock' = clock /\ instance' = instance
      BY <1>3 DEF Wrapper, Post, LoseAnswer, Receive, Sleep, Die, Started
    <2>2. \A f \in Executions \ {e} : stage'[f] = stage[f]
      BY <1>0, <1>3 DEF Wrapper, Post, LoseAnswer, Receive, Sleep, Die, Goto, TypeOK
    <2>3. QED
      BY <1>2, <2>1, <2>2 DEF Started
  <1>4. CASE clock' = clock /\ instance' = instance /\ stage' = stage
    BY <1>4, <1>2 DEF Started
  <1>5. QED
    BY <1>1, <1>3, <1>4 DEF Next, Handle, Settle, ExpireError, vars

\* A ready ODP stays.
LEMMA ReadyStays ==
  ASSUME SuccessInv, [Next]_vars, NEW o \in odps, o.status = "ready"
  PROVE  o \in odps'
  <1>1. ASSUME NEW e \in Executions, Start(e) \/ Wrapper(e) \/ Die(e) \/ Handle(e)
        PROVE  o \in odps'
    BY <1>1 DEF Start, Wrapper, Post, LoseAnswer, Receive, Sleep, Die, Handle, CreateOdp, ReportOdp
  <1>2. ASSUME NEW p \in odps, Settle(p, "ready") \/ Settle(p, "failed") \/ ExpireError(p)
        PROVE  o \in odps'
    BY <1>2 DEF Settle, ExpireError
  <1>3. QED
    BY <1>1, <1>2 DEF Next, vars

LEMMA ReadyStep ==
  ASSUME SuccessInv, [Next]_vars
  PROVE  ReadyInv'
  <1>0. TypeOK
    BY DEF SuccessInv, RequestInv
  <1>1. ASSUME \A e \in Executions :
                 "ready" \in {stage'[e], answer'[e]} => "ready" \in {stage[e], answer[e]}
        PROVE  ReadyInv'
    BY <1>1, ReadyStays DEF SuccessInv, ReadyInv
  <1>2. ASSUME NEW e \in Executions, Start(e) \/ Wrapper(e) \/ Die(e)
        PROVE  ReadyInv'
    <2>1. CASE Receive(e)
      <3>1. answer[e] \in {"failed", "ready", "creating"}
        BY <2>1, <1>0 DEF Receive, TypeOK, Answers, Statuses
      <3>2. stage'[e] = "ready" => answer[e] = "ready"
        BY <2>1, <1>0, <3>1 DEF Receive, Goto, TypeOK
      <3>3. answer'[e] = "none"
        BY <2>1, <1>0 DEF Receive, TypeOK
      <3>4. \A f \in Executions \ {e} : stage'[f] = stage[f] /\ answer'[f] = answer[f]
        BY <2>1, <1>0 DEF Receive, Goto, TypeOK
      <3>5. QED
        BY <1>1, <3>2, <3>3, <3>4
    <2>2. CASE ~Receive(e)
      <3>1. \A f \in Executions :
              "ready" \in {stage'[f], answer'[f]} => "ready" \in {stage[f], answer[f]}
        BY <1>0, <1>2, <2>2
           DEF Start, Wrapper, Post, LoseAnswer, Sleep, Die, Goto, TypeOK
      <3>2. QED
        BY <1>1, <3>1
    <2>3. QED
      BY <2>1, <2>2
  <1>3. ASSUME NEW e \in Executions, Handle(e)
        PROVE  ReadyInv'
    <2>1. stage' = stage /\ \A f \in Executions \ {e} : answer'[f] = answer[f]
      BY <1>0, <1>3 DEF Handle, CreateOdp, ReportOdp, Reply, TypeOK
    <2>2. ASSUME answer'[e] = "ready", answer[e] # "ready"
          PROVE  \E o \in odps : o.command = e /\ o.status = "ready"
      <3>1. PICK o \in Known(e) : Reply(e, o.status)
        BY <1>0, <1>3, <2>2 DEF Handle, CreateOdp, ReportOdp, Reply, TypeOK
      <3>2. o \in odps /\ o.id = instance[e]
        BY <3>1 DEF Known
      <3>3. o.status = "ready"
        BY <1>0, <2>2, <3>1 DEF Reply, TypeOK
      <3>4. o.command \in Executions /\ Started(o.command) /\ o.id = instance[o.command]
        BY <3>2 DEF SuccessInv, RequestInv, OdpsAreAskedFor, TypeOK, Odp
      <3>5. Started(e)
        BY <1>3 DEF Handle, SuccessInv, RequestInv, OdpsAreAskedFor
      <3>6. o.command = e
        BY <3>2, <3>4, <3>5 DEF SuccessInv, InstanceIdsAreUnique, Started
      <3>7. QED
        BY <3>2, <3>3, <3>6
    <2>3. \A f \in Executions : "ready" \in {stage'[f], answer'[f]} =>
            \E o \in odps : o.command = f /\ o.status = "ready"
      BY <2>1, <2>2 DEF SuccessInv, ReadyInv
    <2>4. QED
      BY <2>3, ReadyStays DEF ReadyInv
  <1>4. CASE stage' = stage /\ answer' = answer
    BY <1>4, <1>1
  <1>5. QED
    BY <1>2, <1>3, <1>4 DEF Next, Settle, ExpireError, vars

\* The ids, and what is said of ready ODPs, once the clock ticks.
THEOREM Successes ==
  ASSUME ClockTicks
  PROVE  Spec => []SuccessInv
  <1>1. Init => SuccessInv
    BY InitType DEF Init, SuccessInv, RequestInv, OdpsAreAskedFor, OneOdpPerExecution,
                    IdsAreOld, InstanceIdsAreUnique, ReadyInv, Started
  <1>2. SuccessInv /\ [Next]_vars => SuccessInv'
    <2>1. SuccessInv /\ [Next]_vars => RequestInv'
      BY RequestStep, ExecutionType, FactoryType, StutterType DEF SuccessInv, RequestInv, Next
    <2>2. QED
      BY <2>1, IdsStep, ReadyStep DEF SuccessInv
  <1>3. QED
    BY <1>1, <1>2, PTL DEF Spec

\* Where no two executions start in the same nanosecond, one that ends because
\* its ODP is ready has an ODP with its own command.
THEOREM SuccessIsOnesOwn ==
  ASSUME ClockTicks
  PROVE  Spec => []SuccessRunsTheCommand
  <1>1. SuccessInv => SuccessRunsTheCommand
    BY DEF SuccessInv, ReadyInv, SuccessRunsTheCommand
  <1>2. QED
    BY <1>1, Successes, PTL

-----------------------------------------------------------------------------
(* The refinement of CronExecution *)

\* An execution has a request on its way only while it waits for the answer,
\* or when it failed; an answer is on its way only when the request is not.
RequestsInTurn ==
  \A e \in Executions :
    /\ e \in posts => stage[e] \in {"waiting", "failed"}
    /\ answer[e] # "none" => stage[e] = "waiting" /\ e \notin posts

TurnInv == SuccessInv /\ RequestsInTurn

LEMMA TurnStep ==
  ASSUME TurnInv, [Next]_vars
  PROVE  RequestsInTurn'
  <1>0. TypeOK
    BY DEF TurnInv, SuccessInv, RequestInv
  <1>1. ASSUME NEW e \in Executions,
               \A f \in Executions \ {e} :
                 /\ stage'[f] = stage[f] /\ answer'[f] = answer[f]
                 /\ f \in posts' <=> f \in posts,
               e \in posts' => stage'[e] \in {"waiting", "failed"},
               answer'[e] # "none" => stage'[e] = "waiting" /\ e \notin posts'
        PROVE  RequestsInTurn'
    BY <1>1 DEF TurnInv, RequestsInTurn
  <1>2. ASSUME NEW e \in Executions, Start(e) \/ Wrapper(e) \/ Die(e) \/ Handle(e)
        PROVE  RequestsInTurn'
    <2>1. /\ e \in posts => stage[e] \in {"waiting", "failed"}
          /\ answer[e] # "none" => stage[e] = "waiting" /\ e \notin posts
      BY DEF TurnInv, RequestsInTurn
    <2>2. CASE Start(e)
      BY <1>0, <1>1, <2>1, <2>2 DEF Start, Goto, TypeOK
    <2>3. CASE Post(e)
      BY <1>0, <1>1, <2>1, <2>3 DEF Post, Goto, TypeOK
    <2>4. CASE LoseAnswer(e)
      BY <1>0, <1>1, <2>1, <2>4 DEF LoseAnswer, Goto, TypeOK
    <2>5. CASE Receive(e)
      BY <1>0, <1>1, <2>1, <2>5 DEF Receive, Goto, TypeOK
    <2>6. CASE Sleep(e)
      BY <1>0, <1>1, <2>1, <2>6 DEF Sleep, Goto, TypeOK
    <2>7. CASE Die(e)
      BY <1>0, <1>1, <2>1, <2>7 DEF Die, Goto, TypeOK
    <2>8. CASE Handle(e)
      <3>1. \/ answer' = answer
            \/ stage[e] = "waiting" /\ \E status : answer' = [answer EXCEPT ![e] = status]
        BY <2>8 DEF Handle, CreateOdp, ReportOdp, Reply
      <3>2. stage' = stage /\ posts' = posts \ {e}
        BY <2>8 DEF Handle
      <3>3. QED
        BY <1>0, <1>1, <2>1, <3>1, <3>2 DEF TypeOK
    <2>9. QED
      BY <1>2, <2>2, <2>3, <2>4, <2>5, <2>6, <2>7, <2>8 DEF Wrapper
  <1>3. ASSUME stage' = stage /\ answer' = answer /\ posts' = posts
        PROVE  RequestsInTurn'
    BY <1>3 DEF TurnInv, RequestsInTurn
  <1>4. QED
    BY <1>2, <1>3 DEF Next, Settle, ExpireError, vars

\* Nothing but the step of an execution changes what is seen of it.
LEMMA OutcomeStep ==
  ASSUME NEW e \in Executions, \A f \in Executions \ {e} : stage'[f] = stage[f]
  PROVE  [f \in Executions |-> Outcome(f)]'
           = [[f \in Executions |-> Outcome(f)] EXCEPT ![e] = Outcome(e)']
  <1>1. \A f \in Executions \ {e} : Outcome(f)' = Outcome(f)
    BY DEF Outcome
  <1>2. QED
    BY <1>1

LEMMA SameOutcomes ==
  ASSUME stage' = stage
  PROVE  [f \in Executions |-> Outcome(f)]' = [f \in Executions |-> Outcome(f)]
  BY DEF Outcome

\* The steps of an execution.
LEMMA ExecutionRefines ==
  ASSUME TurnInv, NEW e \in Executions, Start(e) \/ Wrapper(e) \/ Die(e)
  PROVE  [Execution!Next]_(Execution!vars)
  <1> DEFINE outcome == [f \in Executions |-> Outcome(f)]
  <1>0. TypeOK
    BY DEF TurnInv, SuccessInv, RequestInv
  <1>1. \A f \in Executions \ {e} : stage'[f] = stage[f]
    BY <1>0 DEF Start, Wrapper, Post, LoseAnswer, Receive, Sleep, Die, Goto, TypeOK
  <1>2. outcome' = [outcome EXCEPT ![e] = Outcome(e)']
    BY <1>0, <1>1, OutcomeStep
  <1>3. outcome[e] = Outcome(e)
    OBVIOUS
  <1>4. odps' = odps
    BY DEF Start, Wrapper, Post, LoseAnswer, Receive, Sleep, Die
  <1>5. /\ e \in posts => stage[e] \in {"waiting", "failed"}
        /\ answer[e] # "none" => stage[e] = "waiting" /\ e \notin posts
    BY DEF TurnInv, RequestsInTurn
  <1>6. CASE Start(e)
    <2>1. Outcome(e) = "due" /\ Outcome(e)' = "running" /\ posts' = posts
      BY <1>0, <1>6 DEF Start, Goto, Outcome, TypeOK
    <2>2. Execution!Start(e)
      BY <1>2, <1>3, <1>4, <2>1 DEF Execution!Start, Execution!Become
    <2>3. QED
      BY <2>2 DEF Execution!Next
  <1>7. CASE Post(e)
    <2>1. Outcome(e) = "running" /\ Outcome(e)' = "running"
      BY <1>0, <1>7 DEF Post, Goto, Outcome, TypeOK
    <2>2. e \notin posts /\ posts' = posts \cup {e}
      BY <1>5, <1>7 DEF Post
    <2>3. outcome' = outcome
      BY <1>2, <1>3, <2>1
    <2>4. Execution!Ask(e)
      BY <1>3, <1>4, <2>1, <2>2, <2>3 DEF Execution!Ask
    <2>5. QED
      BY <2>4 DEF Execution!Next
  <1>8. CASE LoseAnswer(e) \/ Die(e)
    <2>1. Outcome(e) = "running" /\ Outcome(e)' = "failed" /\ posts' \in {posts, posts \ {e}}
      BY <1>0, <1>8 DEF LoseAnswer, Die, Ended, Stages, Goto, Outcome, TypeOK
    <2>2. Execution!Fail(e)
      BY <1>2, <1>3, <1>4, <2>1 DEF Execution!Fail, Execution!Become
    <2>3. QED
      BY <2>2 DEF Execution!Next
  <1>9. CASE Receive(e)
    <2>1. Outcome(e) = "running" /\ e \notin posts /\ posts' = posts
      BY <1>5, <1>9 DEF Receive, Outcome
    <2>2. CASE answer[e] = "failed"
      <3>1. Outcome(e)' = "failed"
        BY <1>0, <1>9, <2>2 DEF Receive, Goto, Outcome, TypeOK
      <3>2. Execution!Fail(e)
        BY <1>2, <1>3, <1>4, <2>1, <3>1 DEF Execution!Fail, Execution!Become
      <3>3. QED
        BY <3>2 DEF Execution!Next
    <2>3. CASE answer[e] = "ready"
      <3>1. Outcome(e)' = "succeeded"
        BY <1>0, <1>9, <2>3 DEF Receive, Goto, Outcome, TypeOK
      <3>2. \E p \in Execution!PodsOf(e) : p.status = "ready"
        BY <2>3 DEF TurnInv, SuccessInv, ReadyInv, Execution!PodsOf
      <3>3. Execution!Succeed(e)
        BY <1>2, <1>3, <1>4, <2>1, <3>1, <3>2 DEF Execution!Succeed, Execution!Become
      <3>4. QED
        BY <3>3 DEF Execution!Next
    <2>4. CASE answer[e] = "creating"
      <3>1. Outcome(e)' = "running"
        BY <1>0, <1>9, <2>4 DEF Receive, Goto, Outcome, TypeOK
      <3>2. UNCHANGED Execution!vars
        BY <1>2, <1>3, <1>4, <2>1, <3>1 DEF Execution!vars
      <3>3. QED
        BY <3>2
    <2>5. QED
      BY <1>0, <1>9, <2>2, <2>3, <2>4 DEF Receive, TypeOK, Answers, Statuses
  <1>10. CASE Sleep(e)
    <2>1. Outcome(e) = "running" /\ e \notin posts /\ posts' = posts
      BY <1>5, <1>10 DEF Sleep, Outcome
    <2>2. Outcome(e)' \in {"running", "givenup"}
      BY <1>0, <1>10 DEF Sleep, Goto, Outcome, TypeOK
    <2>3. CASE Outcome(e)' = "running"
      BY <1>2, <1>3, <1>4, <2>1, <2>3 DEF Execution!vars
    <2>4. CASE Outcome(e)' = "givenup"
      <3>1. Execution!GiveUp(e)
        BY <1>2, <1>3, <1>4, <2>1, <2>4 DEF Execution!GiveUp, Execution!Become
      <3>2. QED
        BY <3>1 DEF Execution!Next
    <2>5. QED
      BY <2>2, <2>3, <2>4
  <1>11. QED
    BY <1>6, <1>7, <1>8, <1>9, <1>10 DEF Wrapper

\* The steps of the factory.
LEMMA FactoryRefines ==
  ASSUME TurnInv,
         \/ \E e \in Executions : Handle(e)
         \/ \E o \in odps : Settle(o, "ready") \/ Settle(o, "failed") \/ ExpireError(o)
  PROVE  [Execution!Next]_(Execution!vars)
  <1> DEFINE outcome == [f \in Executions |-> Outcome(f)]
  <1>0. /\ TypeOK /\ outcome' = outcome
        /\ \A o \in odps : o.command \in Executions
    BY SameOutcomes DEF TurnInv, SuccessInv, RequestInv, Handle, Settle, ExpireError, TypeOK, Odp
  <1>1. ASSUME NEW e \in Executions, Handle(e)
        PROVE  Execution!Next
    <2>1. e \in posts /\ posts' = posts \ {e} /\ Started(e)
      BY <1>1 DEF Handle, TurnInv, SuccessInv, RequestInv, OdpsAreAskedFor
    <2>2. Known(e) = Execution!PodsOf(e)
      <3>1. \A o \in odps : Started(o.command) /\ o.id = instance[o.command]
        BY DEF TurnInv, SuccessInv, RequestInv, OdpsAreAskedFor
      <3>2. \A o \in odps : o.id = instance[e] <=> o.command = e
        BY <1>0, <2>1, <3>1 DEF TurnInv, SuccessInv, InstanceIdsAreUnique, Started
      <3>3. QED
        BY <3>2 DEF Known, Execution!PodsOf
    <2>3. ASSUME NEW status \in {"creating", "failed"}, CreateOdp(e, status)
          PROVE  Execution!Create(e)
      <3> DEFINE new == [id |-> instance[e], command |-> e, status |-> status]
      <3>1. odps' = odps \cup {new} /\ new.command = e /\ new.status = status
        BY <2>3 DEF CreateOdp
      <3> HIDE DEF new
      <3>2. Execution!PodsOf(e) = {}
        BY <2>2, <2>3 DEF CreateOdp
      <3>3. QED
        BY <1>0, <2>1, <3>1, <3>2 DEF Execution!Create
    <2>4. CASE ReportOdp(e)
      <3>1. Execution!PodsOf(e) # {} /\ odps' = odps
        BY <2>2, <2>4 DEF ReportOdp
      <3>2. Execution!Report(e)
        BY <1>0, <2>1, <3>1 DEF Execution!Report
      <3>3. QED
        BY <3>2 DEF Execution!Next
    <2>5. QED
      BY <1>1, <2>3, <2>4 DEF Handle, Execution!Next
  <1>2. ASSUME NEW o \in odps, NEW status \in {"ready", "failed"}, Settle(o, status)
        PROVE  Execution!Next
    <2>1. Execution!Settle(o)
      BY <1>0, <1>2 DEF Settle, Execution!Settle
    <2>2. QED
      BY <2>1 DEF Execution!Next
  <1>3. ASSUME NEW o \in odps, ExpireError(o)
        PROVE  Execution!Next
    <2>1. Execution!Expire(o)
      BY <1>0, <1>3 DEF ExpireError, Execution!Expire
    <2>2. QED
      BY <2>1 DEF Execution!Next
  <1>4. QED
    BY <1>1, <1>2, <1>3

\* Whatever is repeated and lost, an execution has one request on its way at a
\* time, gets no second ODP, and succeeds only once its own is ready, where no
\* two executions start in the same nanosecond.
THEOREM WrapperImplementsCronExecution ==
  ASSUME ClockTicks
  PROVE  Spec => ImplementsCronExecution
  <1>1. Init => Execution!Init
    BY DEF Init, Execution!Init, Outcome
  <1>2. Init => RequestsInTurn
    BY DEF Init, RequestsInTurn
  <1>3. TurnInv /\ [Next]_vars => [Execution!Next]_(Execution!vars)
    <2>1. ASSUME UNCHANGED vars
          PROVE  UNCHANGED Execution!vars
      BY <2>1, SameOutcomes DEF vars, Execution!vars
    <2>2. QED
      BY <2>1, ExecutionRefines, FactoryRefines DEF Next
  <1>4. SuccessInv /\ RequestsInTurn /\ [Next]_vars => RequestsInTurn'
    BY TurnStep DEF TurnInv
  <1>5. TurnInv <=> SuccessInv /\ RequestsInTurn
    BY DEF TurnInv
  <1>6. QED
    BY <1>1, <1>2, <1>3, <1>4, <1>5, Successes, PTL
       DEF Spec, ImplementsCronExecution, Execution!Spec

=============================================================================
