------------------------ MODULE EcsDeployLogger_proofs ------------------------
(* Theorems about EcsDeployLogger: for every scenario, so for any number of *)
(* tasks, service events and failing AWS calls, and for every delay and     *)
(* timeout of the watch.                                                    *)
EXTENDS EcsDeployLogger, FiniteSetTheorems, SequenceTheorems, TLAPS

(* ECS evicts a deployment only for a newer one, and a rollout ends once.   *)
EcsInv ==
  /\ deployments \in [{Mine, Newer} ->
       [status : {"none", "PRIMARY", "ACTIVE", "INACTIVE", "gone"},
        rollout : {"IN_PROGRESS", "COMPLETED", "FAILED"}]]
  /\ deployments[Newer].status \in {"none", "PRIMARY"}
  /\ deployments[Mine].status # "PRIMARY" => deployments[Newer].status = "PRIMARY"

(* A poll runs inside the loop of the watch, which has no result before it  *)
(* returns.                                                                 *)
PollInv ==
  /\ reference \in {Mine, NoReference}
  /\ phase \notin {"service", "panicked"} => pc = "polling"
  /\ pc \in {"polling", "select"} => reference = Mine
  /\ pc # "returned" => result = "none"
  /\ ctx \in {"live", "cancelled", "deadline"}

(* What was read of the deployment, however long ago: if it had ended, it   *)
(* still has; if it was evicted, the newer deployment is there.             *)
ReadInv ==
  /\ \/ deployment = NoDeployment
     \/ /\ deployment.status \in {"PRIMARY", "ACTIVE", "INACTIVE"}
        /\ deployment.rollout \in {"IN_PROGRESS", "COMPLETED", "FAILED"}
  /\ deployment.rollout \in {"COMPLETED", "FAILED"} => deployments[Mine].rollout = deployment.rollout
  /\ deployment.status \in {"ACTIVE", "INACTIVE"} => Newer \in Listed

LoggerInv == EcsInv /\ PollInv /\ ReadInv /\ VerdictIsOfThisDeployment

-----------------------------------------------------------------------------
LEMMA LoggerInvInit == Init => LoggerInv
  BY EcsAssumption
  DEF Init, WatchInit, LoggerInv, EcsInv, PollInv, ReadInv, VerdictIsOfThisDeployment, NoDeployment, Mine, Newer,
      NoReference

(* ECS takes nothing back.                                                  *)
LEMMA EcsGoesOn ==
  ASSUME EcsInv, EcsStep
  PROVE  /\ EcsInv'
         /\ deployments[Mine].rollout # "IN_PROGRESS" => deployments'[Mine].rollout = deployments[Mine].rollout
         /\ Newer \in Listed => Newer \in Listed'
PROOF
  <1> USE DEF EcsInv, Mine, Newer, Listed
  <1>1. CASE NewerDeployment
    <2>1. /\ deployments'[Newer] = [status |-> "PRIMARY", rollout |-> deployments[Newer].rollout]
          /\ deployments'[Mine] = [status |-> "ACTIVE", rollout |-> deployments[Mine].rollout]
          /\ deployments' \in [{Mine, Newer} ->
               [status : {"none", "PRIMARY", "ACTIVE", "INACTIVE", "gone"},
                rollout : {"IN_PROGRESS", "COMPLETED", "FAILED"}]]
      BY <1>1 DEF NewerDeployment
    <2> QED BY <2>1
  <1>2. ASSUME NEW d \in Listed, RolloutEnds(d)
        PROVE  \E how \in {"COMPLETED", "FAILED"} :
                 /\ deployments'[d] = [status |-> deployments[d].status, rollout |-> how]
                 /\ deployments[d].rollout = "IN_PROGRESS"
                 /\ \A e \in {Mine, Newer} : e # d => deployments'[e] = deployments[e]
                 /\ deployments' \in [{Mine, Newer} ->
                      [status : {"none", "PRIMARY", "ACTIVE", "INACTIVE", "gone"},
                       rollout : {"IN_PROGRESS", "COMPLETED", "FAILED"}]]
    BY <1>2 DEF RolloutEnds
  <1>3. CASE \E d \in Listed : RolloutEnds(d)
    <2>1. PICK d \in Listed : RolloutEnds(d)
      BY <1>3
    <2>2. PICK how \in {"COMPLETED", "FAILED"} :
            /\ deployments'[d] = [status |-> deployments[d].status, rollout |-> how]
            /\ deployments[d].rollout = "IN_PROGRESS"
            /\ \A e \in {Mine, Newer} : e # d => deployments'[e] = deployments[e]
            /\ deployments' \in [{Mine, Newer} ->
                 [status : {"none", "PRIMARY", "ACTIVE", "INACTIVE", "gone"},
                  rollout : {"IN_PROGRESS", "COMPLETED", "FAILED"}]]
      BY <1>2, <2>1
    <2>3. CASE d = Mine
      BY <2>2, <2>3
    <2>4. CASE d = Newer
      BY <2>2, <2>4
    <2> QED BY <2>3, <2>4
  <1>4. CASE Drained
    <2>1. /\ deployments'[Newer] = deployments[Newer] /\ deployments[Mine].status # "PRIMARY"
          /\ \E s \in {"gone", "INACTIVE"} :
               deployments'[Mine] = [status |-> s, rollout |-> deployments[Mine].rollout]
          /\ deployments' \in [{Mine, Newer} ->
               [status : {"none", "PRIMARY", "ACTIVE", "INACTIVE", "gone"},
                rollout : {"IN_PROGRESS", "COMPLETED", "FAILED"}]]
      BY <1>4 DEF Drained
    <2> QED BY <2>1
  <1>5. CASE UNCHANGED deployments
    BY <1>5
  <1> QED BY <1>1, <1>3, <1>4, <1>5
    DEF EcsStep, ServiceDeleted, ServiceEvent, TaskMoves

(* A step of the loop itself, between two polls or beside one.              *)
LEMMA LoopGoesOn ==
  ASSUME LoggerInv, WatchStep, UNCHANGED <<ecsVars, loggerVars>>, pc # "returned", phase # "panicked"
  PROVE  LoggerInv'
PROOF
  <1>1. UNCHANGED <<deployments, deployment, serviceName, phase>>
    BY DEF ecsVars, loggerVars, cacheVars
  <1>2. EcsInv' /\ ReadInv'
    BY <1>1 DEF LoggerInv, EcsInv, ReadInv, Listed
  <1>3. PollInv'
    BY <1>1 DEF LoggerInv, PollInv, WatchStep, WatchNothing, WatchBegins, SelectCtxDone, SelectTimeout,
                SelectDelay, Tick, CtxEnds, Return
  <1>4. \/ UNCHANGED result
        \/ result' = "nil" /\ reference' = NoReference
        \/ result' = "ErrTimeout"
        \/ result' = "CancelError" /\ ctx' = "cancelled"
    BY DEF LoggerInv, PollInv, WatchStep, WatchNothing, WatchBegins, SelectCtxDone, SelectTimeout,
           SelectDelay, Tick, CtxEnds, Return
  <1>5. result = "none"
    BY DEF LoggerInv, PollInv
  <1>6. VerdictIsOfThisDeployment'
    BY <1>4, <1>5 DEF VerdictIsOfThisDeployment
  <1> QED BY <1>2, <1>3, <1>6 DEF LoggerInv

(* ECS goes on while a poll is in flight, between any two of its calls.     *)
LEMMA EcsBetweenCalls ==
  ASSUME LoggerInv, EcsStep, UNCHANGED <<watchVars, loggerVars>>, pc # "returned"
  PROVE  LoggerInv'
PROOF
  <1>1. UNCHANGED <<reference, ctx, pc, result, deployment, serviceName, phase>>
    BY DEF watchVars, loggerVars, cacheVars
  <1>2. EcsInv /\ ReadInv
    BY DEF LoggerInv
  <1>3. EcsInv' /\ ReadInv'
    BY <1>1, <1>2, EcsGoesOn DEF ReadInv, EcsInv, Mine, Newer
  <1>4. PollInv'
    BY <1>1 DEF LoggerInv, PollInv
  <1>5. result' = "none"
    BY <1>1 DEF LoggerInv, PollInv
  <1> QED BY <1>3, <1>4, <1>5 DEF LoggerInv, VerdictIsOfThisDeployment

(* A call that fails ends the poll without a verdict.                       *)
LEMMA UnknownIsNoVerdict ==
  ASSUME LoggerInv, PollReturns("unknown", TRUE), PollOver,
         UNCHANGED <<deployments, deployment, serviceName>>
  PROVE  LoggerInv'
PROOF
  <1>1. Verdict("unknown", TRUE) = "none"
    BY DEF Verdict
  <1>2. pc = "polling" /\ pc' = "select" /\ UNCHANGED <<result, reference, ctx>> /\ phase' = "service"
    BY <1>1 DEF PollReturns, PollOver
  <1>3. PollInv' /\ result' = "none"
    BY <1>2 DEF LoggerInv, PollInv
  <1>4. EcsInv' /\ ReadInv'
    BY DEF LoggerInv, EcsInv, ReadInv, Listed
  <1> QED BY <1>3, <1>4 DEF LoggerInv, VerdictIsOfThisDeployment

LEMMA CallFailsKeeps ==
  ASSUME LoggerInv, CallFails, UNCHANGED <<deployment, serviceName>>
  PROVE  LoggerInv'
  BY UnknownIsNoVerdict DEF CallFails

(* A call that leaves the deployment alone and the poll in flight.          *)
LEMMA PollGoesOn ==
  ASSUME LoggerInv, UNCHANGED <<watchVars, deployments, deployment, serviceName>>,
         phase' # "service", phase' = "panicked" \/ pc = "polling"
  PROVE  LoggerInv'
PROOF
  <1>1. UNCHANGED <<reference, ctx, pc, result>>
    BY DEF watchVars
  <1>2. EcsInv' /\ ReadInv'
    BY DEF LoggerInv, EcsInv, ReadInv, Listed
  <1>3. PollInv'
    BY <1>1 DEF LoggerInv, PollInv
  <1>4. VerdictIsOfThisDeployment'
    BY <1>1 DEF LoggerInv, VerdictIsOfThisDeployment, Listed
  <1> QED BY <1>2, <1>3, <1>4 DEF LoggerInv

(* What refresh reads is true when it is read.                              *)
LEMMA ReadNow ==
  ASSUME LoggerInv, GetService
  PROVE  LoggerInv'
PROOF
  <1>1. UNCHANGED <<reference, ctx, pc, result, deployments, serviceName>> /\ pc = "polling" /\ phase' = "taskDef"
        /\ deployment' = Refreshed
    BY DEF GetService, watchVars, ecsVars
  <1>2. reference = Mine /\ result = "none" /\ EcsInv /\ ReadInv
    BY <1>1 DEF LoggerInv, PollInv
  <1>3. ReadInv'
    <2>1. CASE Mine \in Listed
      <3>1. deployment' = [status |-> deployments[Mine].status, rollout |-> deployments[Mine].rollout,
                           running |-> RunningCount(Mine)]
        BY <1>1, <1>2, <2>1 DEF Refreshed
      <3>2. deployments[Mine].status \in {"PRIMARY", "ACTIVE", "INACTIVE"}
            /\ deployments[Mine].rollout \in {"IN_PROGRESS", "COMPLETED", "FAILED"}
            /\ (deployments[Mine].status # "PRIMARY" => Newer \in Listed)
        BY <1>2, <2>1 DEF EcsInv, Listed
      <3> QED BY <1>1, <3>1, <3>2 DEF ReadInv, Listed
    <2>2. CASE Mine \notin Listed
      BY <1>1, <1>2, <2>2 DEF Refreshed, ReadInv, Listed
    <2> QED BY <2>1, <2>2
  <1>4. EcsInv' /\ PollInv'
    BY <1>1, <1>2 DEF LoggerInv, EcsInv, PollInv
  <1> QED BY <1>1, <1>2, <1>3, <1>4 DEF LoggerInv, VerdictIsOfThisDeployment

(* The status of what was read, and the verdict that Watch makes of it.     *)
LEMMA StatusVerdict ==
  ASSUME ReadInv, deployment # NoDeployment,
         NEW v, v = Verdict(StatusOf(deployment)[1], StatusOf(deployment)[2])
  PROVE  \/ v = "none"
         \/ v = "CancelError" /\ deployment.status \in {"ACTIVE", "INACTIVE"}
         \/ v = "nil" /\ deployment.status = "PRIMARY" /\ deployment.rollout = "COMPLETED"
         \/ v = "ErrFailed" /\ deployment.status = "PRIMARY" /\ deployment.rollout = "FAILED"
PROOF
  <1>1. /\ deployment.status \in {"PRIMARY", "ACTIVE", "INACTIVE"}
        /\ deployment.rollout \in {"IN_PROGRESS", "COMPLETED", "FAILED"}
    BY DEF ReadInv
  <1>2. /\ Verdict("cancelled", TRUE) = "CancelError" /\ Verdict("in-progress", FALSE) = "none"
        /\ Verdict("complete", FALSE) = "nil" /\ Verdict("failed", FALSE) = "ErrFailed"
    BY DEF Verdict
  <1>3. CASE deployment.status \in {"ACTIVE", "INACTIVE"}
    <2>1. StatusOf(deployment) = <<"cancelled", TRUE>>
      BY <1>3 DEF StatusOf
    <2>2. StatusOf(deployment)[1] = "cancelled" /\ StatusOf(deployment)[2] = TRUE
      BY <2>1
    <2>3. v = Verdict("cancelled", TRUE)
      BY <2>2, Zenon
    <2> QED BY <1>2, <1>3, <2>3
  <1>4. CASE deployment.status = "PRIMARY" /\ deployment.rollout = "IN_PROGRESS"
    <2>1. StatusOf(deployment) = <<"in-progress", FALSE>>
      BY <1>4 DEF StatusOf
    <2>2. StatusOf(deployment)[1] = "in-progress" /\ StatusOf(deployment)[2] = FALSE
      BY <2>1
    <2>3. v = Verdict("in-progress", FALSE)
      BY <2>2, Zenon
    <2> QED BY <1>2, <2>3
  <1>5. CASE deployment.status = "PRIMARY" /\ deployment.rollout = "COMPLETED"
    <2>1. StatusOf(deployment) = <<"complete", FALSE>>
      BY <1>5 DEF StatusOf
    <2>2. StatusOf(deployment)[1] = "complete" /\ StatusOf(deployment)[2] = FALSE
      BY <2>1
    <2>3. v = Verdict("complete", FALSE)
      BY <2>2, Zenon
    <2> QED BY <1>2, <1>5, <2>3
  <1>6. CASE deployment.status = "PRIMARY" /\ deployment.rollout = "FAILED"
    <2>1. StatusOf(deployment) = <<"failed", FALSE>>
      BY <1>6 DEF StatusOf
    <2>2. StatusOf(deployment)[1] = "failed" /\ StatusOf(deployment)[2] = FALSE
      BY <2>1
    <2>3. v = Verdict("failed", FALSE)
      BY <2>2, Zenon
    <2> QED BY <1>2, <1>6, <2>3
  <1> QED BY <1>1, <1>3, <1>4, <1>5, <1>6

(* The last call of a poll: the verdict is about what this poll, or an      *)
(* earlier one, read of this deployment.                                    *)
LEMMA LastCall ==
  ASSUME LoggerInv, DescribeTasks
  PROVE  LoggerInv'
PROOF
  <1>1. UNCHANGED <<deployments, deployment, serviceName>>
    BY DEF DescribeTasks, ecsVars
  <1>2. CASE deployment = NoDeployment /\ Panics
    BY <1>1, <1>2, PollGoesOn DEF Panics
  <1>3. CASE /\ deployment # NoDeployment
             /\ PollReturns(StatusOf(deployment)[1], StatusOf(deployment)[2])
             /\ PollOver
    <2> DEFINE v == Verdict(StatusOf(deployment)[1], StatusOf(deployment)[2])
    <2>1. /\ pc = "polling" /\ UNCHANGED <<reference, ctx>> /\ phase' = "service"
          /\ \/ v # "none" /\ pc' = "returned" /\ result' = v
             \/ v = "none" /\ pc' = "select" /\ result' = result
      BY <1>3 DEF PollReturns, Return, PollOver
    <2>2. reference = Mine /\ result = "none" /\ ReadInv
      BY <2>1 DEF LoggerInv, PollInv
    <2>3. \/ v = "none"
          \/ v = "CancelError" /\ deployment.status \in {"ACTIVE", "INACTIVE"}
          \/ v = "nil" /\ deployment.status = "PRIMARY" /\ deployment.rollout = "COMPLETED"
          \/ v = "ErrFailed" /\ deployment.status = "PRIMARY" /\ deployment.rollout = "FAILED"
      BY <1>3, <2>2, StatusVerdict
    <2>4. EcsInv' /\ ReadInv'
      BY <1>1 DEF LoggerInv, EcsInv, ReadInv, Listed
    <2>5. PollInv'
      BY <2>1, <2>2 DEF LoggerInv, PollInv
    <2>6. VerdictIsOfThisDeployment'
      BY <1>1, <2>1, <2>2, <2>3 DEF ReadInv, VerdictIsOfThisDeployment, Listed
    <2> QED BY <2>4, <2>5, <2>6 DEF LoggerInv
  <1> QED BY <1>2, <1>3 DEF DescribeTasks

LEMMA GetDeployStatusKeeps ==
  ASSUME LoggerInv, GetDeployStatus
  PROVE  LoggerInv'
PROOF
  <1>1. CASE NoServiceName
    <2>1. Verdict("complete", FALSE) = "nil"
      BY DEF Verdict
    <2>2. /\ pc = "polling" /\ pc' = "returned" /\ result' = "nil" /\ serviceName' = "empty"
          /\ UNCHANGED <<reference, ctx, phase, deployments, deployment>> /\ phase = "service"
      BY <1>1, <2>1 DEF NoServiceName, PollReturns, Return, ecsVars, loggerVars, cacheVars
    <2>3. EcsInv' /\ ReadInv' /\ PollInv'
      BY <2>2 DEF LoggerInv, EcsInv, ReadInv, PollInv, Listed
    <2> QED BY <2>2, <2>3 DEF LoggerInv, VerdictIsOfThisDeployment
  <1>2. CASE GetServiceFails \/ LoadTaskDefinitionFails \/ RefreshHealthFails \/ ListFails
    BY <1>2, CallFailsKeeps
    DEF GetServiceFails, LoadTaskDefinitionFails, RefreshHealthFails, ListFails, cacheVars
  <1>3. CASE GetServiceFindsNone
    BY <1>3, PollGoesOn DEF GetServiceFindsNone, Panics, ecsVars
  <1>4. CASE GetService
    BY <1>4, ReadNow
  <1>5. CASE LoadTaskDefinitionOnce \/ RefreshHealth \/ ListRunning \/ ListStopped
    <2>1. phase \notin {"service", "panicked"} /\ phase' \notin {"service", "panicked"}
          /\ UNCHANGED <<watchVars, deployments, deployment, serviceName>>
      BY <1>5 DEF LoadTaskDefinitionOnce, RefreshHealth, ListRunning, ListStopped, ecsVars, cacheVars
    <2> QED BY <2>1, PollGoesOn DEF LoggerInv, PollInv
  <1>6. CASE DescribeFails
    <2>1. UNCHANGED <<deployment, serviceName>>
      BY <1>6 DEF DescribeFails, cacheVars
    <2>2. CallFails \/ (PollReturns("unknown", TRUE) /\ PollOver /\ UNCHANGED deployments)
      BY <1>6 DEF DescribeFails, ecsVars
    <2> QED BY <2>1, <2>2, CallFailsKeeps, UnknownIsNoVerdict
  <1>7. CASE DescribeTasks
    BY <1>7, LastCall
  <1> QED BY <1>1, <1>2, <1>3, <1>4, <1>5, <1>6, <1>7 DEF GetDeployStatus

LEMMA LoggerInvNext == LoggerInv /\ [Next]_vars => LoggerInv'
PROOF
  <1> SUFFICES ASSUME LoggerInv, [Next]_vars PROVE LoggerInv'
    OBVIOUS
  <1>1. CASE UNCHANGED vars
    <2>1. UNCHANGED <<reference, ctx, pc, result, deployments, deployment, serviceName, phase>>
      BY <1>1 DEF vars, watchVars, ecsVars, loggerVars, cacheVars
    <2>2. EcsInv' /\ ReadInv' /\ PollInv'
      BY <2>1 DEF LoggerInv, EcsInv, ReadInv, PollInv, Listed
    <2>3. VerdictIsOfThisDeployment'
      BY <2>1 DEF LoggerInv, VerdictIsOfThisDeployment, Listed
    <2> QED BY <2>2, <2>3 DEF LoggerInv
  <1> QED BY <1>1, LoopGoesOn, EcsBetweenCalls, GetDeployStatusKeeps DEF Next, Over

(* The verdict of the watch is about this deployment of the service,        *)
(* whatever ECS does between two calls of a poll and whichever calls fail.  *)
THEOREM VerdictAlwaysOfThisDeployment == Spec => []VerdictIsOfThisDeployment
PROOF
  <1>1. LoggerInv => VerdictIsOfThisDeployment
    BY DEF LoggerInv
  <1> QED BY <1>1, LoggerInvInit, LoggerInvNext, PTL DEF Spec

-----------------------------------------------------------------------------
(* Lines.  The events among them are numbered one after the other; as long  *)
(* as no event was seen, none was written.                                  *)
Line == {"deployment", "running", "status", "event"} \X (Nat \cup {"created", "PRIMARY", "ACTIVE", "INACTIVE"})

NoneBeforeSeen(lines, last) == last = 0 => \A i \in DOMAIN lines : ~IsEvent(lines[i])

Owners == {"older", Mine, Newer}

LinesInv ==
  /\ scenario \in Scenarios
  /\ events \in Seq(Owners) /\ service.events \in Seq(Owners)
  /\ deployment.running \in Nat /\ previous.running \in Nat
  /\ lastSeenEventAt \in Nat
  /\ stdout \in Seq(Line)
  /\ EventsAreContiguous
  /\ NoneBeforeSeen(stdout, lastSeenEventAt)

LEMMA LinesInvInit == Init => LinesInv
PROOF
  <1> SUFFICES ASSUME Init PROVE LinesInv
    OBVIOUS
  <1>1. scenario \in Scenarios /\ stdout = <<>> /\ lastSeenEventAt = 0 /\ deployment.running = 0 /\ previous.running = 0
        /\ service.events = <<>> /\ events = [i \in 1..scenario.oldEvents |-> "older"]
    BY DEF Init, NoService, NoDeployment
  <1>2. scenario.oldEvents \in Nat
    BY <1>1, EcsAssumption
  <1> QED BY <1>1, <1>2 DEF LinesInv, Owners, EventsAreContiguous, ContiguousUpTo, NoneBeforeSeen

(* The events after the one seen last, up to event m.                       *)
NewEvents(n, m) == [i \in 1..(m - n) |-> <<"event", n + i>>]

LEMMA NewEventsAreLines ==
  ASSUME NEW n \in Nat, NEW m \in Nat, n <= m
  PROVE  /\ NewEvents(n, m) \in Seq(Line) /\ Len(NewEvents(n, m)) = m - n
         /\ \A i \in 1..(m - n) : NewEvents(n, m)[i] = <<"event", n + i>> /\ IsEvent(NewEvents(n, m)[i])
PROOF
  <1>1. PICK k \in Nat : k = m - n
    OBVIOUS
  <1>2. PICK e : e = NewEvents(n, m)
    OBVIOUS
  <1>3. e = [i \in 1..k |-> <<"event", n + i>>]
    BY <1>1, <1>2 DEF NewEvents
  <1>4. \A i \in 1..k : e[i] = <<"event", n + i>> /\ <<"event", n + i>> \in Line /\ IsEvent(<<"event", n + i>>)
    BY <1>1, <1>3 DEF Line, IsEvent
  <1>5. \A i \in 1..k : e[i] \in Line /\ IsEvent(e[i])
    BY <1>4
  <1>6. e \in [1..k -> Line]
    BY <1>3, <1>5
  <1>7. e \in Seq(Line)
    BY <1>6, SeqDef
  <1>8. Len(e) = k
    BY <1>1, <1>3, <1>7, LenProperties
  <1> QED BY <1>1, <1>2, <1>4, <1>5, <1>7, <1>8

(* Lines that are no events, and then the events from the last one seen on. *)
LEMMA LinesGoOn ==
  ASSUME NEW s \in Seq(Line), NEW d \in Seq(Line), NEW n \in Nat, NEW m \in Nat, n <= m,
         \A i \in DOMAIN d : ~IsEvent(d[i]),
         ContiguousUpTo(s, n), NoneBeforeSeen(s, n)
  PROVE  /\ s \o d \o NewEvents(n, m) \in Seq(Line) /\ ContiguousUpTo(s \o d \o NewEvents(n, m), m)
         /\ NoneBeforeSeen(s \o d \o NewEvents(n, m), m)
PROOF
  <1>0. PICK e : e = NewEvents(n, m)
    OBVIOUS
  <1>1. e \in Seq(Line) /\ Len(e) = m - n /\ \A i \in 1..(m - n) : e[i] = <<"event", n + i>> /\ IsEvent(e[i])
    BY <1>0, NewEventsAreLines
  <1> DEFINE l == s \o d \o e
             a == Len(s)
             b == Len(s) + Len(d)
             c == b + (m - n)
  <1>2. a \in Nat /\ b \in Nat /\ c \in Nat /\ a <= b /\ b <= c
    OBVIOUS
  <1>3. /\ l \in Seq(Line) /\ DOMAIN l = 1..c
        /\ \A i \in 1..a : l[i] = s[i]
        /\ \A i \in 1..c : i > a /\ i <= b => l[i] = d[i - a]
        /\ \A i \in 1..c : i > b => l[i] = e[i - b]
    <2> DEFINE h == s \o d
    <2>1. /\ h \in Seq(Line) /\ Len(h) = b
          /\ \A i \in 1..b : h[i] = IF i <= a THEN s[i] ELSE d[i - a]
      BY ConcatProperties
    <2> HIDE DEF h
    <2>2. /\ h \o e \in Seq(Line) /\ Len(h \o e) = c
          /\ \A i \in 1..c : (h \o e)[i] = IF i <= b THEN h[i] ELSE e[i - b]
      <3>1. h \in Seq(Line) /\ e \in Seq(Line)
        BY <1>1, <2>1
      <3>2. /\ h \o e \in Seq(Line) /\ Len(h \o e) = Len(h) + Len(e)
            /\ \A i \in 1..(Len(h) + Len(e)) : (h \o e)[i] = IF i <= Len(h) THEN h[i] ELSE e[i - Len(h)]
        BY <3>1, ConcatProperties, Zenon
      <3>3. Len(h) = b /\ Len(h) + Len(e) = c
        BY <1>1, <2>1
      <3> HIDE DEF a, b, c
      <3> QED BY <3>2, <3>3
    <2>3. l = h \o e
      BY DEF h
    <2> HIDE DEF l, a, b, c
    <2>4. l \in Seq(Line) /\ DOMAIN l = 1..c
      BY <2>2, <2>3, LenProperties
    <2>5. \A i \in 1..a : i \in 1..b /\ i \in 1..c /\ i <= a /\ i <= b
      BY <1>2
    <2>6. \A i \in 1..a : l[i] = s[i]
      BY <2>1, <2>2, <2>3, <2>5
    <2>7. \A i \in 1..c : i > a /\ i <= b => i \in 1..b /\ ~(i <= a)
      BY <1>2
    <2>8. \A i \in 1..c : i > a /\ i <= b => l[i] = d[i - a]
      BY <2>1, <2>2, <2>3, <2>7
    <2>9. \A i \in 1..c : i > b => l[i] = e[i - b]
      <3>1. \A i \in 1..c : i > b => ~(i <= b)
        BY <1>2
      <3> QED BY <2>2, <2>3, <3>1
    <2> QED BY <2>4, <2>6, <2>8, <2>9
  <1>4. /\ \A i \in 1..c : i > a /\ i <= b => ~IsEvent(l[i])
        /\ \A i \in 1..c : i > b => l[i] = <<"event", n + (i - b)>>
    <2>1. ASSUME NEW i \in 1..c, i > a, i <= b PROVE ~IsEvent(l[i])
      BY <1>3, <2>1
    <2>2. ASSUME NEW i \in 1..c, i > b PROVE l[i] = <<"event", n + (i - b)>>
      <3>1. i - b \in 1..(m - n)
        BY <1>2, <2>2
      <3> QED BY <1>1, <1>3, <2>2, <3>1
    <2> QED BY <2>1, <2>2
  <1>5. DOMAIN s = 1..a
    OBVIOUS
  <1> HIDE DEF l, a, b, c
  <1>6. c - b = m - n
    BY <1>2 DEF c
  <1>7. ASSUME NEW i \in 1..c, IsEvent(l[i])
        PROVE  \/ \E j \in 1..c : /\ i < j /\ l[j] = <<"event", l[i][2] + 1>>
                                  /\ \A k \in (i + 1)..(j - 1) : ~IsEvent(l[k])
               \/ l[i][2] = m /\ \A k \in 1..c : k > i => ~IsEvent(l[k])
    <2>1. CASE i \in 1..a /\ \E j \in 1..a : /\ i < j /\ s[j] = <<"event", s[i][2] + 1>>
                                              /\ \A k \in (i + 1)..(j - 1) : ~IsEvent(s[k])
      <3>1. PICK j \in 1..a : i < j /\ s[j] = <<"event", s[i][2] + 1>> /\ \A k \in (i + 1)..(j - 1) : ~IsEvent(s[k])
        BY <2>1
      <3>2. j \in 1..c /\ \A k \in (i + 1)..(j - 1) : k \in 1..a
        BY <1>2, <2>1
      <3>3. l[j] = <<"event", l[i][2] + 1>> /\ \A k \in (i + 1)..(j - 1) : ~IsEvent(l[k])
        BY <1>3, <2>1, <3>1, <3>2
      <3> QED BY <3>1, <3>2, <3>3
    <2>2. CASE i \in 1..a /\ s[i][2] = n /\ \A k \in 1..a : k > i => ~IsEvent(s[k])
      <3>1. \A k \in 1..c : k > i /\ k <= b => ~IsEvent(l[k])
        <4> SUFFICES ASSUME NEW k \in 1..c, k > i, k <= b PROVE ~IsEvent(l[k])
          OBVIOUS
        <4>1. CASE k <= a
          <5>1. k \in 1..a
            BY <1>2, <4>1
          <5> QED BY <1>3, <2>2, <5>1
        <4>2. CASE k > a
          BY <1>4, <4>2
        <4> QED BY <1>2, <4>1, <4>2
      <3>2. CASE b < c
        <4>1. b + 1 \in 1..c /\ i < b + 1 /\ b + 1 > b
          BY <1>2, <2>2, <3>2
        <4>2. l[b + 1] = <<"event", n + ((b + 1) - b)>>
          BY <1>4, <4>1
        <4>3. n + ((b + 1) - b) = n + 1 /\ l[i][2] = n
          BY <1>2, <1>3, <2>2
        <4>4. \A k \in (i + 1)..((b + 1) - 1) : k \in 1..c /\ k > i /\ k <= b
          BY <1>2, <4>1
        <4>5. l[b + 1] = <<"event", l[i][2] + 1>>
          BY <4>2, <4>3
        <4> QED BY <3>1, <4>1, <4>4, <4>5
      <3>3. CASE b = c
        <4>1. n = m
          BY <1>2, <1>6, <3>3
        <4>2. \A k \in 1..c : k <= b
          BY <3>3
        <4> QED BY <1>3, <2>2, <3>1, <4>1, <4>2
      <3>4. b < c \/ b = c
        BY <1>2
      <3> QED BY <3>2, <3>3, <3>4
    <2>3. CASE i > b
      <3>1. l[i][2] = n + (i - b)
        BY <1>4, <2>3
      <3>2. CASE i < c
        <4>1. i + 1 \in 1..c /\ i + 1 > b /\ i < i + 1
          BY <1>2, <2>3, <3>2
        <4>2. l[i + 1] = <<"event", n + ((i + 1) - b)>>
          BY <1>4, <4>1
        <4>3. n + ((i + 1) - b) = (n + (i - b)) + 1 /\ (i + 1)..((i + 1) - 1) = {}
          BY <1>2
        <4>4. l[i + 1] = <<"event", l[i][2] + 1>>
          BY <3>1, <4>2, <4>3
        <4> QED BY <4>1, <4>3, <4>4
      <3>3. CASE i = c
        BY <1>2, <1>6, <3>1, <3>3
      <3>4. i < c \/ i = c
        BY <1>2
      <3> QED BY <3>2, <3>3, <3>4
    <2>4. i \in 1..a \/ i > b
      BY <1>2, <1>4, <1>7
    <2>5. i \in 1..a => \/ \E j \in 1..a : /\ i < j /\ s[j] = <<"event", s[i][2] + 1>>
                                            /\ \A k \in (i + 1)..(j - 1) : ~IsEvent(s[k])
                        \/ s[i][2] = n /\ \A k \in 1..a : k > i => ~IsEvent(s[k])
      <3>1. i \in 1..a => IsEvent(s[i])
        BY <1>3, <1>7
      <3> QED BY <1>5, <3>1 DEF ContiguousUpTo
    <2> QED BY <2>1, <2>2, <2>3, <2>4, <2>5
  <1>8. ContiguousUpTo(l, m)
    BY <1>3, <1>7 DEF ContiguousUpTo
  <1>9. NoneBeforeSeen(l, m)
    <2> SUFFICES ASSUME m = 0 PROVE \A i \in 1..c : ~IsEvent(l[i])
      BY <1>3 DEF NoneBeforeSeen
    <2>1. n = 0 /\ b = c
      BY <1>2, <1>6
    <2>2. \A i \in 1..a : ~IsEvent(l[i])
      BY <1>3, <1>5, <2>1 DEF NoneBeforeSeen
    <2>3. \A i \in 1..c : i \in 1..a \/ (i > a /\ i <= b)
      BY <1>2, <2>1
    <2> QED BY <1>4, <2>2, <2>3
  <1> QED BY <1>0, <1>3, <1>8, <1>9 DEF l

LEMMA OneLineMore ==
  ASSUME NEW s \in Seq(Line), NEW x \in Line, ~IsEvent(x), NEW n \in Nat, ContiguousUpTo(s, n), NoneBeforeSeen(s, n)
  PROVE  Append(s, x) \in Seq(Line) /\ ContiguousUpTo(Append(s, x), n) /\ NoneBeforeSeen(Append(s, x), n)
PROOF
  <1> DEFINE e == NewEvents(n, n)
  <1>1. e = << >>
    BY n - n = 0, 1..0 = {} DEF NewEvents
  <1>2. <<x>> \in Seq(Line) /\ \A i \in DOMAIN <<x>> : ~IsEvent(<<x>>[i])
    OBVIOUS
  <1>3. s \o <<x>> \in Seq(Line) /\ Append(s, x) = s \o <<x>>
    BY AppendIsConcat
  <1>4. s \o <<x>> \o e = Append(s, x)
    BY <1>1, <1>3, ConcatEmptySeq
  <1>5. n <= n
    OBVIOUS
  <1> HIDE DEF e
  <1>6. /\ s \o <<x>> \o e \in Seq(Line) /\ ContiguousUpTo(s \o <<x>> \o e, n)
        /\ NoneBeforeSeen(s \o <<x>> \o e, n)
    BY <1>2, <1>5, LinesGoOn DEF e
  <1> QED BY <1>4, <1>6

LEMMA LinesStay ==
  ASSUME LinesInv, UNCHANGED <<scenario, events, service, deployment, lastSeenEventAt, stdout>>,
         previous' \in {previous, NoDeployment}
  PROVE  LinesInv'
PROOF
  <1>1. NoDeployment.running \in Nat
    BY DEF NoDeployment
  <1> HIDE DEF NoDeployment
  <1> QED BY <1>1 DEF LinesInv, EventsAreContiguous

LEMMA LinesOfEcs ==
  ASSUME LinesInv, EcsStep, UNCHANGED loggerVars
  PROVE  LinesInv'
PROOF
  <1>1. UNCHANGED <<scenario, service, deployment, previous, lastSeenEventAt, stdout>>
    BY DEF EcsStep, loggerVars, cacheVars, pollVars
  <1>2. events' \in Seq(Owners)
    <2>1. events' = events \/ \E d \in Owners : events' = Append(events, d)
      BY DEF EcsStep, NewerDeployment, Drained, ServiceDeleted, RolloutEnds, ServiceEvent, TaskMoves, Listed, Owners
    <2> QED BY <2>1 DEF LinesInv
  <1> QED BY <1>1, <1>2 DEF LinesInv, EventsAreContiguous

LEMMA LinesOfService ==
  ASSUME LinesInv, GetService
  PROVE  LinesInv'
PROOF
  <1>1. /\ UNCHANGED <<scenario, events, lastSeenEventAt>>
        /\ service'.events = events /\ previous' = deployment /\ deployment' = Refreshed
        /\ stdout' = stdout \/ stdout' = Append(stdout, <<"deployment", "created">>)
    BY DEF GetService, ecsVars
  <1>2. RunningCount(reference) \in Nat
    <2>1. IsFiniteSet(Tasks)
      BY EcsAssumption DEF LinesInv, Tasks
    <2>2. Cardinality({t \in Tasks : tasks[t] = "running"}) \in Nat
      BY <2>1, FS_Subset, FS_CardinalityType
    <2> QED BY <2>2 DEF RunningCount
  <1>3. deployment'.running \in Nat
    BY <1>1, <1>2 DEF Refreshed, LinesInv
  <1>4. stdout' \in Seq(Line) /\ ContiguousUpTo(stdout', lastSeenEventAt) /\ NoneBeforeSeen(stdout', lastSeenEventAt)
    <2>1. <<"deployment", "created">> \in Line /\ ~IsEvent(<<"deployment", "created">>)
      BY DEF Line, IsEvent
    <2> QED BY <1>1, <2>1, OneLineMore DEF LinesInv, EventsAreContiguous
  <1> QED BY <1>1, <1>3, <1>4 DEF LinesInv, EventsAreContiguous

(* The watermark is seeded only while no event was seen, so none written.   *)
LEMMA LinesOfSeed ==
  ASSUME LinesInv, LoadTaskDefinitionOnce
  PROVE  LinesInv'
PROOF
  <1>1. UNCHANGED <<scenario, events, service, deployment, previous, stdout>> /\ lastSeenEventAt' = Seeded
    BY DEF LoadTaskDefinitionOnce, ecsVars, pollVars
  <1>2. CASE Seeded = lastSeenEventAt
    BY <1>1, <1>2, LinesStay
  <1>3. CASE Seeded # lastSeenEventAt
    <2>1. lastSeenEventAt = 0 /\ Seeded = Len(service.events) /\ Len(service.events) \in Nat
      BY <1>3 DEF Seeded, LinesInv
    <2>2. \A i \in DOMAIN stdout : ~IsEvent(stdout[i])
      BY <2>1 DEF LinesInv, NoneBeforeSeen
    <2>3. ContiguousUpTo(stdout, lastSeenEventAt') /\ NoneBeforeSeen(stdout, lastSeenEventAt')
      BY <2>2 DEF ContiguousUpTo, NoneBeforeSeen
    <2> QED BY <1>1, <2>1, <2>3 DEF LinesInv, EventsAreContiguous
  <1> QED BY <1>2, <1>3

LEMMA LinesOfPoll ==
  ASSUME LoggerInv, LinesInv, DescribeTasks
  PROVE  LinesInv'
PROOF
  <1>1. /\ UNCHANGED <<scenario, events, service, deployment>> /\ previous' \in {previous, NoDeployment}
        /\ stdout' = stdout \o DifferenceLines \o EventLines
        /\ lastSeenEventAt' = (IF Len(service.events) > lastSeenEventAt THEN Len(service.events) ELSE lastSeenEventAt)
    BY DEF DescribeTasks, ecsVars, Panics, pollVars, PollOver
  <1>2. Len(service.events) \in Nat /\ lastSeenEventAt \in Nat
    BY DEF LinesInv
  <1>3. PICK m \in Nat : m = lastSeenEventAt' /\ m >= lastSeenEventAt
    BY <1>1, <1>2
  <1>4. EventLines = NewEvents(lastSeenEventAt, m)
    <2>1. 1..(Len(service.events) - lastSeenEventAt) = 1..(m - lastSeenEventAt)
      BY <1>1, <1>2, <1>3
    <2> QED BY <2>1 DEF EventLines, NewEvents
  <1>5. DifferenceLines \in Seq(Line) /\ \A i \in DOMAIN DifferenceLines : ~IsEvent(DifferenceLines[i])
    <2>1. <<"running", deployment.running>> \in Line /\ ~IsEvent(<<"running", deployment.running>>)
      BY DEF LinesInv, Line, IsEvent
    <2>2. deployment # NoDeployment => <<"status", deployment.status>> \in Line /\ ~IsEvent(<<"status", deployment.status>>)
      BY DEF LoggerInv, ReadInv, Line, IsEvent
    <2>3. ASSUME NEW d \in Seq(Line), NEW e \in Seq(Line),
                 \A i \in DOMAIN d : ~IsEvent(d[i]), \A i \in DOMAIN e : ~IsEvent(e[i])
          PROVE  d \o e \in Seq(Line) /\ \A i \in DOMAIN (d \o e) : ~IsEvent((d \o e)[i])
      <3>1. d \o e \in Seq(Line) /\ DOMAIN (d \o e) = 1..(Len(d) + Len(e)) /\ Len(d) \in Nat /\ Len(e) \in Nat
        OBVIOUS
      <3>2. \A i \in 1..(Len(d) + Len(e)) : (d \o e)[i] = IF i <= Len(d) THEN d[i] ELSE e[i - Len(d)]
        BY ConcatProperties
      <3>3. ASSUME NEW i \in 1..(Len(d) + Len(e)) PROVE ~IsEvent((d \o e)[i])
        <4>1. i <= Len(d) => i \in DOMAIN d
          OBVIOUS
        <4>2. ~(i <= Len(d)) => i - Len(d) \in DOMAIN e
          BY <3>1
        <4> QED BY <2>3, <3>2, <4>1, <4>2
      <3> QED BY <3>1, <3>3
    <2> DEFINE a == <<"running", deployment.running>>
               b == <<"status", deployment.status>>
               d == IF deployment.running # previous.running THEN <<a>> ELSE <<>>
               e == IF deployment.status # previous.status THEN <<b>> ELSE <<>>
    <2>4. d \in Seq(Line) /\ \A i \in DOMAIN d : ~IsEvent(d[i])
      <3> HIDE DEF a
      <3> QED BY <2>1 DEF a
    <2>5. deployment # NoDeployment => e \in Seq(Line) /\ \A i \in DOMAIN e : ~IsEvent(e[i])
      <3> HIDE DEF b
      <3> QED BY <2>2 DEF b
    <2>6. IF deployment = NoDeployment \/ previous = NoDeployment THEN DifferenceLines = <<>> ELSE DifferenceLines = d \o e
      BY DEF DifferenceLines
    <2> HIDE DEF d, e
    <2>7. CASE DifferenceLines = <<>>
      BY <2>7
    <2>8. CASE deployment # NoDeployment /\ DifferenceLines = d \o e
      <3>1. d \o e \in Seq(Line) /\ \A i \in DOMAIN (d \o e) : ~IsEvent((d \o e)[i])
        BY <2>3, <2>4, <2>5, <2>8
      <3> QED BY <2>8, <3>1, Zenon
    <2> QED BY <2>6, <2>7, <2>8
  <1>6. stdout' \in Seq(Line) /\ ContiguousUpTo(stdout', m) /\ NoneBeforeSeen(stdout', m)
    <2>1. stdout \in Seq(Line) /\ ContiguousUpTo(stdout, lastSeenEventAt) /\ NoneBeforeSeen(stdout, lastSeenEventAt)
      BY DEF LinesInv, EventsAreContiguous
    <2>2. lastSeenEventAt <= m
      BY <1>2, <1>3
    <2> QED BY <1>1, <1>2, <1>4, <1>5, <2>1, <2>2, LinesGoOn
  <1>7. NoDeployment.running \in Nat
    BY DEF NoDeployment
  <1> HIDE DEF NoDeployment
  <1> QED BY <1>1, <1>3, <1>6, <1>7 DEF LinesInv, EventsAreContiguous

LEMMA LinesInvNext == LoggerInv /\ LinesInv /\ [Next]_vars => LinesInv'
PROOF
  <1> SUFFICES ASSUME LoggerInv, LinesInv, [Next]_vars PROVE LinesInv'
    OBVIOUS
  <1>1. CASE UNCHANGED <<ecsVars, loggerVars>>
    BY <1>1, LinesStay DEF ecsVars, loggerVars, cacheVars, pollVars
  <1>2. CASE EcsStep /\ UNCHANGED loggerVars
    BY <1>2, LinesOfEcs
  <1>3. CASE GetServiceFindsNone
    <2>1. /\ UNCHANGED <<scenario, events, deployment, previous, lastSeenEventAt, stdout>> /\ service' = NoService
      BY <1>3 DEF GetServiceFindsNone, Panics, ecsVars, pollVars
    <2> QED BY <2>1 DEF LinesInv, EventsAreContiguous, NoService
  <1>4. CASE GetService
    BY <1>4, LinesOfService
  <1>5. CASE LoadTaskDefinitionOnce
    BY <1>5, LinesOfSeed
  <1>6. CASE RefreshHealth \/ ListRunning \/ ListStopped
    BY <1>6, LinesStay DEF RefreshHealth, ListRunning, ListStopped, ecsVars, cacheVars, pollVars
  <1>7. CASE GetServiceFails \/ LoadTaskDefinitionFails \/ RefreshHealthFails \/ ListFails \/ DescribeFails
    BY <1>7, LinesStay
    DEF GetServiceFails, LoadTaskDefinitionFails, RefreshHealthFails, ListFails, DescribeFails, CallFails, PollOver,
        cacheVars, ecsVars
  <1>8. CASE DescribeTasks
    BY <1>8, LinesOfPoll
  <1>9. CASE NoServiceName
    BY <1>1, <1>9 DEF NoServiceName
  <1>10. CASE UNCHANGED vars
    BY <1>1, <1>10 DEF vars
  <1> QED BY <1>1, <1>2, <1>3, <1>4, <1>5, <1>6, <1>7, <1>8, <1>9, <1>10 DEF Next, GetDeployStatus, Over

-----------------------------------------------------------------------------
(* The story of a task.  What a task logger has told is what it has read;   *)
(* ECS never takes a task back to where it was.                             *)
TaskStates == {"none", "pending", "running", "stopped", "aborted"}
TaskLine == {"created", "started", "stopped"}

InOrder(told) ==
  \A i \in DOMAIN told, j \in DOMAIN told : i < j => Chapter[told[i]] < Chapter[told[j]]

(* A logger that has read the task as seen (nil: not at all) has told no    *)
(* more than that.                                                          *)
Told(told, seen) ==
  /\ told \in Seq(TaskLine) /\ InOrder(told)
  /\ seen \in TaskStates \cup {"nil"}
  /\ seen = "nil" => told = <<>>
  /\ \A i \in DOMAIN told : (told[i] = "started" => seen \in Started) /\ (told[i] = "stopped" => seen \in Stopped)

(* From seen to now the task may have gone on.                              *)
Later(seen, now_) ==
  /\ seen \in Started => now_ \in Started
  /\ seen \in Stopped => now_ = seen

Seen(t) == IF t \in DOMAIN taskLoggers THEN taskLoggers[t] ELSE "nil"

TasksInv ==
  /\ tasks \in [Tasks -> TaskStates]
  /\ DOMAIN taskLog = Tasks
  /\ phase # "panicked" => \A t \in toInit : Seen(t) = "nil"
  /\ \A t \in Tasks : Told(taskLog[t], Seen(t)) /\ Later(Seen(t), tasks[t])

LEMMA TasksInvInit == Init => TasksInv
PROOF
  <1> SUFFICES ASSUME Init PROVE TasksInv
    OBVIOUS
  <1>1. /\ tasks = [t \in Tasks |-> "none"] /\ taskLog = [t \in Tasks |-> <<>>] /\ DOMAIN taskLoggers = {}
        /\ toInit = {}
    BY DEF Init
  <1>2. Told(<<>>, "nil")
    BY DEF Told, InOrder
  <1>3. Later("nil", "none")
    BY DEF Later, Started, Stopped
  <1> QED BY <1>1, <1>2, <1>3 DEF TasksInv, Seen, TaskStates

(* One line more is told, of a later chapter than all before.               *)
LEMMA OneChapterMore ==
  ASSUME NEW told \in Seq(TaskLine), InOrder(told), NEW c \in TaskLine,
         \A i \in DOMAIN told : Chapter[told[i]] < Chapter[c]
  PROVE  /\ told \o <<c>> \in Seq(TaskLine) /\ InOrder(told \o <<c>>)
         /\ \A i \in DOMAIN (told \o <<c>>) : (told \o <<c>>)[i] = c \/ \E j \in DOMAIN told : (told \o <<c>>)[i] = told[j]
PROOF
  <1> DEFINE l == told \o <<c>>
             n == Len(told)
  <1>1. l \in Seq(TaskLine) /\ DOMAIN l = 1..(n + 1) /\ DOMAIN told = 1..n /\ n \in Nat /\ l[n + 1] = c
        /\ \A i \in 1..n : l[i] = told[i]
    OBVIOUS
  <1> HIDE DEF l, n
  <1>2. \A i \in 1..(n + 1) : i \in 1..n \/ i = n + 1
    BY <1>1
  <1>3. InOrder(l)
    <2> SUFFICES ASSUME NEW i \in 1..(n + 1), NEW j \in 1..(n + 1), i < j PROVE Chapter[l[i]] < Chapter[l[j]]
      BY <1>1 DEF InOrder
    <2>1. i \in 1..n
      BY <1>1
    <2>2. CASE j = n + 1
      BY <1>1, <2>1, <2>2
    <2>3. CASE j \in 1..n
      BY <1>1, <2>1, <2>3 DEF InOrder
    <2> QED BY <1>2, <2>2, <2>3
  <1>4. \A i \in 1..(n + 1) : l[i] = c \/ \E j \in 1..n : l[i] = told[j]
    BY <1>1, <1>2
  <1> QED BY <1>1, <1>3, <1>4 DEF l

LEMMA ToldBefore ==
  ASSUME NEW told \in Seq(TaskLine), NEW a \in Seq(TaskLine), NEW b \in Seq(TaskLine)
  PROVE  \E l : l = told \o a /\ told \o (a \o b) = l \o b
PROOF
  <1>1. told \o (a \o b) = (told \o a) \o b
    <2> DEFINE x == told \o (a \o b)
               y == (told \o a) \o b
    <2>1. x \in Seq(TaskLine) /\ y \in Seq(TaskLine) /\ Len(x) = Len(y)
      OBVIOUS
    <2>2. \A i \in 1..Len(x) : x[i] = y[i]
      OBVIOUS
    <2> HIDE DEF x, y
    <2>3. x = y
      BY <2>1, <2>2, SeqEqual
    <2> QED BY <2>3 DEF x, y
  <1> QED BY <1>1, Zenon

(* What a poll tells of a task that its logger has read before.             *)
HasStarted(seen, new) == IF new \in Started /\ seen \notin Started THEN <<"started">> ELSE <<>>
HasStopped(seen, new) == IF new \in Stopped /\ seen \notin Stopped THEN <<"stopped">> ELSE <<>>

LEMMA TellsDifference ==
  ASSUME NEW told, NEW seen \in TaskStates, NEW new \in TaskStates, Told(told, seen), Later(seen, new)
  PROVE  Told(told \o (HasStarted(seen, new) \o HasStopped(seen, new)), new)
PROOF
  <1> DEFINE a == HasStarted(seen, new)
             b == HasStopped(seen, new)
  <1>1. told \in Seq(TaskLine) /\ InOrder(told) /\ a \in Seq(TaskLine) /\ b \in Seq(TaskLine)
    <2>1. <<>> \in Seq(TaskLine) /\ <<"started">> \in Seq(TaskLine) /\ <<"stopped">> \in Seq(TaskLine)
      BY DEF TaskLine
    <2>2. told \in Seq(TaskLine) /\ InOrder(told)
      BY DEF Told
    <2> QED BY <2>1, <2>2 DEF HasStarted, HasStopped
  <1> HIDE DEF a, b
  <1>2. PICK l : l = told \o a /\ told \o (a \o b) = l \o b
    BY <1>1, ToldBefore, Zenon
  <1>8. \A i \in DOMAIN told : (told[i] = "started" => seen \in Started) /\ (told[i] = "stopped" => seen \in Stopped)
    BY DEF Told
  <1>3. Chapter["created"] = 1 /\ Chapter["started"] = 2 /\ Chapter["stopped"] = 3
    BY DEF Chapter
  <1>4. \A i \in DOMAIN told : told[i] \in TaskLine
    BY <1>1
  <1>6. l \in Seq(TaskLine) /\ InOrder(l)
        /\ \A i \in DOMAIN l : (l[i] = "started" => new \in Started) /\ (l[i] = "stopped" => seen \in Stopped)
    <2>1. CASE new \in Started /\ seen \notin Started
      <3>1. \A i \in DOMAIN told : told[i] = "created"
        <4>1. seen \notin Stopped
          BY <2>1 DEF Later
        <4>2. \A i \in DOMAIN told : told[i] \in {"created", "started", "stopped"}
          BY <1>4 DEF TaskLine
        <4> QED BY <1>8, <2>1, <4>1, <4>2
      <3>2. "started" \in TaskLine /\ \A i \in DOMAIN told : Chapter[told[i]] < Chapter["started"]
        BY <1>3, <3>1 DEF TaskLine
      <3>3. l = told \o <<"started">>
        BY <1>2, <2>1 DEF a, HasStarted
      <3>4. /\ l \in Seq(TaskLine) /\ InOrder(l)
            /\ \A i \in DOMAIN l : l[i] = "started" \/ \E j \in DOMAIN told : l[i] = told[j]
        BY <1>1, <3>2, <3>3, OneChapterMore
      <3>5. \A i \in DOMAIN l : l[i] \in {"started", "created"}
        BY <3>1, <3>4
      <3> QED BY <2>1, <3>4, <3>5
    <2>2. CASE ~(new \in Started /\ seen \notin Started)
      <3>1. l = told
        BY <1>1, <1>2, <2>2, ConcatEmptySeq DEF a, HasStarted
      <3>2. seen \in Started => new \in Started
        BY DEF Later
      <3> QED BY <1>1, <1>8, <3>1, <3>2
    <2> QED BY <2>1, <2>2
  <1>7. Told(l \o b, new)
    <2>1. CASE new \in Stopped /\ seen \notin Stopped
      <3>1. \A i \in DOMAIN l : l[i] \in {"created", "started"}
        BY <1>6, <2>1 DEF TaskLine
      <3>2. "stopped" \in TaskLine /\ \A i \in DOMAIN l : Chapter[l[i]] < Chapter["stopped"]
        BY <1>3, <3>1 DEF TaskLine
      <3>3. /\ l \o <<"stopped">> \in Seq(TaskLine) /\ InOrder(l \o <<"stopped">>)
            /\ \A i \in DOMAIN (l \o <<"stopped">>) :
                 (l \o <<"stopped">>)[i] = "stopped" \/ \E j \in DOMAIN l : (l \o <<"stopped">>)[i] = l[j]
        BY <1>6, <3>2, OneChapterMore
      <3>4. b = <<"stopped">> /\ new # "nil"
        BY <2>1 DEF Stopped, b, HasStopped
      <3>5. \A i \in DOMAIN (l \o <<"stopped">>) : (l \o <<"stopped">>)[i] = "started" => new \in Started
        BY <1>6, <3>3
      <3> QED BY <2>1, <3>3, <3>4, <3>5 DEF Told
    <2>2. CASE ~(new \in Stopped /\ seen \notin Stopped)
      <3>1. l \o b = l
        BY <1>6, <2>2, ConcatEmptySeq DEF b, HasStopped
      <3>2. (seen \in Stopped => new \in Stopped) /\ new # "nil"
        BY DEF Later, TaskStates
      <3> QED BY <1>6, <3>1, <3>2 DEF Told
    <2> QED BY <2>1, <2>2
  <1> QED BY <1>2, <1>7 DEF a, b

LEMMA TasksStay ==
  ASSUME TasksInv, UNCHANGED <<scenario, tasks, taskLoggers, taskLog>>, toInit' \subseteq toInit,
         phase' # "panicked" => phase # "panicked"
  PROVE  TasksInv'
  BY DEF TasksInv, Seen, Tasks

LEMMA TasksOfEcs ==
  ASSUME TasksInv, EcsStep, UNCHANGED loggerVars
  PROVE  TasksInv'
PROOF
  <1>1. UNCHANGED <<scenario, taskLoggers, taskLog, toInit, phase>>
    BY DEF EcsStep, loggerVars, pollVars
  <1>2. CASE UNCHANGED tasks
    BY <1>1, <1>2, TasksStay
  <1>3. CASE \E t \in Tasks : TaskMoves(t)
    <2>1. PICK t \in Tasks, s \in TaskStates :
            /\ tasks' = [tasks EXCEPT ![t] = s]
            /\ <<tasks[t], s>> \in {<<"none", "pending">>, <<"pending", "running">>, <<"pending", "aborted">>, <<"running", "stopped">>}
      BY <1>3 DEF TaskMoves, TaskStates
    <2>2. tasks' \in [Tasks -> TaskStates] /\ tasks'[t] = s /\ \A u \in Tasks : u # t => tasks'[u] = tasks[u]
      BY <2>1 DEF TasksInv
    <2>3. Tasks' = Tasks /\ \A u : Seen(u)' = Seen(u)
      BY <1>1 DEF Tasks, Seen
    <2>4. Later(Seen(t), s)
      <3>1. Later(Seen(t), tasks[t])
        BY DEF TasksInv
      <3> QED BY <2>1, <3>1 DEF Later, Started, Stopped
    <2>5. \A u \in Tasks : Later(Seen(u), tasks'[u])
      BY <2>2, <2>4 DEF TasksInv
    <2> HIDE DEF Tasks
    <2>6. \A u \in Tasks : Told(taskLog[u], Seen(u)) /\ Later(Seen(u), tasks'[u])
      BY <2>5 DEF TasksInv
    <2>7. DOMAIN taskLog' = Tasks' /\ (phase' # "panicked" => \A u \in toInit' : Seen(u)' = "nil")
      BY <1>1, <2>3 DEF TasksInv
    <2>8. \A u \in Tasks' : Told(taskLog'[u], Seen(u)') /\ Later(Seen(u)', tasks'[u])
      BY <1>1, <2>3, <2>6
    <2>9. tasks' \in [Tasks' -> TaskStates]
      BY <2>2, <2>3
    <2> QED BY <2>7, <2>8, <2>9 DEF TasksInv
  <1> QED BY <1>2, <1>3 DEF EcsStep, NewerDeployment, Drained, ServiceDeleted, RolloutEnds, ServiceEvent

(* New loggers have read nothing yet.                                       *)
LEMMA TasksOfList ==
  ASSUME TasksInv, ListStopped
  PROVE  TasksInv'
PROOF
  <1>1. /\ UNCHANGED <<scenario, tasks, taskLog>> /\ toInit' = AllTaskArns \ DOMAIN taskLoggers
        /\ taskLoggers' = [t \in DOMAIN taskLoggers \cup AllTaskArns |->
             IF t \in DOMAIN taskLoggers THEN taskLoggers[t] ELSE "nil"]
    BY DEF ListStopped, ecsVars
  <1>2. ASSUME NEW t PROVE Seen(t)' = Seen(t)
    BY <1>1 DEF Seen
  <1>3. \A t \in toInit' : Seen(t)' = "nil"
    BY <1>1, <1>2 DEF Seen
  <1>4. Tasks' = Tasks
    BY <1>1 DEF Tasks
  <1>5. \A t \in Tasks' : Told(taskLog'[t], Seen(t)') /\ Later(Seen(t)', tasks'[t])
    BY <1>1, <1>2, <1>4 DEF TasksInv
  <1> QED BY <1>1, <1>3, <1>4, <1>5 DEF TasksInv

LEMMA TasksOfPoll ==
  ASSUME TasksInv, DescribeTasks
  PROVE  TasksInv'
PROOF
  <1>1. /\ UNCHANGED <<scenario, tasks>>
        /\ taskLoggers' = [t \in DOMAIN taskLoggers |-> tasks[t]]
        /\ taskLog' = [t \in Tasks |-> taskLog[t] \o (IF t \in DOMAIN taskLoggers THEN TaskLines(t) ELSE <<>>)]
        /\ phase' = "panicked" \/ toInit' = {}
        /\ phase = "describe"
    BY DEF DescribeTasks, ecsVars, Panics, PollOver
  <1>2. Tasks' = Tasks
    BY <1>1 DEF Tasks
  <1>3. ASSUME NEW t \in Tasks
        PROVE  Told(taskLog'[t], Seen(t)') /\ Later(Seen(t)', tasks'[t])
    <2>1. Told(taskLog[t], Seen(t)) /\ Later(Seen(t), tasks[t]) /\ tasks[t] \in TaskStates
      BY DEF TasksInv
    <2>2. CASE t \notin DOMAIN taskLoggers
      <3>1. Seen(t)' = "nil" /\ Seen(t) = "nil" /\ taskLog'[t] = taskLog[t] \o <<>> /\ taskLog[t] = <<>>
        BY <1>1, <2>1, <2>2 DEF Seen, Told
      <3>2. Later("nil", tasks'[t])
        BY DEF Later, Started, Stopped
      <3> QED BY <2>1, <3>1, <3>2
    <2>3. CASE t \in DOMAIN taskLoggers
      <3>1. Seen(t)' = tasks[t] /\ Seen(t) = taskLoggers[t] /\ taskLog'[t] = taskLog[t] \o TaskLines(t)
        BY <1>1, <2>3 DEF Seen
      <3>2. Later(tasks[t], tasks'[t]) /\ tasks[t] # "nil"
        BY <1>1, <2>1 DEF Later, TaskStates
      <3>3. CASE t \in toInit
        <4>1. Seen(t) = "nil" /\ taskLog[t] = <<>> /\ TaskLines(t) = <<"created">>
          BY <1>1, <2>1, <3>3 DEF TasksInv, Told, TaskLines
        <4>2. taskLog'[t] = <<"created">>
          BY <3>1, <4>1
        <4>3. Told(<<"created">>, tasks[t])
          BY <2>1, <3>2 DEF Told, InOrder, TaskLine
        <4> QED BY <3>1, <3>2, <4>2, <4>3
      <3>4. CASE t \notin toInit /\ taskLoggers[t] = "nil"
        <4>1. taskLog[t] = <<>> /\ TaskLines(t) = <<>>
          BY <2>1, <3>1, <3>4 DEF Told, TaskLines
        <4>2. taskLog'[t] = <<>>
          BY <3>1, <4>1
        <4>3. Told(<<>>, tasks[t])
          BY <2>1 DEF Told, InOrder
        <4> QED BY <3>1, <3>2, <4>2, <4>3
      <3>5. CASE t \notin toInit /\ taskLoggers[t] # "nil"
        <4>1. TaskLines(t) = HasStarted(taskLoggers[t], tasks[t]) \o HasStopped(taskLoggers[t], tasks[t])
          BY <3>5, Zenon DEF TaskLines, HasStarted, HasStopped
        <4>2. taskLoggers[t] \in TaskStates
          BY <2>1, <3>1, <3>5 DEF Told
        <4>3. Told(taskLog[t] \o (HasStarted(taskLoggers[t], tasks[t]) \o HasStopped(taskLoggers[t], tasks[t])), tasks[t])
          BY <2>1, <3>1, <4>2, TellsDifference
        <4> QED BY <3>1, <3>2, <4>1, <4>3
      <3> QED BY <3>3, <3>4, <3>5
    <2> QED BY <2>2, <2>3
  <1>4. DOMAIN taskLog' = Tasks
    BY <1>1
  <1> QED BY <1>1, <1>2, <1>3, <1>4 DEF TasksInv

LEMMA TasksInvNext == TasksInv /\ [Next]_vars => TasksInv'
PROOF
  <1> SUFFICES ASSUME TasksInv, [Next]_vars PROVE TasksInv'
    OBVIOUS
  <1>1. CASE UNCHANGED <<ecsVars, loggerVars>>
    BY <1>1, TasksStay DEF ecsVars, loggerVars, pollVars
  <1>2. CASE EcsStep /\ UNCHANGED loggerVars
    BY <1>2, TasksOfEcs
  <1>3. CASE GetServiceFindsNone \/ GetService \/ LoadTaskDefinitionOnce \/ RefreshHealth \/ ListRunning
    BY <1>3, TasksStay
    DEF GetServiceFindsNone, Panics, GetService, LoadTaskDefinitionOnce, RefreshHealth, ListRunning, ecsVars, pollVars
  <1>4. CASE GetServiceFails \/ LoadTaskDefinitionFails \/ RefreshHealthFails \/ ListFails \/ DescribeFails
    BY <1>4, TasksStay
    DEF GetServiceFails, LoadTaskDefinitionFails, RefreshHealthFails, ListFails, DescribeFails, CallFails, PollOver, ecsVars
  <1>5. CASE ListStopped
    BY <1>5, TasksOfList
  <1>6. CASE DescribeTasks
    BY <1>6, TasksOfPoll
  <1>7. CASE NoServiceName
    BY <1>1, <1>7 DEF NoServiceName
  <1>8. CASE UNCHANGED vars
    BY <1>1, <1>8 DEF vars
  <1> QED BY <1>1, <1>2, <1>3, <1>4, <1>5, <1>6, <1>7, <1>8 DEF Next, GetDeployStatus, Over

-----------------------------------------------------------------------------
(* The service events are written one after the other, none twice and none  *)
(* left out, whichever polls fail half way: the watermark and the lines are *)
(* brought forward together, and the watermark is seeded only before them.  *)
THEOREM EventsNeverSkipped == Spec => []EventsAreContiguous
PROOF
  <1>1. LinesInv => EventsAreContiguous
    BY DEF LinesInv
  <1> QED BY <1>1, LoggerInvInit, LoggerInvNext, LinesInvInit, LinesInvNext, PTL DEF Spec

(* Of every task the lines tell its story once and in order, though a task  *)
(* goes on between two polls, and though a poll may fail after it has made  *)
(* the logger of a task and before it has read the task.                    *)
THEOREM TaskStoriesInOrder == Spec => []TaskStoryInOrder
PROOF
  <1>1. TasksInv => TaskStoryInOrder
    BY DEF TasksInv, TaskStoryInOrder, Told, InOrder
  <1> QED BY <1>1, TasksInvInit, TasksInvNext, PTL DEF Spec
=============================================================================
