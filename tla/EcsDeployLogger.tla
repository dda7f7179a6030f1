-------------------------- MODULE EcsDeployLogger --------------------------
(***************************************************************************)
(* aws/ecs.DeployLogger: the status getter of an ECS service.  Each call   *)
(* of GetDeployStatus reads the service, the health of its targets and the *)
(* deployment's tasks in separate API calls, keeps what it read, writes to *)
(* stdout what changed since the previous call and maps the deployment to  *)
(* a rollout status.  PollingDeployWatcher drives it.                      *)
(*                                                                         *)
(* ECS itself goes on between the calls: tasks start and stop, rollouts    *)
(* end, a newer deployment evicts this one and drains it.                  *)
(***************************************************************************)
EXTENDS PollingDeployWatcher, FiniteSets, Sequences

(* A state space for every part of ECS would be the product of the parts;  *)
(* the scenarios give a bound for each part: the tasks that ECS may start  *)
(* for the deployment, the service events that precede it and the service  *)
(* events in all, the AWS calls that fail, and whether a newer deployment  *)
(* may come.                                                               *)
CONSTANT Scenarios

(* The deployment under watch, and one that someone else starts later.     *)
Mine == "mine"
Newer == "newer"

ASSUME EcsAssumption ==
  /\ References = {Mine}
  /\ \A s \in Scenarios :
       /\ IsFiniteSet(s.tasks)
       /\ s.oldEvents \in Nat /\ s.maxEvents \in Nat /\ s.maxFailures \in Nat
       /\ s.newer \in BOOLEAN

VARIABLES
  scenario,     \* the bounds, which never change
  (* ECS *)
  deployments,  \* deployment -> its status and rollout state
  tasks,        \* task -> "none", "pending", "running", "stopped" or "aborted"
  events,       \* the owners of the service events; event i was created at i
  serviceUp,    \* the service exists
  failures,     \* the AWS calls that failed so far
  (* DeployLogger *)
  serviceName,  \* the service_name output: "set" or "empty"
  phase,        \* the AWS call that GetDeployStatus makes next
  service,      \* d.service, its events and the owner of its task definition
  deployment,   \* d.deployment, NoDeployment when nil
  previous,     \* previousDeployment, local to one poll
  taskDef,      \* the deployment that d.taskDefinition belongs to, or "nil"
  lastSeenEventAt,
  listed,       \* what the first ListTasks call returned, local to one poll
  taskLoggers,  \* task ARN -> the task as read last, "nil" before Init
  toInit,       \* taskArnsToInit, local to one poll
  stdout,       \* the lines about the deployment and the service, in order
  taskLog       \* task -> the lines about it, in order

ecsVars == <<scenario, deployments, tasks, events, serviceUp, failures>>
cacheVars == <<service, deployment, taskDef, lastSeenEventAt>>
pollVars == <<previous, listed, toInit>>
loggerVars == <<serviceName, phase, cacheVars, pollVars, taskLoggers, stdout, taskLog>>
vars == <<watchVars, ecsVars, loggerVars>>

Tasks == scenario.tasks

NoDeployment == [status |-> "nil", rollout |-> "nil", running |-> 0]
NoService == [events |-> <<>>, taskDef |-> "nil"]

(* What slices.Compact leaves at the end of a list that it shortened: "".  *)
EmptyArn == "empty"

Init ==
  /\ WatchInit
  /\ deployments = [d \in {Mine, Newer} |->
       [status  |-> IF d = Mine THEN "PRIMARY" ELSE "none",
        rollout |-> "IN_PROGRESS"]]
  /\ scenario \in Scenarios
  /\ tasks = [t \in Tasks |-> "none"]
  /\ events = [i \in 1..scenario.oldEvents |-> "older"]
  /\ serviceUp = TRUE
  /\ failures = 0
  /\ serviceName \in {"set", "empty"}
  /\ phase = "service"
  /\ service = NoService
  /\ deployment = NoDeployment
  /\ previous = NoDeployment
  /\ taskDef = "nil"
  /\ lastSeenEventAt = 0
  /\ listed = {}
  /\ taskLoggers = [t \in {} |-> "nil"]
  /\ toInit = {}
  /\ stdout = <<>>
  /\ taskLog = [t \in Tasks |-> <<>>]

-----------------------------------------------------------------------------
(* ECS.                                                                    *)

(* The deployments that ECS lists with the service.                        *)
Listed == {d \in {Mine, Newer} : deployments[d].status \in {"PRIMARY", "ACTIVE", "INACTIVE"}}

(* A newer deployment becomes the primary one; this one is still active.   *)
NewerDeployment ==
  /\ scenario.newer
  /\ deployments[Newer].status = "none"
  /\ serviceUp
  /\ deployments' = [deployments EXCEPT ![Newer].status = "PRIMARY",
                                        ![Mine].status = "ACTIVE"]
  /\ UNCHANGED <<tasks, events, serviceUp, failures>>

RolloutEnds(d) ==
  /\ deployments[d].status = "PRIMARY"
  /\ deployments[d].rollout = "IN_PROGRESS"
  /\ \E how \in {"COMPLETED", "FAILED"} :
       deployments' = [deployments EXCEPT ![d].rollout = how]
  /\ UNCHANGED <<tasks, events, serviceUp, failures>>

(* An evicted deployment is drained: ECS lists it as INACTIVE or not at    *)
(* all.                                                                    *)
Drained ==
  /\ \/ /\ deployments[Mine].status \in {"ACTIVE", "INACTIVE"}
        /\ deployments' = [deployments EXCEPT ![Mine].status = "gone"]
     \/ /\ deployments[Mine].status = "ACTIVE"
        /\ deployments' = [deployments EXCEPT ![Mine].status = "INACTIVE"]
  /\ UNCHANGED <<tasks, events, serviceUp, failures>>

ServiceDeleted ==
  /\ serviceUp
  /\ serviceUp' = FALSE
  /\ UNCHANGED <<deployments, tasks, events, failures>>

TaskMoves(t) ==
  /\ \/ /\ tasks[t] = "none"
        /\ deployments[Mine].status = "PRIMARY"
        /\ tasks' = [tasks EXCEPT ![t] = "pending"]
     \/ /\ tasks[t] = "pending"
        /\ \E s \in {"running", "aborted"} : tasks' = [tasks EXCEPT ![t] = s]
     \/ /\ tasks[t] = "running"
        /\ tasks' = [tasks EXCEPT ![t] = "stopped"]
  /\ UNCHANGED <<deployments, events, serviceUp, failures>>

ServiceEvent(owner) ==
  /\ Len(events) < scenario.maxEvents
  /\ events' = Append(events, owner)
  /\ UNCHANGED <<deployments, tasks, serviceUp, failures>>

EcsStep ==
  /\ \/ NewerDeployment
     \/ Drained
     \/ ServiceDeleted
     \/ \E d \in Listed : RolloutEnds(d) \/ ServiceEvent(d)
     \/ \E t \in Tasks : TaskMoves(t)
  /\ UNCHANGED scenario

(* A task that stops before it runs never started.                         *)
Stopped == {"stopped", "aborted"}
Started == {"running", "stopped"}

RunningCount(d) ==
  IF d = Mine THEN Cardinality({t \in Tasks : tasks[t] = "running"}) ELSE 0

(* A newer deployment brings its own task definition to the service.       *)
ServiceTaskDef == IF Newer \in Listed THEN Newer ELSE Mine

(* DescribeTasks refuses a list that holds an empty ARN.                   *)
DescribeRefuses(arns) == EmptyArn \in arns

-----------------------------------------------------------------------------
(* GetDeployStatus, one action per AWS call with everything up to the next *)
(* one.  The watcher never passes an empty reference.                      *)

(* The poll's local variables go when it returns.                          *)
PollOver ==
  /\ phase' = "service"
  /\ previous' = NoDeployment
  /\ listed' = {}
  /\ toInit' = {}

(* An AWS call fails by itself, or because the caller's context has ended. *)
CallFails ==
  /\ \/ failures < scenario.maxFailures /\ failures' = failures + 1
     \/ ctx # "live" /\ UNCHANGED failures
  /\ PollReturns("unknown", TRUE)
  /\ PollOver
  /\ UNCHANGED <<scenario, deployments, tasks, events, serviceUp>>

(* A nil pointer is dereferenced: the process dies inside GetDeployStatus. *)
Panics == phase' = "panicked" /\ UNCHANGED <<watchVars, pollVars>>

NoServiceName ==
  /\ phase = "service"
  /\ serviceName = "empty"
  /\ PollReturns("complete", FALSE)
  /\ UNCHANGED <<ecsVars, loggerVars>>

GetServiceFails ==
  /\ phase = "service"
  /\ serviceName = "set"
  /\ CallFails
  /\ UNCHANGED <<serviceName, cacheVars, taskLoggers, stdout, taskLog>>

(* GetService finds no service: nil, which refresh dereferences.           *)
GetServiceFindsNone ==
  /\ phase = "service"
  /\ serviceName = "set"
  /\ pc = "polling"
  /\ ~serviceUp
  /\ service' = NoService
  /\ Panics
  /\ UNCHANGED <<ecsVars, serviceName, deployment, taskDef, lastSeenEventAt, taskLoggers, stdout, taskLog>>

(* Mutant of Refreshed: the primary deployment, not the one asked for.     *)
RefreshedFrom(d) ==
  [status |-> deployments[d].status, rollout |-> deployments[d].rollout,
   running |-> RunningCount(d)]

RefreshedPrimary ==
  IF \E d \in Listed : deployments[d].status = "PRIMARY"
    THEN RefreshedFrom(CHOOSE d \in Listed : deployments[d].status = "PRIMARY")
    ELSE deployment

(* refreshDeployment: a deployment that ECS no longer lists stays as it    *)
(* was read last.                                                          *)
Refreshed ==
  IF reference \in Listed
    THEN [status  |-> deployments[reference].status,
          rollout |-> deployments[reference].rollout,
          running |-> RunningCount(reference)]
    ELSE deployment

GetService ==
  /\ phase = "service"
  /\ serviceName = "set"
  /\ pc = "polling"
  /\ serviceUp
  /\ service' = [events |-> events, taskDef |-> ServiceTaskDef]
  /\ previous' = deployment
  /\ deployment' = Refreshed
  /\ stdout' = IF Refreshed # NoDeployment /\ deployment = NoDeployment
                 THEN Append(stdout, <<"deployment", "created">>) ELSE stdout
  /\ phase' = "taskDef"
  /\ UNCHANGED <<watchVars, ecsVars, serviceName, taskDef, lastSeenEventAt,
                 listed, toInit, taskLoggers, taskLog>>

(* initLastSeenEvent: seeded once a deployment was read, again and again   *)
(* for as long as the service has no event.                                *)
Seeded ==
  IF lastSeenEventAt = 0 /\ deployment # NoDeployment
    THEN Len(service.events) ELSE lastSeenEventAt

(* loadTaskDefinitionOnce, which calls AWS only until it succeeds; then    *)
(* initLoadBalancers and initLastSeenEvent.                                *)
LoadTaskDefinitionOnce ==
  /\ phase = "taskDef"
  /\ taskDef' = IF taskDef = "nil" THEN service.taskDef ELSE taskDef
  /\ lastSeenEventAt' = Seeded
  /\ phase' = "health"
  /\ UNCHANGED <<watchVars, ecsVars, serviceName, service, deployment, pollVars,
                 taskLoggers, stdout, taskLog>>

LoadTaskDefinitionFails ==
  /\ phase = "taskDef"
  /\ taskDef = "nil"
  /\ CallFails
  /\ UNCHANGED <<serviceName, cacheVars, taskLoggers, stdout, taskLog>>

(* loadBalancers.RefreshHealth; the targets only word the container lines. *)
RefreshHealth ==
  /\ phase = "health"
  /\ phase' = "listRunning"
  /\ UNCHANGED <<watchVars, ecsVars, serviceName, cacheVars, pollVars, taskLoggers, stdout, taskLog>>

(* There are load balancers to ask only once a deployment was read.        *)
RefreshHealthFails ==
  /\ phase = "health"
  /\ deployment # NoDeployment
  /\ CallFails
  /\ UNCHANGED <<serviceName, cacheVars, taskLoggers, stdout, taskLog>>

(* GetAllDeploymentTaskArns, first call: tasks that should run.            *)
ListRunning ==
  /\ phase = "listRunning"
  /\ listed' = {t \in Tasks : tasks[t] \in {"pending", "running"}}
  /\ phase' = "listStopped"
  /\ UNCHANGED <<watchVars, ecsVars, serviceName, cacheVars, previous, toInit,
                 taskLoggers, stdout, taskLog>>

(* Second call: tasks that should be stopped.  The two answers are sorted  *)
(* together; Compact moves the duplicates' places to the end of the list,  *)
(* cleared, and the list keeps its length.                                 *)
AllTaskArns ==
  LET stopped == {t \in Tasks : tasks[t] \in Stopped}
  IN  listed \cup stopped \cup (IF listed \cap stopped = {} THEN {} ELSE {EmptyArn})

ListStopped ==
  /\ phase = "listStopped"
  /\ toInit' = AllTaskArns \ DOMAIN taskLoggers
  /\ taskLoggers' = [t \in DOMAIN taskLoggers \cup AllTaskArns |->
       IF t \in DOMAIN taskLoggers THEN taskLoggers[t] ELSE "nil"]
  /\ phase' = "describe"
  /\ UNCHANGED <<watchVars, ecsVars, serviceName, cacheVars, previous, listed, stdout, taskLog>>

ListFails ==
  /\ phase \in {"listRunning", "listStopped"}
  /\ CallFails
  /\ UNCHANGED <<serviceName, cacheVars, taskLoggers, stdout, taskLog>>

(* New task loggers stay when the call that should initialize them fails.  *)
DescribeFails ==
  /\ phase = "describe"
  /\ DOMAIN taskLoggers # {}
  /\ \/ CallFails
     \/ /\ DescribeRefuses(DOMAIN taskLoggers)
        /\ PollReturns("unknown", TRUE)
        /\ PollOver
        /\ UNCHANGED ecsVars
  /\ UNCHANGED <<serviceName, cacheVars, taskLoggers, stdout, taskLog>>

(* Mutant: the previous state of the task is not compared.                 *)
TaskLinesUncompared(t) ==
  IF t \in toInit THEN <<"created">>
  ELSE IF tasks[t] \in Started THEN <<"started">> ELSE <<>>

(* deployTaskLogger.Init, or Refresh with comparePrevious.                 *)
TaskLines(t) ==
  LET old == taskLoggers[t]
      new == tasks[t]
  IN  IF t \in toInit THEN <<"created">>
      ELSE IF old = "nil" THEN <<>>
      ELSE (IF new \in Started /\ old \notin Started THEN <<"started">> ELSE <<>>)
        \o (IF new \in Stopped /\ old \notin Stopped THEN <<"stopped">> ELSE <<>>)

(* logDifferences: the deployment as this poll read it and as the poll     *)
(* before did.                                                             *)
DifferenceLines ==
  IF deployment = NoDeployment \/ previous = NoDeployment THEN <<>>
  ELSE (IF deployment.running # previous.running
          THEN << <<"running", deployment.running>> >> ELSE <<>>)
    \o (IF deployment.status # previous.status
          THEN << <<"status", deployment.status>> >> ELSE <<>>)

(* Mutant: the last event seen is not excluded.                            *)
EventLinesFromLastSeen ==
  [i \in 1..(Len(service.events) - lastSeenEventAt + 1) |-> <<"event", lastSeenEventAt + i - 1>>]

(* logNewEvents: those created after the last one seen, oldest first.      *)
EventLines ==
  [i \in 1..(Len(service.events) - lastSeenEventAt) |-> <<"event", lastSeenEventAt + i>>]

(* Mutant: a completed rollout is not recognized.                          *)
StatusOfUncompleted(d) ==
  CASE d.status \in {"ACTIVE", "INACTIVE"}                  -> <<"cancelled", TRUE>>
    [] d.status = "PRIMARY" /\ d.rollout = "IN_PROGRESS" -> <<"in-progress", FALSE>>
    [] d.status = "PRIMARY" /\ d.rollout = "COMPLETED"   -> <<"unknown", TRUE>>
    [] d.status = "PRIMARY" /\ d.rollout = "FAILED"      -> <<"failed", FALSE>>

(* The rollout status of the deployment and whether it comes with an error *)
(* (isEvicted).                                                            *)
StatusOf(d) ==
  CASE d.status \in {"ACTIVE", "INACTIVE"} -> <<"cancelled", TRUE>>
    [] d.status = "PRIMARY" ->
         CASE d.rollout = "IN_PROGRESS" -> <<"in-progress", FALSE>>
           [] d.rollout = "COMPLETED"   -> <<"complete", FALSE>>
           [] d.rollout = "FAILED"      -> <<"failed", FALSE>>

(* The tasks are described in no order of their own (getAllTaskArns ranges *)
(* over a map), hence the lines are kept by task.                          *)
DescribeTasks ==
  /\ phase = "describe"
  /\ ~DescribeRefuses(DOMAIN taskLoggers)
  /\ taskLoggers' = [t \in DOMAIN taskLoggers |-> tasks[t]]
  /\ taskLog' = [t \in Tasks |-> taskLog[t] \o (IF t \in DOMAIN taskLoggers THEN TaskLines(t) ELSE <<>>)]
  /\ stdout' = stdout \o DifferenceLines \o EventLines
  /\ lastSeenEventAt' = IF Len(service.events) > lastSeenEventAt
                          THEN Len(service.events) ELSE lastSeenEventAt
  /\ \/ deployment = NoDeployment /\ Panics
     \/ /\ deployment # NoDeployment
        /\ PollReturns(StatusOf(deployment)[1], StatusOf(deployment)[2])
        /\ PollOver
  /\ UNCHANGED <<ecsVars, serviceName, service, deployment, taskDef>>

GetDeployStatus ==
  \/ NoServiceName
  \/ GetServiceFails
  \/ GetServiceFindsNone
  \/ GetService
  \/ LoadTaskDefinitionOnce
  \/ LoadTaskDefinitionFails
  \/ RefreshHealth
  \/ RefreshHealthFails
  \/ ListRunning
  \/ ListStopped
  \/ ListFails
  \/ DescribeFails
  \/ DescribeTasks

(* Nothing runs in a process that has panicked or returned from Watch.     *)
Over == (phase = "panicked" \/ pc = "returned") /\ UNCHANGED vars

Next ==
  \/ /\ phase # "panicked" /\ pc # "returned"
     /\ \/ WatchStep /\ UNCHANGED <<ecsVars, loggerVars>>
        \/ EcsStep /\ UNCHANGED <<watchVars, loggerVars>>
  \/ GetDeployStatus
  \/ Over

Spec == Init /\ [][Next]_vars

(* AWS calls return, and while the context lives they fail only finitely   *)
(* often; the select takes note of a context that has ended.               *)
FairSpec ==
  /\ Spec
  /\ WF_vars((WatchNothing \/ WatchBegins) /\ UNCHANGED <<ecsVars, loggerVars>>)
  /\ WF_vars(SelectDelay /\ UNCHANGED <<ecsVars, loggerVars>>)
  /\ WF_vars(Tick /\ UNCHANGED <<ecsVars, loggerVars>>)
  /\ SF_vars(SelectCtxDone /\ UNCHANGED <<ecsVars, loggerVars>>)
  /\ WF_vars(GetDeployStatus)

-----------------------------------------------------------------------------
(* The verdict of the watch is one about this deployment, not another one  *)
(* of the service, even if it is evicted between two calls of a poll: it   *)
(* completed, it failed, or a newer one took its place.  A completion or a *)
(* failure is told only if it was read before the eviction.                *)
VerdictIsOfThisDeployment ==
  /\ result = "nil" =>
       \/ reference = NoReference
       \/ serviceName = "empty"
       \/ deployments[Mine].rollout = "COMPLETED" /\ deployment.status = "PRIMARY"
  /\ result = "ErrFailed" =>
       deployments[Mine].rollout = "FAILED" /\ deployment.status = "PRIMARY"
  /\ result = "CancelError" => ctx = "cancelled" \/ Newer \in Listed

(* Service events are written one after the other, none twice, none out of *)
(* order and, from the first one on, none left out, whichever polls fail   *)
(* half way (logNewEvents, lastSeenEventAt).                               *)
IsEvent(line) == line[1] = "event"

ContiguousUpTo(lines, last) ==
  \A i \in DOMAIN lines :
    IsEvent(lines[i]) =>
      \/ \E j \in DOMAIN lines :
           /\ i < j /\ lines[j] = <<"event", lines[i][2] + 1>>
           /\ \A k \in (i + 1)..(j - 1) : ~IsEvent(lines[k])
      \/ /\ lines[i][2] = last
         /\ \A k \in DOMAIN lines : k > i => ~IsEvent(lines[k])

EventsAreContiguous == ContiguousUpTo(stdout, lastSeenEventAt)

(* The lines about a task tell its story once and in order: created, then  *)
(* started, then stopped, whichever polls fail half way.                   *)
Chapter == [created |-> 1, started |-> 2, stopped |-> 3]

TaskStoryInOrder ==
  \A t \in Tasks :
    \A i \in DOMAIN taskLog[t], j \in DOMAIN taskLog[t] : i < j => Chapter[taskLog[t][i]] < Chapter[taskLog[t][j]]

(* A deployment that completes and is not evicted ends the watch, however  *)
(* many AWS calls failed before, unless the task list was corrupted (an    *)
(* empty ARN, which AllTaskArns may leave, is among the task loggers).     *)
CompletedForGood ==
  /\ serviceUp
  /\ deployments[Mine] = [status |-> "PRIMARY", rollout |-> "COMPLETED"]
  /\ EmptyArn \notin DOMAIN taskLoggers

CompletionReported == <>[]CompletedForGood => <>(pc = "returned")
=============================================================================
