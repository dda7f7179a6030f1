------------------------------- MODULE EcsStatus -------------------------------
(***************************************************************************)
(* aws/ecs: the status views and the actions of a service, and of a job    *)
(* (a task without a service).  Tasks are listed by the status that they   *)
(* are wanted in, then described, then enriched with the health of the     *)
(* load balancers, the task definitions and their version tags.  Only the  *)
(* first page of a list is read, and no more tasks than that are described *)
(* in one request.                                                         *)
(***************************************************************************)
EXTENDS StatusCalls

CONSTANTS
  PageSize,   \* the tasks of one page of ListTasks, and of one DescribeTasks
  MaxTasks    \* bound on the tasks that were ever run

ASSUME EcsStatusAssumption == PageSize \in Nat

IsEcsJob == app.kind = "ecsjob"
IsEcsService == app.kind = "ecsservice"
IsEcs == IsEcsJob \/ IsEcsService

(* Task definitions 1 and 2 carry the versions 1 and 2 in their tags.  The *)
(* outputs of the app name the second.                                     *)
OutputsDefinition == 2
NoVersion == 0

(* A task: its status, whether it is wanted to run, whether a user stopped *)
(* it, its definition, and what it ended with: the stop code and the exit  *)
(* codes of the containers that have one, as a set.                        *)
NewTask(def) ==
  [status |-> "PROVISIONING", wanted |-> TRUE, killed |-> FALSE, def |-> def, stop |-> "none", exits |-> {}]

(* deployments are those of the service, by their definition; healthy the  *)
(* tasks that the load balancer of the service finds healthy.              *)
EcsStatusInit ==
  \E kind \in {"ecsjob", "ecsservice"} :
    /\ app = [kind |-> kind]
    /\ cloud = [tasks |-> <<NewTask(1)>>, deployments |-> <<1>>, healthy |-> {}]
    /\ CallsInit({"Status", "StatusOverview", "restart-deployment", "kill-task"}
                 \cup (IF kind = "ecsjob" THEN {"rerun-job"} ELSE {}))

Existing == {i \in DOMAIN cloud.tasks : cloud.tasks[i].status # "GONE"}
Wanted(want) == {i \in Existing : cloud.tasks[i].wanted = want}

TaskIs(i, t) == Moves([cloud EXCEPT !.tasks[i] = t])

TaskStarts ==
  \E i \in DOMAIN cloud.tasks : LET t == cloud.tasks[i] IN
    /\ t.status = "PROVISIONING" /\ t.wanted
    /\ TaskIs(i, [t EXCEPT !.status = "RUNNING"])

TaskEnding ==
  \E i \in DOMAIN cloud.tasks : LET t == cloud.tasks[i] IN
    /\ t.status = "RUNNING"
    /\ TaskIs(i, [t EXCEPT !.status = "STOPPING", !.wanted = FALSE])

TaskStops ==
  \E i \in DOMAIN cloud.tasks, exits \in SUBSET {0, 1} : LET t == cloud.tasks[i] IN
    \/ /\ t.status = "PROVISIONING" /\ exits = {}
       /\ TaskIs(i, [t EXCEPT !.status = "STOPPED", !.wanted = FALSE, !.stop = "TaskFailedToStart"])
    \/ /\ t.status = "STOPPING"
       /\ \E code \in IF t.killed THEN {"UserInitiated"} ELSE {"EssentialContainerExited", "SpotInterruption"} :
            TaskIs(i, [t EXCEPT !.status = "STOPPED", !.stop = code, !.exits = exits])

(* A stopped task is forgotten after an hour.                              *)
TaskForgotten ==
  \E i \in DOMAIN cloud.tasks :
    /\ cloud.tasks[i].status = "STOPPED"
    /\ TaskIs(i, [cloud.tasks[i] EXCEPT !.status = "GONE"])

TaskRuns ==
  /\ Len(cloud.tasks) < MaxTasks
  /\ Moves([cloud EXCEPT !.tasks = Append(@, NewTask(2))])

HealthChanges ==
  /\ IsEcsService
  /\ \E i \in DOMAIN cloud.tasks :
       /\ cloud.tasks[i].status = "RUNNING"
       /\ Moves([cloud EXCEPT !.healthy = IF i \in @ THEN @ \ {i} ELSE @ \cup {i}])

-----------------------------------------------------------------------------
ClassifyStoppedPhase(t) ==
  IF t.stop = "TaskFailedToStart" \/ 1 \in t.exits THEN "Failed"
  ELSE IF t.exits # {} \/ t.stop \in {"UserInitiated", "EssentialContainerExited"} THEN "Succeeded" ELSE "Failed"

DeriveEcsJobPhase(t) ==
  CASE t.status = "PROVISIONING" -> "Queued"
    [] t.status = "STOPPED" -> ClassifyStoppedPhase(t)
    [] OTHER -> "Running"

StatusTaskFromEcsTask(t) ==
  [status |-> t.status, phase |-> DeriveEcsJobPhase(t), def |-> t.def, image |-> NoVersion,
   health |-> "none", version |-> NoVersion]

(* Mutant: the stopped tasks are listed before the running ones.           *)
StoppedFirst(list) == IF list = "first" THEN Wanted(FALSE) ELSE Wanted(TRUE)

(* The tasks of the family: the running ones, then the stopped ones.       *)
FamilyTasks(list) == IF list = "first" THEN Wanted(TRUE) ELSE Wanted(FALSE)

(* What ListTasks returns of some tasks: all, or a page of them, whose     *)
(* token to the next one is not used.                                      *)
Pages(tasks) ==
  IF Cardinality(tasks) <= PageSize THEN {tasks} ELSE {page \in SUBSET tasks : Cardinality(page) = PageSize}

(* since: the tasks that were there when the call began; cut: whether a    *)
(* list had more than one page; arns: how many tasks the lists name.       *)
ListFamilyTasks(c) ==
  /\ Starting(c, {"Status"}) /\ IsEcsJob
  /\ \E page \in Pages(FamilyTasks("first")) :
       Goes(c, "stopped", [found |-> page, since |-> Existing, lost |-> FALSE, cut |-> page # FamilyTasks("first")])
  /\ UNCHANGED cloud

(* The error of the first list is overwritten by the second list.          *)
FirstListFails(c) ==
  /\ Starting(c, {"Status"}) /\ IsEcsJob
  /\ GoesWithout(c, "stopped", [found |-> {}, since |-> Existing, lost |-> TRUE, cut |-> FALSE])

EmptyView(since, cut) == [tasks |-> <<>>, since |-> since, cut |-> cut]

ListStoppedTasks(c) ==
  /\ pc[c] = "stopped"
  /\ \E page \in Pages(FamilyTasks("second")) :
       LET found == read[c].found \cup page
           cut == read[c].cut \/ page # FamilyTasks("second")
       IN
       IF read[c].lost THEN Panics(c)
       ELSE IF found = {} THEN Returns(c, EmptyView(read[c].since, cut))
       ELSE Goes(c, "describe", [found |-> found, since |-> read[c].since, cut |-> cut,
                                 arns |-> Cardinality(read[c].found) + Cardinality(page)])
  /\ UNCHANGED cloud

(* What a service shows of its tasks is not claimed to be complete.        *)
ListServiceTasks(c) ==
  /\ Starting(c, {"Status"}) /\ IsEcsService
  /\ \E found \in Pages(Wanted(TRUE)) :
       IF found = {}
       THEN Goes(c, "service", EmptyView({}, FALSE))
       ELSE Goes(c, "describe", [found |-> found, since |-> {}, cut |-> FALSE, arns |-> Cardinality(found)])
  /\ UNCHANGED cloud

(* A request that names more tasks than a page is refused.                 *)
DescribeTasks(c) ==
  /\ pc[c] = "describe"
  /\ IF read[c].arns > PageSize
     THEN Refuses(c)
     ELSE Goes(c, IF IsEcsService THEN "service" ELSE "definitions",
               [tasks |-> [i \in read[c].found \cap Existing |-> StatusTaskFromEcsTask(cloud.tasks[i])],
                since |-> read[c].since, cut |-> read[c].cut])
  /\ UNCHANGED cloud

(* The service itself shows its name; its load balancers are asked next.   *)
GetServiceOf(c) ==
  /\ pc[c] = "service"
  /\ Goes(c, "health", read[c])
  /\ UNCHANGED cloud

RefreshHealth(c) ==
  /\ pc[c] = "health"
  /\ Goes(c, "definitions", [read[c] EXCEPT !.tasks =
       [i \in DOMAIN @ |-> [@[i] EXCEPT !.health = IF i \in cloud.healthy THEN "healthy" ELSE "unhealthy"]]])
  /\ UNCHANGED cloud

(* ResourceTagsCache: by the arn of the definition.                        *)
VersionTag(def) == def

(* TaskDefinitionsCache asks for the definition in the outputs whatever    *)
(* the arn.  A job's executions carry the version of their own definition, *)
(* or none where the tags cannot be read.                                  *)
EnrichTasks(c) ==
  /\ pc[c] = "definitions"
  /\ \E untagged \in SUBSET DOMAIN read[c].tasks :
       /\ IsEcsService => untagged = {}
       /\ failures + Cardinality(untagged) <= MaxFailures
       /\ failures' = failures + Cardinality(untagged)
       /\ Ends(c, "ok", [read[c] EXCEPT !.tasks =
            [i \in DOMAIN @ |-> LET t == read[c].tasks[i] IN
               [t EXCEPT !.image = OutputsDefinition,
                         !.version = IF IsEcsService \/ i \in untagged THEN NoVersion ELSE VersionTag(t.def)]]])
  /\ UNCHANGED cloud

(* The overview of a job is empty.  That of a service has its deployments, *)
(* each with the version of its definition, or none.                       *)
OverviewOfJob(c) ==
  /\ Starting(c, {"StatusOverview"}) /\ IsEcsJob
  /\ Returns(c, <<>>)
  /\ UNCHANGED cloud

GetDeployments(c) ==
  /\ Starting(c, {"StatusOverview"}) /\ IsEcsService
  /\ Goes(c, "tags", cloud.deployments)
  /\ UNCHANGED cloud

TagDeployments(c) ==
  /\ pc[c] = "tags"
  /\ \E untagged \in SUBSET DOMAIN read[c] :
       /\ failures + Cardinality(untagged) <= MaxFailures
       /\ failures' = failures + Cardinality(untagged)
       /\ Ends(c, "ok", [i \in DOMAIN read[c] |->
            [def |-> read[c][i], version |-> IF i \in untagged THEN NoVersion ELSE VersionTag(read[c][i])]])
  /\ UNCHANGED cloud

-----------------------------------------------------------------------------
(* The actions.                                                            *)
RestartDeployment(c) ==
  /\ Starting(c, {"restart-deployment"})
  /\ IF IsEcsJob
     THEN Refuses(c) /\ UNCHANGED cloud
     ELSE /\ Returns(c, Nothing)
          /\ cloud' = [cloud EXCEPT !.deployments = Append(@, @[Len(@)])]

(* Stopping a task that has stopped is no error.                           *)
KillTask(c) ==
  /\ Starting(c, {"kill-task"})
  /\ \E i \in DOMAIN cloud.tasks : LET t == cloud.tasks[i] IN
       IF t.status = "GONE"
       THEN Refuses(c) /\ UNCHANGED cloud
       ELSE /\ Returns(c, i)
            /\ cloud' = IF t.wanted
                        THEN [cloud EXCEPT !.tasks[i] = [t EXCEPT !.wanted = FALSE, !.killed = TRUE, !.status = "STOPPING"]]
                        ELSE cloud

DescribeSourceTask(c) ==
  /\ Starting(c, {"rerun-job"})
  /\ \E i \in DOMAIN cloud.tasks :
       IF i \in Existing THEN Goes(c, "run", [def |-> cloud.tasks[i].def]) ELSE Refuses(c)
  /\ UNCHANGED cloud

(* The task that runs has the definition of its source.                    *)
RunTask(c) ==
  /\ pc[c] = "run"
  /\ Len(cloud.tasks) < MaxTasks
  /\ Returns(c, read[c])
  /\ cloud' = [cloud EXCEPT !.tasks = Append(@, NewTask(read[c].def))]

EcsRequestFails(c) ==
  /\ \/ pc[c] \in {"stopped", "describe", "service", "health", "run"}
     \/ pc[c] = "definitions" /\ DOMAIN read[c].tasks # {}
     \/ Starting(c, {"kill-task", "rerun-job"})
     \/ Starting(c, {"Status", "StatusOverview", "restart-deployment"}) /\ IsEcsService
  /\ CallFails(c)

EcsStatusNext ==
  /\ IsEcs
  /\ \/ TaskStarts \/ TaskEnding \/ TaskStops \/ TaskForgotten \/ TaskRuns \/ HealthChanges
     \/ \E c \in Calls :
          \/ ListFamilyTasks(c) \/ FirstListFails(c) \/ ListStoppedTasks(c) \/ ListServiceTasks(c) \/ DescribeTasks(c)
          \/ GetServiceOf(c) \/ RefreshHealth(c) \/ EnrichTasks(c)
          \/ OverviewOfJob(c) \/ GetDeployments(c) \/ TagDeployments(c)
          \/ RestartDeployment(c) \/ KillTask(c) \/ DescribeSourceTask(c) \/ RunTask(c) \/ EcsRequestFails(c)

-----------------------------------------------------------------------------
(* The phase of an execution that Status shows is never ahead of its task; *)
(* Succeeded means that no container of it ended with a failure, Failed    *)
(* that it is not one whose containers ended well by themselves.           *)
EcsPhaseWasTrue ==
  \A c \in Calls : IsEcsJob /\ Shows(c, "Status") =>
    \A i \in DOMAIN shown[c].tasks :
      LET phase == shown[c].tasks[i].phase
          t == cloud.tasks[i]
      IN
      /\ phase = "Running" => t.status # "PROVISIONING"
      /\ phase \in {"Succeeded", "Failed"} => t.status \in {"STOPPED", "GONE"}
      /\ phase = "Succeeded" => 1 \notin t.exits /\ t.stop # "TaskFailedToStart"
      /\ phase = "Failed" => ~(t.stop = "EssentialContainerExited" /\ t.exits = {0})

(* Every task of a job that was there when Status was called, and still    *)
(* is, is shown, though it stopped between the two lists - unless a list   *)
(* had more tasks than a page.                                             *)
EcsMissesNothing ==
  \A c \in Calls : IsEcsJob /\ Shows(c, "Status") =>
    \/ shown[c].since \cap Existing \subseteq DOMAIN shown[c].tasks
    \/ shown[c].cut /\ Len(cloud.tasks) > PageSize

(* A version that is shown, with an execution or with a deployment, is     *)
(* that of its own task definition.                                        *)
EcsVersionsAreOwn ==
  /\ \A c \in Calls : IsEcsJob /\ Shows(c, "Status") =>
       \A i \in DOMAIN shown[c].tasks : shown[c].tasks[i].version \in {NoVersion, cloud.tasks[i].def}
  /\ \A c \in Calls : IsEcsService /\ Shows(c, "StatusOverview") =>
       \A i \in DOMAIN shown[c] : shown[c][i].version \in {NoVersion, cloud.deployments[i]}
=============================================================================
