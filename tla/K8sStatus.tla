------------------------------- MODULE K8sStatus -------------------------------
(***************************************************************************)
(* k8s: the status views and the actions of an app.  The calls share one   *)
(* Statuser, which lists the resources once - replica sets, services, pods *)
(* and jobs, one after the other - and keeps what it got; Status reads the *)
(* deployment as well, each time.  What fails is named by K8sFailures.     *)
(***************************************************************************)
EXTENDS StatusCalls, K8sFailures

CONSTANT MaxRollouts   \* bound on the revisions, and on the jobs

IsK8s == app.kind = "k8s"

(* Replica sets are numbered by revision; each has a number of replicas.   *)
(* One pod is looked at: what its status tells, and what it went through,  *)
(* which the code does not see: the last thing that its container did, how *)
(* that one ended last, and what became of the pod itself.  And for each   *)
(* job, what it came to and the exit code of its container.                *)
Creating == Container("waiting", "ContainerCreating", NeverEnded, NeverEnded)
NewPod == [set |-> 1, phase |-> "Pending", unscheduled |-> "none", evicted |-> FALSE, disrupted |-> FALSE, container |-> Creating,
           did |-> "nothing", ended |-> "never", fate |-> "none"]

(* A deployment: the conditions that its controller left, whether it saw   *)
(* the newest revision by then, what ails that revision, and what ailed    *)
(* the one that it saw before.                                             *)
NewDeployment(exists) == [exists |-> exists, seen |-> TRUE, late |-> FALSE, blocked |-> FALSE, why |-> {}, before |-> {}]
NoExit == 0
NewJob == [started |-> FALSE, condition |-> "none", exit |-> NoExit]
NotListed == [sets |-> <<>>, pods |-> {}, jobs |-> <<>>, exits |-> <<>>]

(* once is the sync.Once of the Statuser, lists what it keeps.  What goes  *)
(* on in the cluster is one of the aspects.                                *)
Methods(aspect) ==
  {"Status"} \cup
  (CASE aspect = "pods" -> {"kill-pod"}
     [] aspect = "rollout" -> {"StatusOverview", "restart-deployment"}
     [] aspect = "jobs" -> {"StatusOverview", "rerun-job"}
     [] OTHER -> {"StatusOverview"})

K8sStatusInit ==
  \E aspect \in {"pods", "rollout", "jobs", "unnamed"} :
    /\ app = [kind |-> "k8s", aspect |-> aspect]
    /\ cloud = [sets |-> <<1>>, pod |-> NewPod, jobs |-> <<NewJob>>,
                deployment |-> NewDeployment(aspect # "jobs"),
                once |-> "idle", lists |-> NotListed]
    /\ CallsInit(Methods(aspect))

-----------------------------------------------------------------------------
(* The pod.  What kubelet reports of a container that ended in some way,   *)
(* and of one that cannot be started.                                      *)
Report(ended) ==
  CASE ended = "oom" -> Termination("OOMKilled", 137, FALSE)
    [] ended = "bad-format" -> Termination("StartError", 128, TRUE)
    [] ended = "crash" -> Termination("Error", 1, FALSE)
    [] ended = "lost" -> Termination("ContainerStatusUnknown", 137, FALSE)
    [] ended = "done" -> Termination("Completed", 0, FALSE)
    [] OTHER -> NeverEnded

Obstacles ==
  [unpullable |-> {"ErrImagePull", "ImagePullBackOff"}, misnamed |-> {"InvalidImageName"},
   misconfigured |-> {"CreateContainerConfigError"}]

PodIs(pod) == Moves([cloud EXCEPT !.pod = pod])

LastOf(container) == IF container.state = "terminated" THEN container.now ELSE container.last

Scheduled(pod) ==
  [pod EXCEPT !.unscheduled = "none", !.fate = IF @ \in {"unschedulable", "gated"} THEN "none" ELSE @]

CannotBeScheduled ==
  LET p == cloud.pod IN
  /\ p.phase = "Pending" /\ p.did = "nothing"
  /\ \/ PodIs([p EXCEPT !.unscheduled = "Unschedulable", !.fate = "unschedulable"])
     \/ PodIs([p EXCEPT !.unscheduled = "SchedulingGated", !.fate = "gated"])

(* The first time, or when it has to be started once more.                 *)
CannotStart ==
  \E obstacle \in DOMAIN Obstacles : LET p == cloud.pod IN
    \E reason \in Obstacles[obstacle] :
      /\ p.phase \in {"Pending", "Running"} /\ p.container.state # "running"
      /\ PodIs([Scheduled(p) EXCEPT !.did = obstacle, !.container = Container("waiting", reason, NeverEnded, LastOf(@))])

ContainerStarts ==
  LET p == cloud.pod IN
  /\ p.phase \in {"Pending", "Running"} /\ p.container.state # "running"
  /\ PodIs([Scheduled(p) EXCEPT !.phase = "Running", !.did = "started",
                                !.container = Container("running", "none", NeverEnded, LastOf(@))])

ContainerEnds ==
  \E ended \in {"oom", "bad-format", "crash", "lost", "done"} : LET p == cloud.pod IN
    /\ p.container.state = "running"
    /\ PodIs([p EXCEPT !.did = "ended", !.ended = ended, !.container = Container("terminated", "none", Report(ended), @.last)])

BacksOff ==
  LET p == cloud.pod IN
  /\ p.phase = "Running" /\ p.container.state = "terminated"
  /\ PodIs([p EXCEPT !.did = "backed-off", !.container = Container("waiting", "CrashLoopBackOff", NeverEnded, @.now)])

(* The dead container is removed from the node, and with it how it ended.  *)
EndForgotten ==
  LET p == cloud.pod IN
  /\ p.did = "backed-off" /\ p.ended # "forgotten"
  /\ PodIs([p EXCEPT !.ended = "forgotten", !.container = Container("waiting", "CrashLoopBackOff", NeverEnded, NeverEnded)])

(* An eviction for want of a resource is told as a disruption too.         *)
PodEvicted ==
  LET p == cloud.pod IN
  /\ p.phase = "Running"
  /\ PodIs([p EXCEPT !.phase = "Failed", !.evicted = TRUE, !.disrupted = TRUE, !.fate = "evicted"])

PodDisrupted ==
  LET p == cloud.pod IN
  /\ p.phase = "Running" /\ ~p.disrupted
  /\ PodIs([p EXCEPT !.disrupted = TRUE, !.fate = "disrupted"])

-----------------------------------------------------------------------------
RolloutMoves ==
  \E r \in DOMAIN cloud.sets :
    Moves([cloud EXCEPT !.sets[r] = IF @ = 0 THEN 1 ELSE 0])

DeploymentIs(d) == Moves([cloud EXCEPT !.deployment = d])

(* The controller of deployments sees the newest revision some time after  *)
(* it is made; its conditions are of the one before until then.            *)
RolloutSeen ==
  LET d == cloud.deployment IN
  /\ ~d.seen
  /\ DeploymentIs([d EXCEPT !.seen = TRUE, !.late = FALSE, !.blocked = FALSE, !.before = {}])

RolloutLate ==
  LET d == cloud.deployment IN
  /\ d.seen /\ ~d.late
  /\ DeploymentIs([d EXCEPT !.late = TRUE, !.why = @ \cup {"ProgressDeadlineExceeded"}])

RolloutBlocked ==
  LET d == cloud.deployment IN
  /\ d.seen /\ ~d.blocked
  /\ DeploymentIs([d EXCEPT !.blocked = TRUE, !.why = @ \cup {"ReplicaFailure"}])

AilsSeen(d) == IF d.seen THEN d.why ELSE d.before

NewRevision(svc) ==
  [svc EXCEPT !.sets = Append(@, 0), !.deployment = [@ EXCEPT !.seen = FALSE, !.before = AilsSeen(svc.deployment), !.why = {}]]

JobIs(j, job) == Moves([cloud EXCEPT !.jobs[j] = job])

JobStarts ==
  \E j \in DOMAIN cloud.jobs :
    /\ ~cloud.jobs[j].started
    /\ JobIs(j, [cloud.jobs[j] EXCEPT !.started = TRUE])

(* The container of a job exits, with a code of its own here; the job says *)
(* so a little later.                                                      *)
JobExits ==
  \E j \in DOMAIN cloud.jobs :
    /\ cloud.jobs[j].started /\ cloud.jobs[j].condition = "none"
    /\ JobIs(j, [cloud.jobs[j] EXCEPT !.exit = j])

JobEnds ==
  \E j \in DOMAIN cloud.jobs : LET job == cloud.jobs[j] IN
    \E told \in {"Complete", "Failed"} :
      /\ job.started /\ job.condition = "none"
      /\ told = "Complete" => job.exit = NoExit
      /\ JobIs(j, [job EXCEPT !.condition = told])

-----------------------------------------------------------------------------
(* The Statuser lists the resources, once; a call that comes meanwhile     *)
(* waits, and one that comes later takes what there is, or the error.      *)
Views == {"Status", "StatusOverview"}
NoView == [sets |-> {}, pod |-> {}, jobs |-> <<>>, rollout |-> {}, counts |-> <<>>]

NoAppName(c) ==
  /\ Starting(c, Views) /\ app.aspect = "unnamed"
  /\ Returns(c, NoView)
  /\ UNCHANGED cloud

Initialize(c) ==
  /\ Starting(c, Views) /\ app.aspect # "unnamed"
  /\ CASE cloud.once = "idle" -> Goes(c, "sets", Nothing) /\ cloud' = [cloud EXCEPT !.once = "loading"]
       [] cloud.once = "done" -> Goes(c, "view", Nothing) /\ UNCHANGED cloud
       [] cloud.once = "failed" -> Refuses(c) /\ UNCHANGED cloud
       [] OTHER -> FALSE

(* Mutant: the resources are listed by each call.                          *)
ListedEachTime(how) == "idle"

(* What the sync.Once knows after the lists were read, or were not.        *)
Listed(how) == how

Lists(c, at, next, lists) ==
  /\ pc[c] = at
  /\ Goes(c, next, Nothing)
  /\ cloud' = [cloud EXCEPT !.lists = lists, !.once = IF next = "view" THEN Listed("done") ELSE @]

ListReplicaSets(c) == Lists(c, "sets", "services", [cloud.lists EXCEPT !.sets = cloud.sets])
ListServices(c) == Lists(c, "services", "pods", cloud.lists)
ListPods(c) ==
  Lists(c, "pods", "jobs", [cloud.lists EXCEPT !.pods = {cloud.pod}, !.exits = [j \in DOMAIN cloud.jobs |-> cloud.jobs[j].exit]])
ListJobs(c) == Lists(c, "jobs", "view", [cloud.lists EXCEPT !.jobs = cloud.jobs])

LoadFails(c) ==
  /\ pc[c] \in {"sets", "services", "pods", "jobs"}
  /\ RequestFails
  /\ Ends(c, "error", Nothing)
  /\ cloud' = [cloud EXCEPT !.once = Listed("failed")]

(* Old replica sets have no replicas and are not the newest.               *)
ExcludeOldReplicaSets(sets) == {r \in DOMAIN sets : r = Len(sets) \/ sets[r] > 0}

JobPhase(job) ==
  CASE job.condition = "Failed" -> "Failed"
    [] job.condition = "Complete" -> "Succeeded"
    [] OTHER -> IF job.started THEN "Running" ELSE "Queued"

(* Mutant: any pod of the namespace will do.                               *)
ExitOfAnyPod(j, exits) ==
  IF \E i \in DOMAIN exits : exits[i] # NoExit THEN exits[CHOOSE i \in DOMAIN exits : exits[i] # NoExit] ELSE NoExit

(* The pods may have been listed before the job was there.                 *)
JobFailedExitCode(j, exits) == IF j \in DOMAIN exits THEN exits[j] ELSE NoExit

JobExecution(j, lists) ==
  LET phase == JobPhase(lists.jobs[j]) IN
  [phase |-> phase, exit |-> IF phase = "Failed" THEN JobFailedExitCode(j, lists.exits) ELSE NoExit]

JobSummary(jobs) ==
  LET of(phases) == Cardinality({j \in DOMAIN jobs : JobPhase(jobs[j]) \in phases}) IN
  <<Len(jobs), of({"Queued", "Running"}), of({"Succeeded"}), of({"Failed"})>>

(* A pod is shown under its replica set, or not at all.                    *)
PodView(pod) == [name |-> ClassifyContainer(pod.container), failures |-> ClassifyPod(pod), of |-> pod]

ShowOverview(c) ==
  /\ pc[c] = "view" /\ asked[c] = "StatusOverview"
  /\ Returns(c, [NoView EXCEPT !.sets = ExcludeOldReplicaSets(cloud.lists.sets), !.counts = JobSummary(cloud.lists.jobs)])
  /\ UNCHANGED cloud

ShowStatus(c) ==
  /\ pc[c] = "view" /\ asked[c] = "Status"
  /\ LET lists == cloud.lists
         sets == ExcludeOldReplicaSets(lists.sets)
         d == cloud.deployment
     IN Returns(c, [NoView EXCEPT
          !.sets = sets,
          !.pod = {PodView(p) : p \in {q \in lists.pods : q.set \in sets}},
          !.jobs = [j \in DOMAIN lists.jobs |-> JobExecution(j, lists)],
          !.rollout = IF d.exists THEN {[says |-> ClassifyDeployment(d), of |-> d]} ELSE {}])
  /\ UNCHANGED cloud

-----------------------------------------------------------------------------
(* The actions.  The annotation that restarts a deployment is the time in  *)
(* seconds: in the second of the restart before, nothing changes; and so   *)
(* with the name of the new job, which then is refused.                    *)
RestartK8sDeployment(c) ==
  /\ Starting(c, {"restart-deployment"})
  /\ Len(cloud.sets) < MaxRollouts
  /\ Returns(c, Nothing)
  /\ \E same \in BOOLEAN :
       /\ same => Len(cloud.sets) > 1
       /\ cloud' = IF same THEN cloud ELSE NewRevision(cloud)

GetJob(c) ==
  /\ Starting(c, {"rerun-job"})
  /\ \E j \in DOMAIN cloud.jobs : Goes(c, "create", [job |-> j])
  /\ UNCHANGED cloud

CreateJob(c) ==
  /\ pc[c] = "create"
  /\ \/ /\ Len(cloud.jobs) > 1
        /\ Refuses(c) /\ UNCHANGED cloud
     \/ /\ Len(cloud.jobs) < MaxRollouts
        /\ Returns(c, Nothing)
        /\ cloud' = [cloud EXCEPT !.jobs = Append(@, NewJob)]

KillPod(c) ==
  /\ Starting(c, {"kill-pod"})
  /\ Returns(c, Nothing)
  /\ cloud' = [cloud EXCEPT !.pod = NewPod]

K8sRequestFails(c) ==
  /\ \/ pc[c] = "view" /\ asked[c] = "Status"
     \/ pc[c] = "create"
     \/ Starting(c, {"restart-deployment", "rerun-job", "kill-pod"})
  /\ CallFails(c)

K8sStatusNext ==
  /\ IsK8s
  /\ \/ /\ app.aspect = "pods"
        /\ \/ CannotBeScheduled \/ CannotStart \/ ContainerStarts \/ ContainerEnds \/ BacksOff \/ EndForgotten
           \/ PodEvicted \/ PodDisrupted
     \/ /\ app.aspect = "rollout"
        /\ \/ RolloutMoves \/ RolloutSeen \/ RolloutLate \/ RolloutBlocked
     \/ /\ app.aspect = "jobs"
        /\ \/ JobStarts \/ JobExits \/ JobEnds
     \/ \E c \in Calls :
          \/ NoAppName(c) \/ Initialize(c) \/ ListReplicaSets(c) \/ ListServices(c) \/ ListPods(c) \/ ListJobs(c) \/ LoadFails(c)
          \/ ShowOverview(c) \/ ShowStatus(c)
          \/ RestartK8sDeployment(c) \/ GetJob(c) \/ CreateJob(c) \/ KillPod(c) \/ K8sRequestFails(c)

-----------------------------------------------------------------------------
(* What the catalog has for what a container went through.                 *)
CalledWhenEnded(ended) ==
  CASE ended = "oom" -> "OOMKilled"
    [] ended = "bad-format" -> "ImageArchitectureMismatch"
    [] ended \in {"crash", "lost"} -> "ContainerExited"
    [] OTHER -> NoFailure

CalledInLoop(ended) ==
  CASE ended = "oom" -> "CrashLoopBackOff/OOMKilled"
    [] ended = "bad-format" -> "ImageArchitectureMismatch"
    [] ended \in {"crash", "lost", "done"} -> "CrashLoopBackOff/AppCrash"
    [] OTHER -> "CrashLoopBackOff"

CalledNow(pod) ==
  CASE pod.did = "unpullable" -> "ImagePullBackOff"
    [] pod.did = "misnamed" -> "InvalidImageName"
    [] pod.did = "misconfigured" -> "CreateContainerConfigError"
    [] pod.did = "ended" -> CalledWhenEnded(pod.ended)
    [] pod.did = "backed-off" -> CalledInLoop(pod.ended)
    [] OTHER -> NoFailure

FateOf(pod) ==
  CASE pod.fate = "unschedulable" -> {"FailedScheduling"}
    [] pod.fate = "gated" -> {"SchedulingGated"}
    [] pod.fate = "disrupted" -> {"DisruptionTarget"}
    [] pod.fate = "evicted" -> {"Evicted"}
    [] OTHER -> {}

(* A pod is shown with the failure of what it went through, whatever it    *)
(* went through before: when its container cannot be started again, that,  *)
(* and in a crash loop how it ended the last time; a clean end is called a *)
(* crash there.  A rollout is shown with what ails the newest revision or, *)
(* until its controller has seen that one, with what ailed the one before. *)
FailuresWereReal ==
  \A c \in Calls : IsK8s /\ Shows(c, "Status") =>
    /\ \A p \in shown[c].pod : p.name = CalledNow(p.of) /\ p.failures = FateOf(p.of)
    /\ \A d \in shown[c].rollout : d.says = AilsSeen(d.of)

(* The phase of a job that Status shows is never ahead of the job, and the *)
(* exit code shown with a failure is that of a pod of this very job.       *)
K8sPhaseWasTrue ==
  \A c \in Calls : IsK8s /\ Shows(c, "Status") =>
    \A j \in DOMAIN shown[c].jobs :
      LET view == shown[c].jobs[j] IN
      /\ Rank(view.phase) <= Rank(JobPhase(cloud.jobs[j]))
      /\ Rank(view.phase) = 2 => view.phase = JobPhase(cloud.jobs[j])
      /\ view.exit # NoExit => view.exit = cloud.jobs[j].exit

(* Status and StatusOverview of one Statuser show the same revisions and   *)
(* count the same jobs, whenever they are called; and once the lists could *)
(* not be read, none of them shows anything.                               *)
K8sViewsAgree ==
  IsK8s /\ app.aspect # "unnamed" =>
    /\ \A c, d \in Calls : Shows(c, "Status") /\ Shows(d, "StatusOverview") =>
         /\ shown[c].sets = shown[d].sets
         /\ \A phase \in {"Succeeded", "Failed"} :
              Cardinality({j \in DOMAIN shown[c].jobs : shown[c].jobs[j].phase = phase})
                = shown[d].counts[IF phase = "Succeeded" THEN 3 ELSE 4]
    /\ \A c \in Calls : (cloud.once = "failed") => ~Shows(c, "Status") /\ ~Shows(c, "StatusOverview")
=============================================================================
