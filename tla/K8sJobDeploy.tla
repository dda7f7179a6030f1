----------------------------- MODULE K8sJobDeploy -----------------------------
(***************************************************************************)
(* The Kubernetes deployer for an app that is a job: the job template in a *)
(* ConfigMap, from which the actions make their jobs, and the CronJobs of  *)
(* the app are changed one after the other.  Kubernetes refuses a write of *)
(* an object that has changed since it was read.                           *)
(*                                                                         *)
(* Object 0 is the ConfigMap, the others are the CronJobs.  What a deploy  *)
(* changes in each (its pod template, see ContainerUpdate) is its version. *)
(***************************************************************************)
EXTENDS DeployCall

CONSTANTS
  MaxCronJobs,   \* the most CronJobs that an app has
  MaxJobEdits    \* bound on the edits by others

(* The ConfigMap may lack the template, the template its main container or *)
(* its labels; CronJobs may lack the main container, or their pods labels. *)
JobApps ==
  [kind : {"k8sjob"}, cronJobs : 0..MaxCronJobs, template : {"ok", "absent", "no main", "no labels"},
   noMain : {{}, {1}}, noLabels : SUBSET (1..MaxCronJobs)]

IsK8sJob == app.kind = "k8sjob"
CronJobs == 1..app.cronJobs
Objects == 0..app.cronJobs

K8sJobInit ==
  /\ app \in {a \in JobApps :
                a.noMain \cup a.noLabels \subseteq 1..a.cronJobs /\ (a.template # "ok" => a.cronJobs = 0)}
  /\ remote = [objs |-> [i \in Objects |-> [version |-> Initially, edits |-> 0]],
               rev  |-> [i \in Objects |-> 0],       \* resourceVersion
               made |-> [i \in Objects |-> 0]]       \* the edits made by others
  /\ DeployInit

K8sJobNoVersion(d) == IsK8sJob /\ NoVersionGiven(d)

(* GetJobTemplate, and the main container of what it finds.              *)
GetJobTemplate(d) ==
  /\ IsK8sJob /\ At(d, "start")
  /\ \/ app.template = "ok" /\ Goes(d, "template", [obj |-> remote.objs[0], rev |-> remote.rev[0]])
     \/ app.template \in {"absent", "no main"} /\ GivesUp(d)
     \/ app.template = "no labels" /\ Returns(d, "panic", NoReference) /\ UNCHANGED failures
  /\ UNCHANGED remote

WritesBack(i, obj, v) ==
  remote' = [remote EXCEPT !.objs[i] = [obj EXCEPT !.version = v], !.rev[i] = @ + 1]

UpdateJobTemplate(d) ==
  /\ pc[d] = "template"
  /\ IF remote.rev[0] # local[d].rev
     THEN GivesUp(d) /\ UNCHANGED remote
     ELSE /\ WritesBack(0, local[d].obj, version[d])
          /\ Goes(d, "list", Nothing) \/ CallFails(d)

ListCronJobs(d) ==
  /\ pc[d] = "list"
  /\ Goes(d, "cronJobs", [objs |-> remote.objs, rev |-> remote.rev, next |-> 1, failed |-> {}])
  /\ UNCHANGED remote

(* Mutant: the loop ends at the first CronJob that fails.                  *)
CronJobFailedEnds(d, i) == [local EXCEPT ![d].next = app.cronJobs + 1, ![d].failed = @ \cup {i}]

(* A CronJob that cannot be updated does not keep the others from it.      *)
CronJobDone(d) == Goes(d, "cronJobs", [local[d] EXCEPT !.next = @ + 1])
CronJobFailed(d, i) == [local EXCEPT ![d].next = @ + 1, ![d].failed = @ \cup {i}]

(* UpdateVersionLabel writes into the labels of the pods, a nil map when   *)
(* they have none: the program ends in the middle of the loop.             *)
CronJobPanics(d) ==
  /\ pc[d] = "cronJobs" /\ local[d].next \in app.noLabels
  /\ Returns(d, "panic", NoReference)
  /\ UNCHANGED <<failures, remote>>

Labelled == CronJobs \ app.noLabels

CronJobNotUpdated(d) ==
  LET i == local[d].next IN
  /\ pc[d] = "cronJobs" /\ i \in Labelled
  /\ i \in app.noMain \/ remote.rev[i] # local[d].rev[i]
  /\ local' = CronJobFailed(d, i)
  /\ UNCHANGED <<app, version, pc, result, reference, attempt, failures, remote>>

UpdateCronJob(d) ==
  LET i == local[d].next IN
  /\ pc[d] = "cronJobs" /\ i \in Labelled
  /\ i \notin app.noMain /\ remote.rev[i] = local[d].rev[i]
  /\ WritesBack(i, local[d].objs[i], version[d])
  /\ CronJobDone(d)

UpdateCronJobFails(d) ==
  LET i == local[d].next IN
  /\ pc[d] = "cronJobs" /\ i \in Labelled \ app.noMain
  /\ failures < MaxFailures
  /\ failures' = failures + 1
  /\ local' = CronJobFailed(d, i)
  /\ UNCHANGED <<app, version, pc, result, reference, attempt, remote>>

(* The collected errors are joined.                                        *)
JobDeployed(d) ==
  /\ pc[d] = "cronJobs" /\ local[d].next \notin CronJobs
  /\ IF local[d].failed = {} THEN Succeeds(d, NoReference) ELSE GivesUp(d)
  /\ UNCHANGED remote

K8sJobCallFails(d) ==
  /\ IsK8sJob
  /\ At(d, "start") \/ pc[d] \in {"template", "list"}
  /\ CallFails(d)
  /\ UNCHANGED remote

OthersEditJob(i) ==
  /\ \A j \in Objects : remote.made[j] < MaxJobEdits
  /\ remote' = [remote EXCEPT !.objs[i].edits = @ + 1, !.rev[i] = @ + 1, !.made[i] = @ + 1]
  /\ UNCHANGED <<app, version, pc, local, result, reference, attempt, failures>>

K8sJobNext ==
  /\ IsK8sJob
  /\ \/ \E d \in Deploys :
          \/ K8sJobNoVersion(d) \/ GetJobTemplate(d) \/ UpdateJobTemplate(d) \/ ListCronJobs(d)
          \/ CronJobPanics(d) \/ CronJobNotUpdated(d) \/ UpdateCronJob(d) \/ UpdateCronJobFails(d) \/ JobDeployed(d)
          \/ K8sJobCallFails(d)
     \/ \E i \in Objects : OthersEditJob(i)

JobEditsKept == IsK8sJob => \A i \in Objects : remote.objs[i].edits = remote.made[i]

(* One CronJob that cannot be updated - it has no main container, someone  *)
(* else changed it, the call failed - does not leave the others at an old  *)
(* version (deployer.go:146-163): at every step, each CronJob behind the   *)
(* loop has left the version that ran before or failed itself, and success *)
(* means that none was left.  Only a CronJob whose pods have no labels     *)
(* takes others with it: no deploy ever changes it or what is listed after *)
(* it, nor reports success.                                                *)
CronJobsFailAlone ==
  IsK8sJob =>
    /\ \A d \in Deploys :
         /\ pc[d] = "cronJobs" =>
              \A i \in CronJobs : i < local[d].next =>
                 i \in local[d].failed \/ remote.objs[i].version # Initially
         /\ result[d] = "ok" => \A i \in Objects : remote.objs[i].version # Initially
    /\ \A j \in app.noLabels, i \in CronJobs : j <= i => remote.objs[i].version = Initially
=============================================================================
