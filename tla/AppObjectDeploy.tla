--------------------------- MODULE AppObjectDeploy ---------------------------
(***************************************************************************)
(* The deployers that read one object of the provider, change it and write *)
(* it back in a single call: a Cloud Run service or job, a Cloud Function, *)
(* a Composer environment, an Azure Container App or job, and a Kubernetes *)
(* Deployment.                                                             *)
(***************************************************************************)
EXTENDS DeployCall, ContainerUpdate

CONSTANT MaxObjectEdits   \* bound on the edits by others

(* A version is told apart from every other value of an env var.           *)
ASSUME ValueAssumption == Versions \cap {Absent, Secret, Expansion, UserValue} = {}

(* What tells the platforms apart: whether the write carries the revision  *)
(* that was read (etag, resourceVersion) and is refused if the object has  *)
(* changed; whether it is limited to a mask of fields; whether Deploy      *)
(* looks for a main container, skips an app that names no object, panics   *)
(* on an object without labels, answers when nothing changes, waits for    *)
(* the operation; and what the reference names.                            *)
Defaults ==
  [rules |-> CloudRunRules, locked |-> FALSE, masked |-> FALSE, containers |-> TRUE, optional |-> FALSE,
   labels |-> FALSE, noop |-> FALSE, waits |-> FALSE, reference |-> "rollout"]

CloudRunService == [Defaults EXCEPT !.locked = TRUE, !.optional = TRUE]
CloudRunJob     == [Defaults EXCEPT !.locked = TRUE, !.optional = TRUE]
CloudFunction   == [Defaults EXCEPT !.rules = FunctionsRules, !.masked = TRUE, !.containers = FALSE]
Environment     == [Defaults EXCEPT !.rules = ComposerRules, !.masked = TRUE, !.containers = FALSE, !.noop = TRUE]
ContainerApp    == [Defaults EXCEPT !.rules = AcaRules, !.optional = TRUE, !.waits = TRUE]
ContainerAppJob == [Defaults EXCEPT !.rules = AcaRules, !.optional = TRUE, !.waits = TRUE, !.reference = "job"]
K8sDeployment   == [Defaults EXCEPT !.rules = K8sRules, !.locked = TRUE, !.optional = TRUE, !.labels = TRUE, !.noop = TRUE]

Platforms ==
  [cloudrun |-> CloudRunService, cloudrunjob |-> CloudRunJob, functions |-> CloudFunction,
   composer |-> Environment, aca |-> ContainerApp, acajob |-> ContainerAppJob, k8s |-> K8sDeployment]

ObjectKinds == DOMAIN Platforms
IsObject == app.kind \in ObjectKinds
Platform == Platforms[app.kind]

MainContainer ==
  IF app.kind \in {"aca", "acajob"} THEN AcaMainContainer(app.n, app.main) ELSE NamedContainer(app.n, app.main)

ObjectApps ==
  [kind : ObjectKinds, named : BOOLEAN, n : {1, 2}, main : {0, 1, 2}, labeled : BOOLEAN, repo : BOOLEAN,
   user : {{}, {"extra"}, {"version"}}, image : {ImageTag(Initially), ImageDigest},
   planned : PlannedEnvs(Initially)]

Usual(a) ==
  /\ a.named /\ a.n = 1 /\ a.main = 1 /\ a.labeled
  /\ a.repo => a.image = ImageDigest

(* The unusual apps - no object, other names of containers, no labels -    *)
(* with one plan only; plain maps of env vars have no secrets.             *)
ObjectInit ==
  /\ app \in {a \in ObjectApps :
        LET p == Platforms[a.kind] IN
        /\ \/ Usual(a)
           \/ /\ a.user = {} /\ a.image = ImageDigest /\ ~a.repo /\ a.planned["version"] = Initially
              /\ ~a.named => p.optional /\ a.n = 1 /\ a.main = 1 /\ a.labeled
              /\ ~a.labeled => p.labels /\ a.n = 1 /\ a.main = 1
        /\ ~p.containers => /\ Usual(a) /\ a.user = {} /\ ~a.repo
                            /\ \A v \in VarNames : a.planned[v] # Secret \/ v = "extra"
        /\ ~p.rules.ownRepo => ~a.repo}
  /\ remote = [container |-> [image |-> app.image, env |-> app.planned],
               edits |-> 0, made |-> 0,
               rev |-> 0,          \* the etag, the resourceVersion
               ops |-> <<>>]       \* who began each rollout, in order
  /\ DeployInit

(* Neither a service nor a job in the outputs: the deployment is skipped.  *)
NoObject(d) ==
  /\ IsObject /\ At(d, "start") /\ ~app.named
  /\ Succeeds(d, NoReference)
  /\ UNCHANGED remote

ObjectNoVersion(d) == IsObject /\ NoVersionGiven(d)

GetObject(d) ==
  /\ IsObject /\ At(d, "start") /\ app.named
  /\ Goes(d, "update", [container |-> remote.container, edits |-> remote.edits, rev |-> remote.rev])
  /\ UNCHANGED remote

(* UpdateVersionLabel writes into the labels, a nil map.                   *)
NoLabels(d) ==
  /\ IsObject /\ pc[d] = "update" /\ ~app.labeled
  /\ Returns(d, "panic", NoReference)
  /\ UNCHANGED <<failures, remote>>

NoMainContainer(d) ==
  /\ IsObject /\ pc[d] = "update" /\ app.labeled /\ Platform.containers /\ MainContainer = 0
  /\ GivesUp(d)
  /\ UNCHANGED remote

Writable(d) ==
  /\ IsObject /\ pc[d] = "update" /\ app.labeled
  /\ Platform.containers => MainContainer # 0

(* Composer has no image: its environment keeps its DAGs.                  *)
Written(d) ==
  LET read == local[d].container IN
  [image |-> IF app.kind = "composer" THEN read.image ELSE Retagged(Platform.rules, read.image, version[d], app.repo),
   env |-> UpdatedEnv(Platform.rules, read.env, version[d], app.user)]

(* Nothing to change: Composer does not call, Kubernetes answers with the  *)
(* generation that was read.                                               *)
Unchanged(d) == Platform.noop /\ Written(d) = local[d].container

NothingChanged(d) ==
  /\ Writable(d) /\ Unchanged(d)
  /\ IF Platform.locked /\ remote.rev # local[d].rev
     THEN GivesUp(d)
     ELSE Succeeds(d, IF app.kind = "k8s" THEN <<"noop", 0>> ELSE NoReference)
  /\ UNCHANGED remote

Refused(d) ==
  /\ Writable(d) /\ ~Unchanged(d)
  /\ Platform.locked /\ remote.rev # local[d].rev
  /\ GivesUp(d)
  /\ UNCHANGED remote

(* The write replaces the object, or what the mask names of it.            *)
Write(d) ==
  remote' = [remote EXCEPT
    !.container = Written(d),
    !.edits = IF Platform.masked THEN @ ELSE local[d].edits,
    !.rev = @ + 1,
    !.ops = Append(@, d)]

(* Mutants: the write without the lock; the reference of the read.         *)
UpdateObjectUnlocked(d) ==
  /\ Writable(d) /\ ~Unchanged(d)
  /\ Write(d)
  /\ \/ ~Platform.waits /\ Succeeds(d, <<"rollout", Len(remote.ops) + 1>>)
     \/ Platform.waits /\ Goes(d, "wait", Nothing)
     \/ CallFails(d)

UpdateObjectReadReference(d) ==
  /\ Writable(d) /\ ~Unchanged(d)
  /\ Platform.locked => remote.rev = local[d].rev
  /\ Write(d)
  /\ \/ ~Platform.waits /\ Succeeds(d, <<"rollout", Len(remote.ops)>>)
     \/ Platform.waits /\ Goes(d, "wait", Nothing)
     \/ CallFails(d)

(* The reference: the operation, the generation, the job's name or, for a  *)
(* container app, the revision that is the latest when the wait is over.   *)
UpdateObject(d) ==
  /\ Writable(d) /\ ~Unchanged(d)
  /\ Platform.locked => remote.rev = local[d].rev
  /\ Write(d)
  /\ \/ ~Platform.waits /\ Succeeds(d, <<"rollout", Len(remote.ops) + 1>>)
     \/ Platform.waits /\ Goes(d, "wait", Nothing)
     \/ CallFails(d)

WaitForObject(d) ==
  /\ IsObject /\ pc[d] = "wait"
  /\ Succeeds(d, IF Platform.reference = "job" THEN <<"job", 0>> ELSE <<"rollout", Len(remote.ops)>>)
  /\ UNCHANGED remote

ObjectCallFails(d) ==
  /\ IsObject
  /\ \/ At(d, "start") /\ app.named
     \/ Writable(d) /\ ~(Unchanged(d) /\ app.kind = "composer")
     \/ pc[d] = "wait"
  /\ CallFails(d)
  /\ UNCHANGED remote

(* Others edit the object, outside of what a deploy changes.               *)
OthersEditObject ==
  /\ remote.made < MaxObjectEdits
  /\ remote' = [remote EXCEPT !.edits = @ + 1, !.made = @ + 1, !.rev = @ + 1]
  /\ UNCHANGED <<app, version, pc, local, result, reference, attempt, failures>>

ObjectNext ==
  /\ IsObject
  /\ \/ \E d \in Deploys :
          \/ NoObject(d) \/ ObjectNoVersion(d) \/ GetObject(d) \/ NoLabels(d) \/ NoMainContainer(d)
          \/ NothingChanged(d) \/ Refused(d) \/ UpdateObject(d) \/ WaitForObject(d) \/ ObjectCallFails(d)
     \/ OthersEditObject

(* Where the write carries what was read (Kubernetes, Cloud Run), no       *)
(* interleaving of deploys overwrites what others changed in between; and  *)
(* a write through a mask does not touch it.                               *)
ObjectEditsKept ==
  IsObject /\ (Platform.locked \/ Platform.masked) => remote.edits = remote.made

(* The image and the env vars of an app always name the same deploy: no    *)
(* failure, repeated run or concurrent deploy leaves one version's image   *)
(* with another version's NULLSTONE_VERSION or OpenTelemetry attributes    *)
(* (Container Apps leave the latter as planned).                           *)
ObjectOneVersion ==
  IsObject /\ app.kind # "composer" =>
    LET c == remote.container
        told == Told(c.env, Versions \cup {Initially}) \ (IF Platform.rules.otel = "kept" THEN {Initially} ELSE {})
    IN \A v \in told : c.image.tags \in {<<>>, <<v>>} /\ (c.image.tags = <<>> => v = Initially)

(* A reference names a rollout that its own Deploy began: a watch of it    *)
(* cannot report another deploy's outcome (all but Container Apps, whose   *)
(* latest revision may already be another's).                              *)
ObjectReferenceIsOwn ==
  IsObject /\ ~Platform.waits =>
    \A d \in Deploys : reference[d][1] = "rollout" =>
      reference[d][2] \in DOMAIN remote.ops /\ remote.ops[reference[d][2]] = d

(* env_vars.UpdateStandard (env-vars/standard.go:15-18): deploys introduce *)
(* no standard env var that the Terraform plan did not, and never replace  *)
(* a reference to a secret unless the user names it.  Cloud Functions,     *)
(* whose rules add the missing ones, are left out.                         *)
PlanKept ==
  IsObject /\ app.kind # "functions" =>
    \A n \in VarNames \ app.user :
      /\ app.planned[n] = Absent => remote.container.env[n] = Absent
      /\ app.planned[n] = Secret => remote.container.env[n] = Secret
=============================================================================
