-------------------------- MODULE DefinitionDeploy --------------------------
(***************************************************************************)
(* The deployers of AWS ECS and AWS Batch.  Both register a new revision   *)
(* of a definition and deregister what it replaces: ECS the revision that  *)
(* it read, Batch every revision that was active.  ECS then points the     *)
(* service at the new revision.                                            *)
(*                                                                         *)
(* task_arn and job_definition_name name the family, so that a read finds  *)
(* its latest active revision.                                             *)
(***************************************************************************)
EXTENDS DeployCall, ContainerUpdate

(* The definition that Terraform made is told apart from the deploys'.     *)
ASSUME PlanAssumption == "plan" \notin Deploys

DefinitionApps ==
  [kind : {"ecs", "batch"}, service : BOOLEAN, n : {1, 2}, main : {0, 1, 2}, user : {{}, {"extra"}}]

IsDefinition == app.kind \in {"ecs", "batch"}

DefinitionInit ==
  /\ app \in {a \in DefinitionApps :
        /\ a.kind = "batch" => a.n = 1 /\ a.main = 0 /\ ~a.service
        /\ a.n = 1 => a.main = 0
        /\ a.main # 1 => a.user = {}}
  /\ \E first, second \in PlannedEnvs(Initially) :
       /\ first["extra"] # Secret /\ second["extra"] = first["extra"]
       /\ remote =
              [defs |-> <<[by |-> "plan", active |-> TRUE, tags |-> TRUE,
                           containers |-> [i \in 1..app.n |-> [image |-> ImageDigest,
                                                               env |-> IF i = 1 THEN first ELSE second]]]>>,
               service |-> 1,           \* the revision that the service runs
               deployments |-> <<1>>]   \* the revision of each deployment of the service
  /\ DeployInit

Active == {i \in DOMAIN remote.defs : remote.defs[i].active}
Latest == CHOOSE i \in Active : \A j \in Active : j <= i

DefinitionNoVersion(d) == IsDefinition /\ NoVersionGiven(d)

NoDefinition(d) ==
  /\ IsDefinition /\ At(d, "start") /\ Active = {}
  /\ GivesUp(d)
  /\ UNCHANGED remote

Got(d, to, old) ==
  /\ Goes(d, to, [from |-> Latest, old |-> old, tags |-> FALSE, new |-> 0])
  /\ UNCHANGED remote

(* What will be deregistered: the revision read, for Batch all of them.    *)
GetTaskDefinition(d) ==
  /\ app.kind = "ecs" /\ At(d, "start") /\ Active # {}
  /\ Got(d, "tags", {Latest})

GetJobDefinition(d) ==
  /\ app.kind = "batch" /\ At(d, "start") /\ Active # {}
  /\ Got(d, "register", Active)

(* Tags that cannot be read are cleared: an error, but not of Deploy.      *)
GetTags(d) ==
  /\ pc[d] = "tags"
  /\ \/ Goes(d, "register", [local[d] EXCEPT !.tags = TRUE])
     \/ /\ failures < MaxFailures
        /\ failures' = failures + 1
        /\ pc' = [pc EXCEPT ![d] = "register"]
        /\ UNCHANGED <<app, version, local, result, reference, attempt>>
  /\ UNCHANGED remote

Main == IF app.kind = "batch" THEN 1 ELSE EcsMainContainer(app.n, app.main)

NoMainDefinition(d) ==
  /\ IsDefinition /\ pc[d] = "register" /\ Main = 0
  /\ GivesUp(d)
  /\ UNCHANGED remote

(* The containers of the definition that was read, changed: the image of  *)
(* the main one, the env vars of every one and the OpenTelemetry attributes*)
(* of the first that has them.                                             *)
UpdatedTask(d) ==
  LET read == remote.defs[local[d].from].containers
      std(i) == ApplyUser(EcsRules, ReplaceStandard(EcsRules, read[i].env, version[d]), app.user)
      has == {i \in DOMAIN read : std(i)["otel"] \notin {Absent, Secret}}
      env(i) == IF i \in has /\ \A j \in has : i <= j THEN ReplaceOtel(EcsRules, std(i), version[d]) ELSE std(i)
  IN [i \in DOMAIN read |->
        [image |-> IF i = Main THEN Retagged(EcsRules, read[i].image, version[d], FALSE) ELSE read[i].image,
         env   |-> env(i)]]

(* The one container of a Batch job.                                       *)
UpdatedJob(d) ==
  LET read == remote.defs[local[d].from].containers[1]
  IN <<[image |-> Retagged(BatchRules, read.image, version[d], FALSE),
        env   |-> UpdatedEnv(BatchRules, read.env, version[d], app.user)]>>

Registers(d, containers, old) ==
  /\ remote' = [remote EXCEPT !.defs = Append(@, [by |-> d, active |-> TRUE, tags |-> local[d].tags,
                                                  containers |-> containers])]
  /\ \/ Goes(d, "deregister", [local[d] EXCEPT !.new = Len(remote.defs) + 1, !.old = old])
     \/ CallFails(d)

RegisterTaskDefinition(d) ==
  /\ app.kind = "ecs" /\ pc[d] = "register" /\ Main # 0
  /\ Registers(d, UpdatedTask(d), local[d].old)

(* Mutant: what is deregistered is looked up after the registration.       *)
CreateThenList(d) ==
  /\ app.kind = "batch" /\ pc[d] = "register"
  /\ Registers(d, UpdatedJob(d), Active \cup {Len(remote.defs) + 1})

CreateJobDefinition(d) ==
  /\ app.kind = "batch" /\ pc[d] = "register"
  /\ Registers(d, UpdatedJob(d), local[d].old)

(* One revision after the other; one that another deploy deregistered      *)
(* already may be refused.                                                 *)
Deregister(d, i) ==
  /\ pc[d] = "deregister" /\ i \in local[d].old
  /\ remote' = [remote EXCEPT !.defs[i].active = FALSE]
  /\ \/ Goes(d, "deregister", [local[d] EXCEPT !.old = @ \ {i}])
     \/ CallFails(d)

DeregisterRefused(d, i) ==
  /\ pc[d] = "deregister" /\ i \in local[d].old
  /\ ~remote.defs[i].active
  /\ GivesUp(d)
  /\ UNCHANGED remote

NoService(d) ==
  /\ pc[d] = "deregister" /\ local[d].old = {} /\ ~app.service
  /\ Succeeds(d, NoReference)
  /\ UNCHANGED remote

(* The service is pointed at the new revision, if it is still active; the  *)
(* answer lists the service's deployments, and the newest one of that      *)
(* revision is the reference.                                              *)
UpdateService(d) ==
  LET new == local[d].new IN
  /\ pc[d] = "deregister" /\ local[d].old = {} /\ app.service
  /\ IF new \in Active
     THEN /\ remote' = [remote EXCEPT !.service = new, !.deployments = Append(@, new)]
          /\ Succeeds(d, <<"deployment", Len(remote.deployments) + 1>>) \/ CallFails(d)
     ELSE GivesUp(d) /\ UNCHANGED remote

DefinitionCallFails(d) ==
  /\ IsDefinition
  /\ \/ At(d, "start")
     \/ pc[d] = "register" /\ Main # 0
     \/ pc[d] = "deregister" /\ (local[d].old # {} \/ app.service)
  /\ CallFails(d)
  /\ UNCHANGED remote

DefinitionStep(d) ==
  \/ DefinitionNoVersion(d) \/ NoDefinition(d) \/ GetTaskDefinition(d) \/ GetJobDefinition(d) \/ GetTags(d)
  \/ NoMainDefinition(d) \/ RegisterTaskDefinition(d) \/ CreateJobDefinition(d) \/ NoService(d) \/ UpdateService(d) \/ DefinitionCallFails(d)
  \/ \E i \in DOMAIN remote.defs : Deregister(d, i) \/ DeregisterRefused(d, i)

DefinitionNext == IsDefinition /\ \E d \in Deploys : DefinitionStep(d)

(* A revision is only ever retired for a newer one: whatever fails, is run *)
(* again or runs at the same time, every inactive revision has a newer     *)
(* active one, so that the next deploy finds a definition to start from    *)
(* and never falls back to an older version.                               *)
RetiredOnlyForNewer ==
  IsDefinition => \A i \in DOMAIN remote.defs :
    remote.defs[i].active \/ \E j \in DOMAIN remote.defs : j > i /\ remote.defs[j].active

(* The reference of an ECS deploy is a deployment of the revision that the *)
(* same deploy registered.                                                 *)
DeploymentIsOwn ==
  IsDefinition => \A d \in Deploys : reference[d][1] = "deployment" =>
    remote.defs[remote.deployments[reference[d][2]]].by = d

(* The definitions too name one version: the image of the main container   *)
(* and the NULLSTONE_VERSION of every container are of the same deploy,    *)
(* whatever earlier revision the definition was made from.                 *)
DefinitionOneVersion ==
  IsDefinition => \A i \in DOMAIN remote.defs :
    LET def == remote.defs[i] IN
    def.by \in Deploys =>
      /\ def.containers[Main].image = ImageTag(version[def.by])
      /\ \A c \in DOMAIN def.containers :
           def.containers[c].env["version"] \in {Absent, Secret, version[def.by]}
=============================================================================
