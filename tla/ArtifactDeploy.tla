---------------------------- MODULE ArtifactDeploy ----------------------------
(***************************************************************************)
(* The deployers of artifacts that another call pushed before: AWS Elastic *)
(* Beanstalk waits until its version is processed and updates the          *)
(* environment; Azure Functions uploads the zip if it is at hand and       *)
(* otherwise restarts the app; an Azure static site, whose files are in    *)
(* place already, has its CDN purged.                                      *)
(***************************************************************************)
EXTENDS DeployCall

CONSTANT MaxPolls   \* how often Deploy looks at the version (10)

ArtifactApps == [kind : {"beanstalk", "azurefunctions", "blob"}, exists : BOOLEAN, cdn : BOOLEAN]

(* exists: the application version exists, the zip can be read; cdn: a CDN *)
(* is attached, or the answer to the upload names where to ask for it.     *)
ArtifactInit ==
  /\ app \in {a \in ArtifactApps : (a.kind = "beanstalk" => ~a.cdn) /\ (a.kind = "blob" => a.exists)}
  /\ remote = [processed |-> {},          \* the versions that Beanstalk has processed
               running |-> Initially,     \* what the environment or the function app runs
               synced |-> FALSE, restarts |-> 0, purges |-> 0]
  /\ DeployInit

IsArtifact == app.kind \in {"beanstalk", "azurefunctions", "blob"}
IsBeanstalk == app.kind = "beanstalk"

ArtifactNoVersion(d) == IsArtifact /\ NoVersionGiven(d)

BeanstalkStarts(d) ==
  /\ IsBeanstalk /\ At(d, "start")
  /\ Goes(d, "version", 0)
  /\ UNCHANGED remote

(* The loop ends at a processed version, or after MaxPolls looks at one    *)
(* that is not: the environment is updated either way.                     *)
GetApplicationVersion(d) ==
  /\ pc[d] = "version" /\ local[d] < MaxPolls
  /\ IF ~app.exists THEN GivesUp(d)
     ELSE Goes(d, IF version[d] \in remote.processed THEN "update" ELSE "delay", local[d])
  /\ UNCHANGED remote

Delay(d) ==
  /\ pc[d] = "delay"
  /\ \/ Goes(d, "version", local[d] + 1)
     \/ GivesUp(d)     \* the context is done
  /\ UNCHANGED remote

PollsOver(d) ==
  /\ pc[d] = "version" /\ local[d] = MaxPolls
  /\ Goes(d, "update", local[d])
  /\ UNCHANGED remote

(* Beanstalk refuses a version that it has not processed.                  *)
UpdateEnvironment(d) ==
  /\ pc[d] = "update"
  /\ IF version[d] \in remote.processed
     THEN /\ remote' = [remote EXCEPT !.running = version[d]]
          /\ Succeeds(d, <<"version", version[d]>>) \/ CallFails(d)
     ELSE GivesUp(d) /\ UNCHANGED remote

VersionProcessed(v) ==
  /\ app.exists /\ v \notin remote.processed
  /\ remote' = [remote EXCEPT !.processed = @ \cup {v}]
  /\ UNCHANGED <<app, version, pc, local, result, reference, attempt, failures>>

(* zipdeploy; its answer may name the URL of the deployment.               *)
ZipDeploy(d) ==
  /\ app.kind = "azurefunctions" /\ At(d, "start") /\ app.exists
  /\ remote' = [remote EXCEPT !.running = version[d]]
  /\ Succeeds(d, IF app.cdn THEN <<"url", 0>> ELSE <<"version", version[d]>>) \/ CallFails(d)

(* No zip to read: the triggers are synced and the app is restarted with   *)
(* what it has, and Deploy reports success.                                *)
SyncFunctionTriggers(d) ==
  /\ app.kind = "azurefunctions" /\ At(d, "start") /\ ~app.exists
  /\ remote' = [remote EXCEPT !.synced = TRUE]
  /\ Goes(d, "restart", Nothing) \/ CallFails(d)

Restart(d) ==
  /\ pc[d] = "restart"
  /\ remote' = [remote EXCEPT !.restarts = @ + 1]
  /\ Succeeds(d, <<"version", version[d]>>) \/ CallFails(d)

NoCdnAttached(d) ==
  /\ app.kind = "blob" /\ At(d, "start") /\ ~app.cdn
  /\ Succeeds(d, NoReference)
  /\ UNCHANGED remote

BeginPurgeContent(d) ==
  /\ app.kind = "blob" /\ At(d, "start") /\ app.cdn
  /\ Goes(d, "purge", Nothing)
  /\ UNCHANGED remote

PurgeEnds(d) ==
  /\ app.kind = "blob" /\ pc[d] = "purge"
  /\ remote' = [remote EXCEPT !.purges = @ + 1]
  /\ Succeeds(d, <<"version", version[d]>>) \/ CallFails(d)

ArtifactCallFails(d) ==
  /\ IsArtifact
  /\ \/ At(d, "start") /\ ~IsBeanstalk
     \/ pc[d] = "version" /\ local[d] < MaxPolls
     \/ pc[d] \in {"update", "restart", "purge"}
  /\ CallFails(d)
  /\ UNCHANGED remote

ArtifactNext ==
  /\ IsArtifact
  /\ \/ \E d \in Deploys :
          \/ ArtifactNoVersion(d) \/ BeanstalkStarts(d) \/ GetApplicationVersion(d) \/ Delay(d) \/ PollsOver(d)
          \/ UpdateEnvironment(d) \/ ZipDeploy(d) \/ SyncFunctionTriggers(d) \/ Restart(d) \/ NoCdnAttached(d)
          \/ BeginPurgeContent(d) \/ PurgeEnds(d) \/ ArtifactCallFails(d)
     \/ IsBeanstalk /\ \E v \in Versions : VersionProcessed(v)
=============================================================================
