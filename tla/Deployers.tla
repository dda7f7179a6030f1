------------------------------- MODULE Deployers -------------------------------
(***************************************************************************)
(* Every app.Deployer and app.Pusher side by side: the app, chosen         *)
(* initially, decides which one its deploys run.  The properties are the   *)
(* ones that hold of all of them.                                          *)
(***************************************************************************)
EXTENDS CdnDeploy, AppObjectDeploy, DefinitionDeploy, LambdaDeploy, K8sJobDeploy, ArtifactDeploy, ArtifactPush,
        ImagePush

Init ==
  \/ CdnInit \/ ObjectInit \/ DefinitionInit \/ LambdaInit
  \/ K8sJobInit \/ ArtifactInit \/ PushInit \/ ImageInit

Next ==
  \/ CdnNext \/ ObjectNext \/ DefinitionNext \/ LambdaNext
  \/ K8sJobNext \/ ArtifactNext \/ PushNext \/ ImageNext
  \/ \E d \in Deploys : Retries(d)
  \/ AllReturned

Spec == Init /\ [][Next]_deployVars

(* What others change while a deploy is between its read and its write is  *)
(* never overwritten, by any interleaving of deploys, failures and repeated*)
(* runs, wherever the provider offers a lock: the ETag of a distribution,  *)
(* the fingerprint of a url map, etags and resource versions, the          *)
(* RevisionId of a function; and a masked write does not touch it.         *)
EditsOfOthersKept == EditsKept /\ ObjectEditsKept /\ FunctionEditsKept /\ JobEditsKept

(* Where a deploy writes the image and the env vars with one call - the    *)
(* objects of AppObjectDeploy other than Composer's, the revisions of      *)
(* DefinitionDeploy - what runs never mixes two versions: the image and    *)
(* the version that the env vars tell are of the same deploy.  Nothing is  *)
(* said of Lambda, which gets its env vars and its code by two calls and   *)
(* does run a mixture when the second one fails, nor of the job templates  *)
(* and CronJobs of Kubernetes, whose containers are not told apart here.   *)
OneVersionRuns == ObjectOneVersion /\ DefinitionOneVersion

(* The reference that Deploy returns, with which the caller watches the    *)
(* rollout, names what this very Deploy began.                             *)
ReferenceIsOwn == ObjectReferenceIsOwn /\ DeploymentIsOwn

(* No other deploy has done anything.                                      *)
Sole(d) ==
  \A e \in Deploys \ {d} : (pc[e] = "start" /\ attempt[e] = 0) \/ (version[e] = NoVersion /\ app.kind # "dags")

(* The version of deploy d is in force.                                    *)
InForce(d) ==
  CASE IsCdn -> /\ \A c \in app.versioned : remote.conf[c].version = version[d]
                /\ app.envFile /\ Cdns # {} => remote.env = version[d]
    [] IsObject -> app.named /\ app.kind # "composer" => remote.container.image.tags = <<version[d]>>
    [] IsDefinition -> /\ remote.defs[Latest].containers[Main].image = ImageTag(version[d])
                       /\ app.service => remote.service = Latest
    [] IsLambda -> remote.code = version[d] /\ remote.env = version[d]
    [] IsK8sJob -> \A i \in Objects : remote.objs[i].version = version[d]
    [] app.kind = "beanstalk" -> remote.running = version[d]
    [] app.kind = "azurefunctions" -> IF app.exists THEN remote.running = version[d] ELSE remote.restarts > 0
    [] app.kind = "blob" -> app.cdn => remote.purges > 0
    [] IsPush -> app.mode[d] = "push" =>
                   /\ \A f \in SourceFiles(d) : KeyOf(d, f) \in Keys /\ remote.objs[KeyOf(d, f)] = d
                   /\ app.kind = "dags" => Keys = {KeyOf(d, f) : f \in SourceFiles(d)}
                   /\ app.kind = "ebzip" => version[d] \in remote.versions
    [] IsImage -> app.mode[d] = "push" => remote.repo[version[d]] = d

(* app.Deployer.Deploy and app.Pusher.Push, returning no error, have done  *)
(* what they were asked, however many of the deploy's earlier runs failed  *)
(* half way by an error or a lost answer, and whatever others edited in    *)
(* between: when no other deploy was begun, its version is in force.  Left *)
(* out: an upload of the env vars file to Google whose error is dropped.   *)
SoleDeployTakesEffect ==
  \A d \in Deploys :
    result[d] = "ok" /\ Sole(d) /\ ~(IsCdn /\ app.cloud = "gcp" /\ app.envFile /\ failures > 0) => InForce(d)
=============================================================================
