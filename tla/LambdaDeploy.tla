---------------------------- MODULE LambdaDeploy ----------------------------
(***************************************************************************)
(* The deployers of AWS Lambda, from a zip and from a container image.     *)
(* First the configuration is read and written back with its env vars      *)
(* replaced, then the code is pointed at the new version.  AWS applies     *)
(* each change in the background; after each, Deploy polls until it is     *)
(* applied.  A change that is requested while another is being applied is  *)
(* a conflict, which the client's retryer tries again a few times.         *)
(***************************************************************************)
EXTENDS DeployCall

CONSTANT MaxLambdaEdits   \* bound on the edits by others

(* image: the code is a container image.                                   *)
LambdaApps == [kind : {"lambda"}, hasEnv : BOOLEAN, image : BOOLEAN]
IsLambda == app.kind = "lambda"

LambdaInit ==
  /\ app \in LambdaApps
  /\ remote = [env |-> Initially, code |-> Initially,
               edits |-> 0, made |-> 0,     \* the rest of the configuration
               rev |-> 0,                   \* the RevisionId
               status |-> "Successful",     \* LastUpdateStatus
               pending |-> Initially, what |-> "none"]
  /\ DeployInit

LambdaNoVersion(d) == IsLambda /\ NoVersionGiven(d)

(* MapFunctionConfig leaves Environment nil for a function without env     *)
(* vars, and Deploy reads its Variables.                                   *)
GetConfig(d) ==
  /\ IsLambda /\ At(d, "start")
  /\ IF app.hasEnv
     THEN Goes(d, "config", [edits |-> remote.edits, rev |-> remote.rev])
     ELSE Returns(d, "panic", NoReference) /\ UNCHANGED failures
  /\ UNCHANGED remote

Busy == remote.status = "InProgress"

(* A change is accepted and its application begins.                        *)
Accepts(what, v, edits) ==
  remote' = [remote EXCEPT !.status = "InProgress", !.what = what, !.pending = v,
                           !.rev = @ + 1, !.edits = edits]

(* The configuration carries the RevisionId that was read.                 *)
UpdateConfig(d) ==
  /\ pc[d] = "config" /\ ~Busy
  /\ IF remote.rev # local[d].rev
     THEN GivesUp(d) /\ UNCHANGED remote
     ELSE /\ Accepts("env", version[d], local[d].edits)
          /\ Goes(d, "waitConfig", Nothing) \/ CallFails(d)

(* The code: the key of the zip, or the image whose digest is dropped and  *)
(* whose tag is the version.                                               *)
UpdatesCode(d) ==
  /\ pc[d] = "code" /\ ~Busy
  /\ Accepts("code", version[d], remote.edits)
  /\ Goes(d, "waitCode", Nothing) \/ CallFails(d)

UpdateZipCode(d) == IsLambda /\ ~app.image /\ UpdatesCode(d)
UpdateImageCode(d) == IsLambda /\ app.image /\ UpdatesCode(d)

(* The conflict outlasts the attempts of the retryer.                      *)
Conflict(d) ==
  /\ pc[d] \in {"config", "code"} /\ Busy
  /\ GivesUp(d)
  /\ UNCHANGED remote

(* Mutant: only a failed change is an error.                               *)
WaitForFailure(d) ==
  /\ pc[d] \in {"waitConfig", "waitCode"}
  /\ \/ remote.status = "Failed" /\ GivesUp(d)
     \/ remote.status # "Failed" /\ pc[d] = "waitConfig" /\ Goes(d, "code", Nothing)
     \/ remote.status # "Failed" /\ pc[d] = "waitCode" /\ Succeeds(d, NoReference)
  /\ UNCHANGED remote

(* WaitForFunctionChanges: a failed change and a wait that takes too long  *)
(* are errors; only what is no longer in progress ends the wait well.      *)
WaitForChanges(d) ==
  /\ pc[d] \in {"waitConfig", "waitCode"}
  /\ \/ remote.status # "Successful" /\ GivesUp(d)
     \/ remote.status = "Successful" /\ pc[d] = "waitConfig" /\ Goes(d, "code", Nothing)
     \/ remote.status = "Successful" /\ pc[d] = "waitCode" /\ Succeeds(d, NoReference)
  /\ UNCHANGED remote

LambdaCallFails(d) ==
  /\ IsLambda
  /\ pc[d] # "start" \/ At(d, "start")
  /\ pc[d] # "returned"
  /\ CallFails(d)
  /\ UNCHANGED remote

(* AWS applies the pending change, or fails to.                            *)
Applied ==
  /\ Busy
  /\ remote' = [remote EXCEPT !.status = "Successful",
                              !.env = IF remote.what = "env" THEN remote.pending ELSE @,
                              !.code = IF remote.what = "code" THEN remote.pending ELSE @]
  /\ UNCHANGED <<app, version, pc, local, result, reference, attempt, failures>>

NotApplied ==
  /\ Busy /\ failures < MaxFailures
  /\ failures' = failures + 1
  /\ remote' = [remote EXCEPT !.status = "Failed"]
  /\ UNCHANGED <<app, version, pc, local, result, reference, attempt>>

OthersEditFunction ==
  /\ ~Busy /\ remote.made < MaxLambdaEdits
  /\ remote' = [remote EXCEPT !.edits = @ + 1, !.made = @ + 1, !.rev = @ + 1]
  /\ UNCHANGED <<app, version, pc, local, result, reference, attempt, failures>>

ConfigStep(d) == LambdaNoVersion(d) \/ GetConfig(d) \/ UpdateConfig(d)
AnyStep(d) == ConfigStep(d) \/ Conflict(d) \/ WaitForChanges(d) \/ LambdaCallFails(d)

(* The two deployers differ in the code only.                              *)
ZipDeployStep(d) == AnyStep(d) \/ UpdateZipCode(d)
ImageDeployStep(d) == AnyStep(d) \/ UpdateImageCode(d)

LambdaNext ==
  /\ IsLambda
  /\ \/ \E d \in Deploys : IF app.image THEN ImageDeployStep(d) ELSE ZipDeployStep(d)
     \/ Applied \/ NotApplied \/ OthersEditFunction

(* What others changed in the function's configuration between the read    *)
(* and the write of a deploy is not overwritten.                           *)
FunctionEditsKept == IsLambda => remote.edits = remote.made

=============================================================================
