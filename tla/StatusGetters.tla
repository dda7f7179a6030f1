---------------------------- MODULE StatusGetters ----------------------------
(***************************************************************************)
(* The status getters that PollingDeployWatcher drives - ECS, Beanstalk,   *)
(* CloudFront, Cloud CDN, Container Apps, Azure Functions, blobs and the   *)
(* Cloud Run job of CloudRunJobDeploy - and the watchers of Cloud          *)
(* Functions and Composer, whose loops are the same but for what a failing *)
(* call does.  Each run watches one app of one kind, while the provider's  *)
(* rollout goes on between the calls and calls fail.                       *)
(***************************************************************************)
EXTENDS CloudRunJobDeploy

CONSTANT Kinds   \* the kinds of apps to watch

VARIABLES
  kind,      \* what is watched; never changes
  rollout,   \* the state that the provider is in
  past,      \* every state that it has been in
  memo,      \* what the getter keeps of its first poll: sync.Once, MemoizedLoad
  poll       \* the next call of a poll that makes several, and the status read

getterVars == <<kind, rollout, past, memo, poll>>
allVars == <<vars, getterVars>>

GetterKinds ==
  {"job", "ecs", "beanstalk", "cdn", "cloudcdn", "aca", "azurefunctions", "blob",
   "cloudfunction", "composer", "cloudrunservice"}

ASSUME KindsAssumption == Kinds \subseteq GetterKinds

(* Those whose rollout is the long-running operation of Google Cloud.      *)
OperationKinds == {"job", "cloudfunction", "composer"}

(* jobId "empty" is for every kind that what the app's outputs or the      *)
(* reference name leaves nothing to poll.                                  *)
PolledUnlessNamed == {"job", "ecs", "aca", "azurefunctions"}

PollAt(call, status) == [at |-> call, status |-> status]
NewPoll == PollAt("start", "none")

-----------------------------------------------------------------------------
(* The providers: how the watched rollout may go on, and which of its      *)
(* states are its success and its failure.                                 *)
Moves ==
  [job |-> {}, cloudfunction |-> {}, composer |-> {}, blob |-> {}, cloudrunservice |-> {},
   ecs |-> {<<"IN_PROGRESS", "COMPLETED">>, <<"IN_PROGRESS", "FAILED">>, <<"IN_PROGRESS", "gone">>,
            <<"COMPLETED", "gone">>, <<"FAILED", "gone">>, <<"gone", "no service">>},
   beanstalk |-> {<<"other version", "Updating">>, <<"Updating", "other version">>, <<"Updating", "Yellow">>,
                  <<"Updating", "Grey">>, <<"Yellow", "Green">>, <<"Yellow", "Red">>, <<"Green", "Terminating">>},
   cdn |-> {<<"InProgress", "Completed">>},
   cloudcdn |-> {<<"PENDING", "RUNNING">>, <<"RUNNING", "DONE">>, <<"RUNNING", "DONE with error">>},
   aca |-> {<<"none", "Provisioning">>, <<"Provisioning", "ProvisioningFailed">>, <<"Provisioning", "Provisioned">>,
            <<"Provisioned", "Running">>, <<"Provisioned", "Degraded">>, <<"Provisioned", "RunFailed">>,
            <<"Running", "Stopped">>, <<"Running", "Deprovisioning">>},
   azurefunctions |-> {<<"202", "200">>, <<"202", "500">>, <<"202", "503">>, <<"503", "202">>}]

Begins ==
  [job |-> {"none"}, cloudfunction |-> {"none"}, composer |-> {"none"}, blob |-> {"none"}, cloudrunservice |-> {"none"},
   ecs |-> {"IN_PROGRESS", "gone"}, beanstalk |-> {"other version"}, cdn |-> {"InProgress"}, cloudcdn |-> {"PENDING"},
   aca |-> {"none"}, azurefunctions |-> {"202"}]

Good == {"COMPLETED", "Green", "Completed", "DONE", "Running", "200"}
Bad == {"FAILED", "Red", "Grey", "Terminating", "ProvisioningFailed", "Degraded", "RunFailed", "Deprovisioning", "500"}

ProviderMoves ==
  /\ pc # "returned"
  /\ \E move \in Moves[kind] :
       /\ rollout = move[1]
       /\ rollout' = move[2]
       /\ past' = past \cup {move[2]}
  /\ UNCHANGED <<vars, kind, memo, poll>>

GettersInit ==
  /\ JobInit
  /\ kind \in Kinds
  /\ kind \notin PolledUnlessNamed => jobId = "set"
  /\ rollout \in Begins[kind]
  /\ past = {rollout}
  /\ memo = "none"
  /\ poll = NewPoll

(* A poll of one kind that ends here.                                      *)
PollEnds(k, status, isErr) ==
  /\ kind = k
  /\ PollReturns(status, isErr)
  /\ poll' = NewPoll
  /\ UNCHANGED <<jobId, operation, kind, rollout, past>>

Answers(k, status) == PollEnds(k, status, FALSE) /\ UNCHANGED <<failures, memo>>
Fails(k) == CallFails /\ PollEnds(k, "unknown", TRUE) /\ UNCHANGED memo

NothingToPoll(k) == jobId = "empty" /\ Answers(k, "complete")

-----------------------------------------------------------------------------
(* aws/ecs.DeployStatusGetter: the tasks of other deployments once, then   *)
(* the deployment and, for the progress line, the tasks.                   *)
EcsInitialize ==
  /\ kind = "ecs" /\ pc = "polling" /\ jobId = "set" /\ poll.at = "start"
  /\ \/ /\ poll' = PollAt("deployment", "none")
        /\ memo' = IF memo = "none" THEN "tasks" ELSE memo
        /\ UNCHANGED <<vars, kind, rollout, past>>
     \/ /\ memo = "none" /\ CallFails
        /\ PollEnds("ecs", "unknown", TRUE)
        /\ memo' = "no tasks"

EcsRolloutStatus(state) == IF state = "FAILED" THEN "failed" ELSE "in-progress"

(* GetDeployment does not expect that the service is gone.                 *)
EcsGetDeployment ==
  /\ kind = "ecs" /\ pc = "polling" /\ poll.at = "deployment"
  /\ \/ /\ rollout = "no service" /\ poll' = PollAt("panicked", "none")
        /\ UNCHANGED <<vars, kind, rollout, past, memo>>
     \/ rollout = "gone" /\ Answers("ecs", "failed")
     \/ rollout = "COMPLETED" /\ Answers("ecs", "complete")
     \/ /\ rollout \in {"IN_PROGRESS", "FAILED"}
        /\ poll' = PollAt("tasks", EcsRolloutStatus(rollout))
        /\ UNCHANGED <<vars, kind, rollout, past, memo>>
     \/ Fails("ecs")

(* Without the tasks for the line, the status is not reported either.      *)
EcsTasks ==
  /\ poll.at = "tasks"
  /\ Answers("ecs", poll.status) \/ Fails("ecs")

(* Mutant: a healthy environment is not taken for ready.                   *)
BeanstalkStatusNotReady(state) ==
  CASE state \in {"other version", "Updating", "Yellow"} -> "in-progress"
    [] state \in {"Red", "Grey", "Terminating"} -> "failed"
    [] OTHER -> "unknown"

(* aws/beanstalk: the environment, if it runs the version.                 *)
BeanstalkStatus(state) ==
  CASE state \in {"other version", "Updating", "Yellow"} -> "in-progress"
    [] state = "Green" -> "complete"
    [] state \in {"Red", "Grey", "Terminating"} -> "failed"
    [] OTHER -> "unknown"

BeanstalkPoll == Answers("beanstalk", BeanstalkStatus(rollout)) \/ Fails("beanstalk")

(* aws/cdn: the invalidation.                                              *)
CdnPoll ==
  \/ Answers("cdn", IF rollout = "Completed" THEN "complete" ELSE "in-progress")
  \/ Fails("cdn")

(* gcp/cloudcdn: the operation, by a getter that is loaded once: if the    *)
(* load fails, so does every later poll.                                   *)
CloudCdnLoadFails ==
  /\ memo = "none" /\ CallFails
  /\ PollEnds("cloudcdn", "unknown", TRUE)
  /\ memo' = "error"

CloudCdnLoadFailed == memo = "error" /\ PollEnds("cloudcdn", "unknown", TRUE) /\ UNCHANGED <<failures, memo>>

(* The client of the operations is made once too; without one, the next    *)
(* Get dereferences nil.                                                   *)
OperationsClientFails ==
  /\ memo = "none" /\ CallFails
  /\ PollEnds("cloudcdn", "unknown", TRUE)
  /\ memo' = "no client"

GetWithoutClient ==
  /\ kind = "cloudcdn" /\ pc = "polling" /\ memo = "no client" /\ poll.at = "start"
  /\ poll' = PollAt("panicked", "none")
  /\ UNCHANGED <<vars, kind, rollout, past, memo>>

CloudCdnGet ==
  /\ memo \in {"none", "client"}
  /\ memo' = "client"
  /\ \/ /\ PollEnds("cloudcdn", IF rollout \in {"DONE", "DONE with error"} THEN "complete" ELSE "in-progress", FALSE)
        /\ UNCHANGED failures
     \/ CallFails /\ PollEnds("cloudcdn", "unknown", TRUE)

(* azure/aca: the revision.                                                *)
AcaStatus(state) ==
  CASE state \in {"Running", "Stopped"} -> "complete"
    [] state \in {"Degraded", "RunFailed", "ProvisioningFailed", "Deprovisioning"} -> "failed"
    [] OTHER -> "in-progress"

AcaPoll ==
  \/ NothingToPoll("aca")
  \/ jobId = "set" /\ (Answers("aca", AcaStatus(rollout)) \/ Fails("aca"))

(* azure/functions: the URL of the deployment; every code but 200 and 202  *)
(* is a failure.                                                           *)
StatusOfCode(code) ==
  CASE code = "200" -> "complete" [] code = "202" -> "in-progress" [] OTHER -> "failed"

AzureFunctionsPoll ==
  \/ NothingToPoll("azurefunctions")
  \/ jobId = "set" /\ (Answers("azurefunctions", StatusOfCode(rollout)) \/ Fails("azurefunctions"))

BlobPoll == Answers("blob", "complete")

EcsNothing == NothingToPoll("ecs")

-----------------------------------------------------------------------------
(* Mutant: a call that fails counts as a failed deployment.                *)
LoopFailsDeployment ==
  /\ CallFails
  /\ Return("ErrFailed")
  /\ UNCHANGED <<jobId, operation, reference, ctx, now, timeoutAt, wakeAt, report, getterVars>>

(* The loops of their own.  A Cloud Functions call that fails ends the     *)
(* watch with its error; one of Composer counts as not done yet.           *)
LoopFails ==
  /\ CallFails
  /\ Return("QueryError")
  /\ UNCHANGED <<jobId, operation, reference, ctx, now, timeoutAt, wakeAt, report, getterVars>>

NoClient ==
  /\ kind \in {"cloudfunction", "composer"} /\ pc = "entry" /\ reference # NoReference
  /\ LoopFails

FunctionPoll ==
  \/ operation = "running" /\ Answers("cloudfunction", "in-progress")
  \/ operation = "succeeded" /\ Answers("cloudfunction", "complete")
  \/ operation = "failed" /\ Answers("cloudfunction", "failed")
  \/ kind = "cloudfunction" /\ pc = "polling" /\ LoopFails

ComposerPoll ==
  \/ operation = "running" /\ Answers("composer", "in-progress")
  \/ operation = "succeeded" /\ Answers("composer", "complete")
  \/ operation = "failed" /\ Answers("composer", "failed")
  \/ CallFails /\ PollEnds("composer", "in-progress", FALSE) /\ UNCHANGED memo

(* The watcher of a Cloud Run service waits for nothing.                   *)
ServiceNotWatched ==
  /\ kind = "cloudrunservice" /\ pc = "entry"
  /\ Return("nil")
  /\ UNCHANGED <<jobVars, reference, ctx, now, timeoutAt, wakeAt, report, getterVars>>

-----------------------------------------------------------------------------
Poll ==
  \/ EcsNothing \/ EcsInitialize \/ EcsGetDeployment \/ EcsTasks
  \/ BeanstalkPoll \/ CdnPoll
  \/ CloudCdnLoadFails \/ CloudCdnLoadFailed \/ OperationsClientFails \/ GetWithoutClient \/ CloudCdnGet
  \/ AcaPoll \/ AzureFunctionsPoll \/ BlobPoll \/ FunctionPoll \/ ComposerPoll

OperationMoves == kind \in OperationKinds /\ OperationEnds /\ UNCHANGED getterVars

Panicked == poll.at = "panicked" /\ UNCHANGED allVars

GettersNext ==
  \/ kind = "job" /\ GetDeployStatus /\ UNCHANGED getterVars
  \/ kind # "cloudrunservice" /\ poll.at # "panicked" /\ WatchStep /\ UNCHANGED <<jobVars, getterVars>>
  \/ Poll
  \/ NoClient
  \/ ServiceNotWatched
  \/ ProviderMoves
  \/ OperationMoves
  \/ Panicked
  \/ Returned /\ UNCHANGED <<jobVars, getterVars>>

GettersSpec == GettersInit /\ [][GettersNext]_allVars

(* As in CloudRunJobDeploy: calls return and fail only finitely often      *)
(* while the context lives.                                                *)
FairGettersSpec ==
  /\ GettersSpec
  /\ WF_allVars((WatchNothing \/ WatchBegins) /\ kind # "cloudrunservice" /\ UNCHANGED <<jobVars, getterVars>>)
  /\ WF_allVars(SelectDelay /\ UNCHANGED <<jobVars, getterVars>>)
  /\ SF_allVars(SelectCtxDone /\ UNCHANGED <<jobVars, getterVars>>)
  /\ WF_allVars(Poll \/ (kind = "job" /\ GetDeployStatus /\ UNCHANGED getterVars))
  /\ WF_allVars(Tick /\ poll.at # "panicked" /\ UNCHANGED <<jobVars, getterVars>>)
  /\ WF_allVars(ServiceNotWatched)

-----------------------------------------------------------------------------
(* A watch ends well or badly only if the provider's rollout has done so   *)
(* (GetDeployStatus of every getter), whatever calls fail in between: a    *)
(* failing call never passes for an end.  Left out are what the code takes *)
(* for the opposite of what it is: an operation of Cloud CDN that is done  *)
(* with an error, a revision that was stopped, an ECS deployment that      *)
(* completed and was then replaced, and an Azure endpoint that is not      *)
(* available for a while.                                                  *)
VerdictIsReal ==
  /\ result = "nil" =>
       \/ reference = NoReference \/ jobId = "empty" \/ kind \in {"blob", "cloudrunservice"}
       \/ operation = "succeeded" \/ past \cap (Good \cup {"DONE with error", "Stopped"}) # {}
  /\ result = "ErrFailed" =>
       operation = "failed" \/ past \cap (Bad \cup {"gone", "503"}) # {}

(* The rollout has succeeded, and no load that failed is remembered.       *)
Succeeded ==
  /\ operation = "succeeded" \/ rollout \in Good
  /\ memo \notin {"error", "no client"}
  /\ pc # "entry"

(* Success is noticed: unless a getter that could not be loaded is         *)
(* remembered (Cloud CDN), a watch ends once the rollout has succeeded,    *)
(* however many calls failed before and however far the timer is.          *)
SuccessReported == Succeeded ~> (pc = "returned" \/ poll.at = "panicked" \/ memo \in {"error", "no client"})

OutcomeOfLoop(r) == IF r = "QueryError" THEN "error" ELSE OutcomeOf(r)

LoopContract == INSTANCE DeployOutcome WITH
  outcome   <- OutcomeOfLoop(result),
  verdict   <- IF result = "QueryError" THEN "error"
               ELSE IF kind = "cloudrunservice" /\ pc = "returned" THEN "skipped" ELSE LearnedVerdict,
  expired   <- ctx = "deadline" \/ (timeoutAt # 0 /\ now >= timeoutAt),
  cancelled <- ctx = "cancelled"

(* Every watcher, the loops of Cloud Functions and Composer included,      *)
(* implements the contract of a deploy watcher.                            *)
WatchersImplementContract == LoopContract!Spec
=============================================================================
