# Formal model of deployment-sdk

`deployment-sdk` publishes artifacts, executes deployments, watches them, shows the status of an
application and streams its logs, on AWS, Google Cloud, Azure and Kubernetes.  This directory holds
TLA+ modules that model it, TLC configurations that check them on small instances, and TLAPS proofs
of theorems about them.  `PROJECT.json` lists the components, runs, mutants, hazards, findings and
theorems, and maps every definition that models code to its lines.

## 1. The system

A command line tool or an agent of the Nullstone platform picks an `app.Provider` by the contract
of the application's module and calls, in this order, a `Pusher` (artifact), a `Deployer` (which
returns a *reference* to the deployment) and a `DeployWatcher` (which waits for that reference).
`LogStreamer`, `Statuser`, `Actioner` and metrics getters are called on their own.

| Part | State it keeps | Operations | Interacts with |
|---|---|---|---|
| `app.PollingDeployWatcher` | timer, context, last status | `Watch` | a `DeployStatusGetter`, one call at a time; closes it on return |
| status getters (`ecs`, `beanstalk`, `cdn`, `cloudcdn`, `cloudrun`, `aca`, `functions`, `blob`), and the loops of Cloud Functions and Composer | what the first poll read, behind a `sync.Once` or a memoized load | `GetDeployStatus`, `Close`; `Watch` | one or more API calls per poll; the provider goes on in between |
| `ecs.DeployLogger` | service, deployment, watermark of events, task loggers | `GetDeployStatus`, `Close` | six AWS calls per poll |
| `k8s.DeployWatcher` | three channels, two contexts, the tracker | `Watch`, `monitorDeployment`, `streamEvents` | two goroutines, the Kubernetes API, a `ServiceWatcher` |
| `k8s.ServiceWatcher` | the previous Endpoints state | `Stream`, `Diff`, `emitDiff` | a goroutine that `Watch` cancels but does not join |
| `k8s/logs` | a streamer per pod and per container, a WaitGroup | `Stream`, `Add`, `Remove`, `Flush` | a goroutine per container, a pod watch, the caller's emitter |
| pollers of logs (CloudWatch, ECS, Cloud Logging, Azure Monitor) | a watermark and the events written, per source | `Stream` | polling loops and the caller's emitter |
| deployers | nothing between calls | read, change, write, clean up | a sequence of API calls, each of which may fail; other deploys |
| pushers of artifacts and images | the local Docker tags | `Push`, `Pull`, `ListArtifactVersions` | buckets and registries, file by file and page by page |
| statusers and actioners | lists behind a `sync.Once`, caches of task definitions | `Status`, `StatusOverview`, `PerformAction` | several requests per view; a read and a write per action |
| `k8s/failures` | nothing | classification of pods, containers, deployments and events | pure functions |
| env vars, OpenTelemetry attributes, outputs | nothing | pure functions | |
| registries of providers, test programs | tables | lookup | |

What is hard in it:

* **Races of signals.**  A final status, the watcher's own timer, the caller's deadline and the
  caller's cancellation may all be there when a `select` is entered, and Go picks any.  The return
  value has to say which one it was.
* **A poll, a view or a deploy is not atomic.**  Each makes several calls and keeps what it read
  before the next one may fail; the provider, other deploys and other people go on in between.
* **Half a deploy stays done.**  Deployers return at the first failing call; the pipeline is run
  again, possibly while another one runs, possibly after a call that succeeded and whose answer was
  lost.
* **Status lags behind the object.**  The counters of a Deployment are those of an older
  generation for a while; an Endpoints object and the event list are watched by separate calls.
* **Goroutines and channels.**  `k8s.DeployWatcher` hands a value over an unbuffered channel,
  closes it to say "never", closes a second one to stop its peer and waits for a third;
  `k8s/logs` runs a goroutine per pod, container and flush, with an idle timer and a cap.
* **Lines are differences.**  What the user sees (events, tasks, endpoints, log lines after a
  watermark) is what was not written before; a lost or repeated difference is never repaired.

What makes the parts correct: a watch returns exactly one outcome and each outcome has its own
cause; success is reported only if the provider's final state was success *of the watched
deployment*; a deploy that reports success is in force and overwrites nothing of anybody else; a
failed one leaves something that the next one can start from; log lines are written once, in order
and without gaps; what a view shows was true; nothing is written after a return; nothing waits for
ever.

## 2. Modules

| Module | Models | Extends |
|---|---|---|
| `DeployOutcome` | what every deploy watcher promises (abstract: no clock, no channel, no provider) | |
| `PollingDeployWatcher` | `app/polling_deploy_watcher.go` | |
| `CloudRunJobDeploy` | `gcp/cloudrun/job_deploy_logger.go` driven by the polling watcher | `PollingDeployWatcher` |
| `StatusGetters` | every other status getter driven by the polling watcher, the watchers of Cloud Functions and Composer with loops of their own, and `sync.MemoizedLoad` | `CloudRunJobDeploy` |
| `EcsDeployLogger` | `aws/ecs/deploy_logger.go`, `deploy_task_logger.go`, `get_all_deployment_tasks.go` and the calls they make, driven by the polling watcher | `PollingDeployWatcher` |
| `K8sCluster` | one Deployment, its ReplicaSets, pods, published status and events (external) | |
| `K8sDeployWatcher` | `k8s/deploy_watcher.go`, `check_deployment.go`, `find_deployment_start_time.go`, and the tracker | `K8sCluster` |
| `K8sServiceWatcher` | `k8s/service_watcher.go` | |
| `DeployCall` | what all Deploy and Push methods have in common: a sequence of calls, the first error, the pipeline that is run again | |
| `ContainerUpdate` | image tag, standard and user env vars, OpenTelemetry attributes of a container, with the rules of each platform | |
| `AppObjectDeploy` | Cloud Run services and jobs, Cloud Functions, Composer environments, Container Apps and their jobs, Kubernetes Deployments | `DeployCall`, `ContainerUpdate` |
| `DefinitionDeploy` | AWS ECS and Batch: revisions of definitions | `DeployCall`, `ContainerUpdate` |
| `LambdaDeploy` | AWS Lambda, zip and container | `DeployCall` |
| `K8sJobDeploy` | job template and CronJobs of a Kubernetes job | `DeployCall` |
| `CdnDeploy` | CloudFront, Cloud CDN and the buckets behind them | `DeployCall` |
| `ArtifactDeploy` | Beanstalk, Azure Functions, Azure static sites | `DeployCall` |
| `ArtifactPush` | pushers of zips, directories and DAGs, and their `Pull` and `ListArtifactVersions` | `DeployCall` |
| `ImagePush` | pushers to ECR, Artifact Registry and ACR | `DeployCall` |
| `Deployers` | all of them side by side, with the properties that hold of all | the eight above |
| `PodLogs` | `k8s/logs` | |
| `PolledLogs` | the log streamers of CloudWatch, ECS, Cloud Logging and Azure Monitor | |
| `StatusCalls` | what all status views and actions have in common: several requests, several calls at a time | |
| `CloudRunJobStatus`, `CloudRunServiceStatus`, `EcsStatus`, `K8sStatus` | the views and actions of one provider each | `StatusCalls` |
| `K8sFailures` | `k8s/failures`: which name a failure gets, as far as reasons and states decide | |
| `Statusers` | all views and actions side by side | the four above |
| `MC...` | instances for TLC | the module they are named after |
| `..._proofs` | theorems and lemmas | the module they are named after |

### How state and actions correspond to the code

**PollingDeployWatcher.**  `pc` is where `Watch` is: before the loop, inside `GetDeployStatus`, in
the select, or returned.  `timeoutAt` is the channel `t1`, armed once by `WatchBegins`; `wakeAt` is
the channel that each select arms afresh.  `PollReturns(status, isErr)` is the return of
`GetDeployStatus` with everything up to the select; the getter modules conjoin it with their own
state.  The three branches of the select are three actions; if several are enabled, any may be
taken.  `Return` includes the deferred `Close`.

**CloudRunJobDeploy, StatusGetters.**  Each way that `GetDeployStatus` returns is an action; a poll
that makes several calls is one action per call, and `poll` says which one is next.  `rollout` is
the state that the provider is in, `past` all those it has been in.  `memo` is what survives
between polls: whether the `sync.Once` is used up, what the memoized load returned.  A nil
dereference after a used-up `Once` is the phase `"panicked"`.

**EcsDeployLogger.**  `phase` is the AWS call that `GetDeployStatus` makes next; one action is one
call with everything the code does up to the next one, so that `EcsStep` interleaves at exactly the
places where the code waits.  `service`, `deployment`, `taskDef`, `lastSeenEventAt` and
`taskLoggers` are the fields of `DeployLogger`; `previous`, `listed` and `toInit` are locals of one
poll; `stdout` is the sequence of lines about the deployment and the service, each a kind and what it
is about.  The lines about tasks are kept by task in `taskLog`, since the tasks of a poll come in the
order in which Go ranges over a map.  `AllTaskArns` models what `sort.Strings` and the discarded
`slices.Compact` leave in the list.

**K8sCluster / K8sDeployWatcher.**  `pc` is the goroutine of `Watch` and `monitorDeployment`,
`stream` that of `streamEvents`.  `SendStarted` is the rendezvous on `started`; the closing of
`started` and `ended` is the return of the monitor (`Ended`); the closing of `flushed` is
`stream = "done"`.  `monitorCtx` is the context with the timeout, `callerCtx` the one that the
event stream gets.  A time is the number of events before it.  `snapshot` is the Deployment as the
last `Get` returned it; its field `completed` is a history of whether its generation was rolled out
when the controller wrote that status, and no action looks at it.

**K8sServiceWatcher.**  `pending` are the states that the watch has yet to deliver, `prevState` the
variable of the goroutine, and `view` what a reader of the lines knows of each address.

**DeployCall and the modules over it.**  Each member of `Deploys` is a pipeline that runs `Deploy`
(or a pusher); `pc` is the API call it makes next, `local` what it has read and will write back,
`remote` what the provider keeps.  `app` is the provider and what the outputs of the app look like,
chosen initially.  An action is one call with the code up to the next one.  `CallFails` conjoined
to an unchanged `remote` is a call that did nothing; conjoined to a changed one, a call that was
carried out and whose answer was lost.  `Retries` is a pipeline that is run again from the start.
Others may edit the object at any time; `made` counts these edits, `edits` how many of them the
object still has.  A platform is a record of what tells its code apart from that of its peers
(`CloudRunService`, `K8sDeployment`, `S3ZipPusher`, ...): whether the write carries the revision that
was read, whether it is masked, which containers and env vars it touches, what it waits for.  Each
of these records stands for the Deploy method of its provider and is mapped to it.

**PodLogs.**  One action per step of a goroutine between two points at which it waits: `main` is
`Stream`, `watch` its event loop, `podStream` the goroutine of each pod, `stream` that of each
container, with the flush's reader as `read` and `end`.  A line is its number; `written` is what
the emitter was given.

**PolledLogs.**  `log` is the service's list of events in the order in which they arrived, each
with a time, a group, a task and a span; arrival and time need not agree.  A poller has a watermark
(`last`), the events it remembers (`visited`), the place of its page and the number of events that
were there when the poll began.  `since` and `until` are the window of its query, as `buildTimespan`,
`buildFilter` and the options make it from a clock that is not behind the events; `first` is where
the poller's first window began.

**StatusCalls and the modules over it.**  Each member of `Calls` is a running call; an action is
one request, `read` is what the call has read, `shown` what it returned.  `cloud` is the provider,
whose steps are bounded by `MaxMoves`.  In `K8sStatus` the calls share one `Statuser`, whose
`sync.Once` is taken by the first and awaited by the others.

**K8sStatus, K8sFailures.**  The pod that the views show is followed through its life: its status
fields are what kubelet and the scheduler report, `did`, `ended` and `fate` what it went through, which
the code does not see.  A container may fail to be pulled or configured, start, end in several ways,
back off, lose its last state, and so on in any order; the pod may not be scheduled, be evicted or
disrupted.  The classifiers are mapped to the code row by row where reasons and states decide; which
sub-reason a message refines a name to is left out.  Of a Deployment, `seen` says whether its
controller had observed the newest revision when it wrote the conditions.

### Abstractions

Messages, formatting, colours and time stamps are left out; a line is a kind and a subject.
`deployments`, `tasks`, addresses, versions and files are members of small sets.  The provisioning,
pull and stopping lines of a task, container lines, `DesiredCount` and the texts of health checks
are not modelled.  An event of the namespace is about the app or not (`AppObjectsTracker`); that it
is loaded once per object is not visible in the model.  The set `logged` does not count how often an
event is written: the replay of the watch writes events that the list already wrote.  An address is
ready or not ready, not both, as the endpoints controller publishes it.  A Deployment is
replicated (`spec.replicas` is set, as the API server defaults it).

Of an object that is written back whole, three things are told apart: what a deploy means to change,
the number of edits by others, and its revision.  Of the env vars of a container there are three:
the version, the OpenTelemetry version attribute, and one more.  The calls that read one CDN each
are one step per CDN.  Files of a push are uploaded in any order, as `WalkDir` and the workers of
the uploaders leave it open.  The texts of messages are left out throughout: hence the sub-reasons of
a failed pull, of the scheduler, of evictions and admissions with the order of their rows, the provider
tags, and the classifier of events, which are tables over texts.  Numbers in views (ports, metrics, host names) are left out unless a
state is derived from them.

## 3. Runs

| Run | Checks | Distinct states |
|---|---|---|
| `polling` | `WatchTypeOK`; `OutcomeJustified`: the documented return values and their causes; `ImplementsContract`: refinement of `DeployOutcome`; `WatchEnds`, `ContextHeeded`: the timer and the context end the watch | 2 487 |
| `getters` | `VerdictIsReal`: no failing call passes for a verdict; `SuccessReported`: a rollout that succeeded ends the watch; `WatchersImplementContract`: refinement of `DeployOutcome` by all eleven kinds | 56 343 |
| `ecs` | `VerdictIsOfThisDeployment`, `EventsAreContiguous`, `TaskStoryInOrder` | 2 128 929 |
| `ecs_liveness` | `CompletionReported` | 123 534 |
| `k8s` | `K8sTypeOK`, `SuccessIsReal`, `NoGapBetweenListAndWatch`, `NoEventAfterReturn`, `ImplementsContract` | 3 991 306 |
| `k8s_liveness` | `WatchReturns`: the handshakes end | 162 192 |
| `service_members` | `MembershipTold` | 2 896 |
| `deployers` | `EditsOfOthersKept`, `CachesDropped`, `OneVersionRuns`, `ReferenceIsOwn`, `PlanKept`, `RetiredOnlyForNewer`, `SoleDeployTakesEffect`, `CronJobsFailAlone`, `DagsNeverMissing`, `PullReproducesPush`, `TagsListed` | 1 322 220 |
| `pod_logs` | `LinesWithoutGap`, `TailWritten`, `StreamGivesUp` | 153 716 |
| `polled_logs` | `WrittenOnce`, `PollMissesNothing` | 2 853 488 |
| `status` | `PhaseWasTrue`, `NothingMissed`, `ActionsKept`, `FailureWasReal`, `ViewsAgree` | 1 422 975 |
| `job_failure` | violation of `FailedStatusFailsWatch` | |

Every passing run but four keeps deadlock checking: a returned call is an explicit stutter, so a
deadlock would be a goroutine that waits for ever.  `CHECK_DEADLOCK FALSE` is set in
`service_members` (the goroutine ends), `pod_logs` and `polled_logs` (all goroutines end, or a
stream without an end has written all that the bounds let the service have) and `status` (a job or
task that a call waits for stops moving at `MaxMoves`).

Properties of several providers are conjunctions of one part per provider, each part guarded by the
kind of the app, so that one run covers every kind: the kind is chosen in the initial state.

### Findings

`findings` in `PROJECT.json` lists the disagreements between the code and a doc, comment or test of
the repository that modelling brought up, each with both places.  One has a run of its own: a failed
Cloud Run operation is returned as `RolloutStatusFailed` *with* an error; the watcher ignores
statuses of erring calls, and the watch runs into its timeout instead of `ErrFailed`
(`job_failure`).  The others are met in the passing runs' models as behaviour, and a property that
would be false because of one leaves exactly that case out:

| Left out of | The case |
|---|---|
| `VerdictIsReal` | an operation of Cloud CDN that is done with an error, a revision of a Container App that was stopped, an ECS deployment that completed and was then replaced, an Azure endpoint that is unavailable for a while: the code takes each for the opposite of what it is |
| `SuccessReported` | a getter whose first load or client failed, which is kept for ever (Cloud CDN, the operation getters), and a poll that panicked |
| `VerdictIsOfThisDeployment` | a deployment that completed and was evicted before the next poll is reported as cancelled |
| `SuccessIsReal` | a Deployment that was deleted and created again counts its generations from 1: its rollout passes for the watched one |
| `NoGapBetweenListAndWatch` | holds relative to the start time that was found, which may be that of another revision (`deploy_watcher.go:146`) |
| `MembershipTold` | says nothing of readiness: a new address is announced as ready though it is not |
| `CachesDropped` | the success, without an invalidation, of a deploy that is run again after a failure, on AWS and on Google: it finds nothing to change and purges nothing.  Of several url maps, all but the first: they are purged under the request id of the first |
| `CronJobsFailAlone` | a CronJob whose pods have no labels: the deploy panics on it, and what is listed after it stays at the old version, as the last conjunct says |
| `OneVersionRuns` | Lambda, whose env vars and code are written by two calls and mix when the second fails; the job templates and CronJobs of Kubernetes, whose containers are not told apart here; Composer, whose image and env vars the deployer does not set together; the OpenTelemetry attributes of Container Apps and of revisions of definitions |
| `PlanKept` | Cloud Functions, whose deployer adds env vars that the plan does not have |
| `SoleDeployTakesEffect` | a Composer environment; the env vars of objects, beside the image; of Azure Functions that are not deployed by a zip, and of blobs behind a CDN, all that is said is that the restart, or the purge, took place; the upload of the env vars file to Google, whose error is dropped with the deferred `Close` |
| `ObjectReferenceIsOwn` (`ReferenceIsOwn`) | Container Apps, whose latest revision may already be another deploy's |
| `PullReproducesPush` | a key template without a "/" behind the version; a Google zip whose key begins with "/" |
| `DagsNeverMissing`, `PullReproducesPush` | the one keeps DAGs while pushers of DAGs run; the other leaves DAGs out, since a directory of DAGs has no versions |
| `LinesWithoutGap`, `TailWritten` | a flush writes again, from the first line on, what the stream has written (hence "at most twice over"); the tail is lost when the second stream breaks, is given up, or cannot be opened.  A line that a broken stream cuts off is not told apart from a whole one |
| `WrittenOnce` | Azure Monitor, which asks again for the time of the last event and remembers nothing |
| `PollMissesNothing` | entries of Cloud Logging without a span, all of which count as one; an event that arrives after one with a later time; what lies outside the window of the query: before the caller's start or after his end, before the last hour (Azure Monitor) or day (Cloud Logging) when neither is given, in the current second (Azure Monitor), and everything when Azure Monitor gets an end without a start |
| `PhaseWasTrue` | a Cloud Run task whose attempt failed without an exit code is shown as Succeeded, and its execution's banner may have no exit code; of tasks that failed with one, which one is in the banner; tasks beyond the 500 that are listed |
| `NothingMissed` | lists of more than 100 tasks, of which one page is read, and more than 100 tasks in all, whose description is refused (`get_task_definition_tasks.go`).  `get_service_tasks.go`, `get_deployment_tasks.go` and `get_all_deployment_tasks.go` read one page as well; nothing is claimed of the tasks of a service |
| `FailureWasReal` | a crash loop after a clean end is called a crash, and a container that was lost one that exited; after a restart the failures of the revision before are shown until the controller has seen the new one; an exec format error is known from the message of the end only.  Sub-reasons, provider tags and events are not modelled; where their texts differ from the catalog or misfire is in `findings` |
| `ViewsAgree` | the Deployment, which `Status` reads at each call (`statuser.go:150`) |

### Bounds

* `polling`: a clock up to 4 with a delay of 1 and a timeout of 2 (reached, and passed while a poll
  runs) or 100 (never reached, so that only the context can end the watch).  At `MaxTime` delays
  count as passed; the clock only has to tell "before" from "at or after".  `getters`: a clock up to
  3, two failing calls (a first poll that fails and a later one), every kind of getter.
* `ecs`, `k8s` and `pod_logs` have a constant `Scenarios`, a set of bounds from which the initial
  state picks one.  A run covers the sum of the parts instead of their product.
  * ECS: (a) two failing calls and no log lines, (b) one old event, three in all and one failing
    call, (c) one task and one failing call, without a newer deployment.  Two deployments are
    enough, since a third one does to the second what the second does to the watched one.  A second
    task would only interleave independent stories.  Two failures make a failing poll after a
    failing poll.
  * Kubernetes: (a) a third generation by a push or a scaling, up to two replicas, (b) a deletion
    and a recreation, (c) two events and a failing call.  A generation above the watched one ends
    the watch, hence one more is enough.
  * Pod logs: two pods with a container each; (a) one that writes three lines, followed and flushed,
    (b) one that is read as far as it goes, with a start time, (c) a second pod that comes while the
    first one goes.  Three lines leave one before, one during and one after the flush begins.
* `service_members`: two interchangeable addresses (symmetry; no liveness is checked there) and
  three states to deliver, enough for an address to join, leave and join again.
* `deployers`: two deploys and two versions, so that one deploy overtakes another, with one failing
  or lost call, one pipeline that is run again and one edit by others, which is the least that makes
  each of the hazards happen; two CDNs, CronJobs and files, so that a loop can fail between them;
  two polls instead of ten, which only count.  Deploys, versions and files are interchangeable
  (symmetry; every property of the run is an invariant).
* `polled_logs`: two groups, two tasks, two events at times 2 to 4 with two ticks to a second (so
  that a watermark rounded to seconds shows, and an end cut to the second), a default window of one
  tick, one failing call; requests with neither time, with a start, with an end, with both, for tasks
  and for a deployment.  Two events are the least that arrive out of order.
* `status`: two calls at a time, four steps of the provider in between (a container that starts, ends,
  backs off and cannot be started again), one failing request, two tasks of an execution, revisions,
  rollouts and executions, of which the tasks of one are listed (the code lists those of the first
  few).  ECS has three tasks and pages of two, so that a list is cut, and a description refused.

Once a monitor has returned, the cluster's only step is a further event: nothing else is read any
more.

### Fairness

* Goroutines that can run do so, timers fire, and API calls return (weak fairness).  A call that
  hangs hangs `Watch`: nothing in the loops bounds it, and this is listed as a hazard.
* Go's `select` picks uniformly among ready channels, so a channel that is ready whenever the
  select is entered is picked eventually although the delay may be ready as well: strong fairness
  of the branches for the context, the timer and `ended`.
* In `PodLogs` each goroutine has weak fairness of its own, since Go schedules each of them: one per
  pod, per container and per flush.  The idle timer and the cap of a flush are steps of its
  goroutine.
* Calls fail finitely often while the context lives (the bound on failures); once the context has
  ended they may fail for ever.
* No fairness is assumed of users, autoscalers, rollouts, containers or events.

## 4. Proofs

| Theorem | Module | For every |
|---|---|---|
| `WatchTypeCorrect` : `WatchSpec => []WatchTypeOK` | `StatusGetters_proofs` | delay, set of timeouts, references, set of reports |
| `OutcomeAlwaysJustified` : `WatchSpec => []OutcomeJustified` | same | same |
| `PollingImplementsContract` : `WatchSpec => ImplementsContract` | same | same |
| `JobSuccessAlwaysReal` : `JobSpec => []JobSuccessIsReal` | same | also: number of failures |
| `VerdictAlwaysReal` : `GettersSpec => []VerdictIsReal` | same | set of kinds, timeout, number of failures |
| `WatchersKeepContract` : `GettersSpec => WatchersImplementContract` | same | same |
| `VerdictAlwaysOfThisDeployment` : `Spec => []VerdictIsOfThisDeployment` | `EcsDeployLogger_proofs` | number of tasks, events and failures, timeout |
| `EventsNeverSkipped` : `Spec => []EventsAreContiguous` | same | same |
| `TaskStoriesInOrder` : `Spec => []TaskStoryInOrder` | same | same |
| `K8sTypeCorrect`, `SuccessAlwaysReal`, `NothingBetweenListAndWatch` : `Spec => []K8sTypeOK`, `[]SuccessIsReal`, `[]NoGapBetweenListAndWatch` | `K8sDeployWatcher_proofs` | number of generations, replicas, events, deletions and failures |
| `NothingAfterReturn` : `Spec => NoEventAfterReturn` | same | same |
| `K8sImplementsContract` : `Spec => ImplementsContract` | same | same |
| `MembershipAlwaysTold` : `Spec => []MembershipTold` | `K8sServiceWatcher_proofs` | set of addresses, number of changes |
| `LinesNeverSkipped` : `Spec => []LinesWithoutGap` | `PodLogs_proofs` | set of pods and containers, number of lines, options |
| `TailAlwaysWritten` : `Spec => []TailWritten` | same | same |
| `EditsAreKept` : `Spec => []EditsOfOthersKept` | `Deployers_proofs` | number of deploys, versions, files, CDNs, CronJobs, edits, failures and repeated runs |
| `NewerIsActive` : `Spec => []RetiredOnlyForNewer` | same | same |
| `PlanIsKept` : `Spec => []PlanKept` | same | same |
| `FailuresStayAlone` : `Spec => []CronJobsFailAlone` | same | same |
| `VersionsNeverMix` : `Spec => []OneVersionRuns` | same | same |
| `ReferencesAreOwn` : `Spec => []ReferenceIsOwn` | same | same |
| `PullsReproduce` : `Spec => []PullReproducesPush` | same | same |
| `DagsStay` : `Spec => []DagsNeverMissing` | same | same |
| `ListingsMissNoTag` : `Spec => []TagsListed` | same | same |
| `CachesAreDropped` : `Spec => []CachesDropped` | same | same |
| `SoleDeploysTakeEffect` : `Spec => []SoleDeployTakesEffect` | same | same |
| `ShownPhaseWasTrue` : `Spec => []PhaseWasTrue` | `Statusers_proofs` | number of calls, tasks, executions, revisions, jobs, steps of the provider and failures |
| `NoTaskIsMissed` : `Spec => []NothingMissed` | same | same |
| `DoneActionsAreKept` : `Spec => []ActionsKept` | same | same |
| `ViewsAlwaysAgree` : `Spec => []ViewsAgree` | same | same |
| `ShownFailuresWereReal` : `Spec => []FailureWasReal` | same | same |
| `EventsWrittenOnce` : `Spec => []WrittenOnce` | `PolledLogs_proofs` | number of log groups, tasks and events, set of times, ticks of a second, number of failures |
| `PollsMissNothing` : `Spec => []PollMissesNothing` | same | same |

The assumptions are those that the modules state of their constants (`PollingAssumption`,
`JobAssumption`, `KindsAssumption`, `EcsAssumption`, `ClusterAssumption`, `ServiceAssumption`,
`PodLogsAssumption`, `DeployAssumption`, `CallsAssumption`, `JobStatusAssumption`,
`PolledLogsAssumption`): bounds are numbers, delays, timeouts and times are positive, a report is a
pair of a status and whether there is an error.  The rest say that a value which stands for
something special is not also an ordinary one: the version that runs initially is none of those
deployed (`VersionAssumption`), nor is a version an absent value, a secret or one of the user's
(`ValueAssumption`), no deploy has the name of the author of a plan or of a missing image
(`PlanAssumption`, `ImageAssumption`), and no log group or task that of all of them
(`AllTasksAssumption`).  TLC evaluates all of them.

*Polling.*  `OutcomeJustified` is not inductive: from "a timeout is returned only after it passed"
alone a step of the select cannot be justified, since nothing ties `timeoutAt` to the configured
timeout.  The inductive invariant is `WatchInv == WatchTypeOK /\ TimerInv /\ OutcomeJustified`;
`TimerInv` says that the timer is armed exactly when polling has begun, at a full timeout, that
nothing has been settled before the return, and that a watch without a reference never polls.
There is one lemma for a poll that returns (which alone can settle a verdict) and one for all other
steps, with a case per action.

*Refinement.*  `OutcomeOf(result)` is the outcome, `LearnedVerdict` what the last report settled,
`expired` whether a deadline has passed.  A poll that settles a verdict maps to `Conclude`, the
branches of the select to `TimeOut` and `Abort`, a tick that reaches the timer to `Expire`, all
else to a stutter.  `TimerInv` is needed for `TimeOut`: the timer that fires was armed.

*Getters.*  `VerdictInv` adds to the property that the provider's state is one it has been in, which
states an Azure answer has, and that the status which an ECS poll carries to its last call was read
of a deployment that was not complete.  The lemmas `ErrorVerdict` and its like reduce each return of
a getter to the pair that it reports.

*ECS deploy logger.*  What a poll read may be old when it is judged; the verdict is right all the
same, because ECS takes nothing back (`EcsGoesOn`): a rollout ends once, and an eviction lasts.
`ReadInv` carries this to what was read: if it had ended, it still has; if it was evicted, the newer
deployment is there.  `PollInv` ties the phases of a poll to the loop of the watch.  Of its lines,
`LinesInv` says that no event was written while the watermark was not yet set (`NoneBeforeSeen`),
without which the seed of a later poll could leave events out, and `LinesGoOn` that lines which are no
events, followed by those from the watermark on, keep the events contiguous.  `TasksInv` says that a
logger has told no more of its task than it has read of it (`Told`), that one which has read nothing
yet has told nothing - it stays behind when the call fails that should initialize it - and that a task
does not go back behind what was read (`Later`).

*Kubernetes deploy watcher.*  `FlowInv` relates the two goroutines and the two contexts: the result
is there once the monitor has returned, `Watch` is over only when the stream is, the monitor's
context derives from the caller's.  `ClusterInv` says of the published status that it is never ahead
of the object and that, when it has observed the object's generation and looks settled, that
generation was rolled out; `MonitorInv` says the same of the snapshot that the monitor examines,
across any scaling, push, deletion and recreation in between.  `StreamInv` ties the cursor of the
event stream to the events there are.  The refinement of `DeployOutcome` needs `FlowInv` alone.

*Service watcher.*  `DiffTellsMembership` is the core: if the view agrees with a state about
membership, the lines of `Diff` bring it to agree with the next one, whatever both are.

*Pod logs.*  A line is skipped only if a container is streamed by two goroutines, or if the flush
begins elsewhere than where it says.  `PodsInv` excludes the first - a pod is listed or its creation
is an event, never both, and it is streamed once; `Follows` says of each container streamer where in
its log it is and which line was written last.  `TailInv` splits what was written of a container in
two: the first `m` lines are those of the first stream, and what follows are those of the flush, from
the first line on (`Runs`, `Tail2`); a second stream that ended of itself has them all, since the
container had exited by then.

*Deployers.*  The argument for what others edit is the same for all: what a deploy holds was read
under a revision that is not newer than the object's, and if it is the same revision, then it is
what the object still has (`ReadOfObject`, `ReadOfFunction`, `ReadOf`, `ReadOfCdn`).  A write is
refused unless the revisions agree, hence it writes back the edits that are there.  For CDNs the
same is claimed of every element of the two sequences that the read loop builds, for CronJobs of
every object of the list.  For revisions of definitions, `ReadOfDefinition` says that what a deploy
is about to retire is older than what it has registered; the proof that each inactive revision has a
newer active one then takes the greatest: whichever revision is retired, the one that was registered
for it, or a later one that replaced it in turn, is active.

The kinds of apps exclude each other (`KindsExclusive`), so that each module's steps leave the claims
of the others alone; `Shape` (which records `local` and `remote` are, per kind) and `Versioned`
(whatever is deployed is one of the versions, by a deploy of that version) are the frame of the rest.
On it stand, per component, what a deploy has done so far and holds in its hand:

* `JobStory` and `StoriesInv` (jobs and CronJobs, objects, definitions): each container that a deploy
  holds or has written is as the read object had it with the version put in, so that all of its image
  tag, its env vars and its labels are of one version (`OneVersionRuns`), what the plan set is kept
  (`PlanKept`), and the reference that a deploy returns names what it wrote (`ReferenceIsOwn`).  Of
  CronJobs, at every step of the loop: those that a deploy has passed have left the old version or
  have failed with an error, whatever became of their neighbours (`Passed`); and from a CronJob whose
  pods have no labels on, nobody has changed what is listed (`OldFromUnlabelled`).  Together they give
  `CronJobsFailAlone`.
* `PushStory`: which files of the artifact are uploaded at each call, and that another pusher of the
  same version uploads the same; hence a reader finds all of it once a push has succeeded
  (`PullReproducesPush`), and the bucket never lacks a DAG that was there (`DagsNeverMissing`).
* `ImageStory`: which pages a listing has read, and that a tag which is not on them is on those to
  come (`TagsListed`).
* `CacheStory`: of the caches that a purge is sure to reach (`SurelyPurged`), those that the purge
  loop has passed hold nothing of before the deploy's changes, and the first run of a deploy that has
  found nothing to change has changed nothing (`CachesDropped`).
* `SoleStory`: what a deploy has in force at each of its calls, as long as no other was begun
  (`Effect`, one definition per module).  It is what success comes down to, traced back call by call:
  Lambda's code is written once its configuration is (`LambdaEffect`), the CDNs behind the loop have
  the version (`CdnEffect`), the files still to upload are all that can be missing (`PushEffect`), the
  newest revision of a definition is the one registered (`DefinitionEffect`), and so on.

`SoleDeployTakesEffect` is not inductive, and `Effect` alone is not either; each of its parts rests on
a story above.  Three facts make it hold.  Nothing that a deploy reads by itself can be wrong, since
whatever others edit between read and write does not touch the version, and a write that comes late
is refused by its revision (`ObjectInv`, `FunctionInv`, `CdnInv`, `JobInv`).  An earlier run of the
same deploy that failed half way leaves only what the next run writes again or, as with a CDN that it
finds changed, need not write: a run that is begun afresh claims nothing yet, so that `Effect` holds
of it at once.  And the deploys that do not count as begun have no version (`Idle`): `Asked` says that
they never get beyond their first call, except when they list the tags of images, where they write
nothing that `ImageEffect` speaks of.  Of a definition, `LatestIsNewest` and `OneVersionRuns` turn the
newest revision being the deploy's into the image being of its version.

*Contracts of the getters.*  `WatchersKeepContract` is the polling contract again, with each getter's
poll and with the watchers that have loops of their own: their result is settled once, never after
the return, and the contract's verdict is what the last report settled.

*Statusers.*  A call of a status view makes several requests, and other calls and the provider move
in between; what makes its view right all the same is that the providers go one way.  `StatusInv` has
a conjunct per provider (an app is of one of them, `OfOneProvider`), and each says of every call that
what it has read, and what it has shown, is still true in this sense:

* `JobInv` (Cloud Run jobs): a phase that was read is not ahead of the execution (`PhaseTrue`), and an
  execution that has ended does not change (`ExecutionLater`).  The executions are listed first and
  their tasks later, hence `TasksAreTrue`: the tasks of a later moment tell no other story than the
  phase that the list had.  `TrueOfFate` derives the words of `JobPhaseWasTrue` from it.
* `ServiceInv` (Cloud Run services): an action that is about to write has read the service that is
  there, or one with a smaller etag; the write is refused in the second case (`UpdateWrites`).
* `EcsInv`: of the tasks that were there when a call began, each that still is was found by the first
  list or is not wanted any more, and then the second list finds it (`ReadOfEcs`, at "stopped").  This
  is where the order of the two lists matters.
* `K8sInv`: one call at most is listing (`OneLists`), which holds because `sync.Once` is `loading`
  exactly as long as it does; once it is done the lists do not change, and all that was ever shown was
  made from them (`ShownOfK8s`).

`JobPhaseWasTrue` speaks of tasks in three ways (shown as failed, as succeeded, in the banner), and
`TaskStateIs` derives each from what a task's state says of its attempts.  Of ECS lists, `CutSound`
says that a list which is not cut is complete (`PageOf`): what `NothingMissed` claims is for those.

`FailureWasReal` has an inductive invariant of its own beside it, `NamesInv`, about the pod as it is
and about each that was listed, not only about what is shown.  `ContainerSound` ties what the status
of the container says to what it did and how it ended last: in a crash loop the last state is that of
the last end or has been forgotten, and a container that cannot be started again may hold any last
state, which its waiting reason hides.  `FateSound` does the same for the scheduler, evictions and
disruptions, `RolloutSound` for the conditions of the Deployment.  Each classifier is then compared
under these (`PodSound` is their conjunction).

*Polled logs.*  Neither property is inductive, since neither says where a poller stands.  `Story`
does: an event that has to be written and is not (`Due`) has no earlier time than the last one
written, nor an earlier place than the page that is being read.  So the next query, which asks from
the time of the last one or, rounded, from before (`SinceIsBefore`), still asks for it, and an answer
without further events leaves none out.  The windows move: `Story` claims only what is `Within` the poller's
own, from `first`, where it began, to `until`, the end of the present query, and `first` never lies
before `since` unless something was written meanwhile; an event that an earlier `until` cut off is
later than all that was written, hence in the next window.  That an event arrives late cannot break this, since only
those that are in time are due.  The places in an answer are ordered as the times are, and then as
the arrivals (`ServedInOrder`, `PlacesDiffer`), whatever the bound on events.  `Once` says that what
was emitted is in the `visited` of some poller; no two pollers own the same event (`OneOwner`: they
differ in group or task, or one asks for everything and is alone), hence it is in that of the poller
that comes upon it again.

*Only model-checked:* what is out of reach of the prover, all liveness (`WatchEnds`,
`ContextHeeded`, `SuccessReported`, `CompletionReported`, `WatchReturns`, `StreamGivesUp`), for it
needs fairness and `ENABLED`.  Every invariant and every action property that a passing run checks is
stated by a theorem.

## 5. Hazards without a property

`PROJECT.json` lists the hazards with their lines.  Those that the models confirm but no passing
property can state: a call that hangs hangs the polling watcher; an evicted deployment that ECS no
longer lists looks in progress until the timeout; a deployment that is gone before the first poll is
dereferenced as nil; Kubernetes events before the last `Get` are lost when the select picks `ended`;
events are written by the list and again by the replay of the watch; a change of the replicas alone
has the watch given up as superseded.

## 6. Not modelled

* *ECS container loggers* compare the containers of a task with what was read before, as
  `EcsDeployLogger` does for tasks; they add wording, not states.
* *EKS, GKE, AKS* and the *clients and credentials* of the clouds configure the clients of the
  components above: straight-line I/O without state of their own.
* *CloudWatch and Google metrics* build queries from tables and map their answers; what a status
  view derives from metrics is in `CloudRunServiceStatus`.
* *Registries of apps and workspaces* are tables of constructors.
* *The outputs retriever* fills structs by reflection, and *the escaping of OpenTelemetry
  attributes and the resolution of references between env vars* work on strings character by
  character.  What these functions decide for a deploy is in `ContainerUpdate`; their text is not.
* *Test programs* are run by hand.

## 7. What could follow

* Where the findings and the hazards of section 5 are, the code, not the model, would have to change;
  after a change what the models refute now can become an invariant of a passing run, and the proofs
  show which conjunct it adds to which inductive invariant.
* The liveness properties could be reduced to invariants and a measure that fair steps make smaller;
  that a step does not make it larger is an action property, which the prover can be asked.
* The container loggers of ECS and the metrics of CloudWatch could be modelled as the deploy logger
  and the metrics of Cloud Run are.
