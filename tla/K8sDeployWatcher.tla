-------------------------- MODULE K8sDeployWatcher --------------------------
(***************************************************************************)
(* k8s.DeployWatcher: watches one Deployment until the generation that a   *)
(* deploy created is rolled out, while a second goroutine writes the       *)
(* namespace's events.  The goroutines meet in three channels:             *)
(*   started   the monitor hands over the start time, once, or closes it;  *)
(*   ended     closed when the monitor returns;                            *)
(*   flushed   closed when the event stream returns; Watch waits for it.   *)
(***************************************************************************)
EXTENDS K8sCluster

VARIABLES
  reference,    \* "empty", "noop" (nothing updated), "generation" or "garbage"
  isFirstDeploy,\* looked at for "noop" only
  callerCtx,    \* the caller's context: "live", "cancelled" or "deadline"
  monitorCtx,   \* the same bounded by the watch timeout, which also is a "deadline"
  pc,           \* where Watch and monitorDeployment, its callee, are
  generation,   \* the generation to wait for; 0 accepts any
  snapshot,     \* the Deployment as the current iteration got it
  start,        \* what the monitor found as start time, until it is handed over
  begun,        \* init.Do has run
  result,       \* the error that Watch returns, "none" before it is known
  stream,       \* where the goroutine of streamEvents is
  earliest,     \* events up to this one are not written
  watchOpen,    \* the watch on the namespace's events delivers
  cursor,       \* the last event that the watch delivered
  logged,       \* the events written to stdout
  serviceWatch, \* the ServiceWatcher: "off", "on" or "cancelled"
  failures      \* API calls that failed so far

monitorVars == <<reference, isFirstDeploy, callerCtx, monitorCtx, pc, generation,
                 snapshot, start, begun, result, serviceWatch>>
streamVars == <<stream, earliest, watchOpen, cursor, logged>>
vars == <<clusterVars, monitorVars, streamVars, failures>>

NoSnapshot == [generation |-> 0]
NoStart == {}        \* a nil *time.Time; otherwise the set holds the time
MyGeneration == 2    \* see ClusterInit

Init ==
  /\ ClusterInit
  /\ reference \in {"empty", "noop", "generation", "garbage"}
  /\ isFirstDeploy \in (IF reference = "noop" THEN BOOLEAN ELSE {FALSE})
  /\ callerCtx = "live"
  /\ monitorCtx = "live"
  /\ pc = "entry"
  /\ generation = 0
  /\ snapshot = NoSnapshot
  /\ start = NoStart
  /\ begun = FALSE
  /\ result = "none"
  /\ stream = "off"
  /\ earliest = 0
  /\ watchOpen = FALSE
  /\ cursor = 0
  /\ logged = {}
  /\ serviceWatch = "off"
  /\ failures = 0

CallFails == failures < scenario.failures /\ failures' = failures + 1

-----------------------------------------------------------------------------
(* Watch, up to the start of its goroutines.                               *)
Returns(r) == pc' = "returned" /\ result' = r

NothingToWatch ==
  /\ pc = "entry"
  /\ reference = "empty" \/ (reference = "noop" /\ ~isFirstDeploy)
  /\ Returns("nil")
  /\ UNCHANGED <<clusterVars, streamVars, failures, reference, isFirstDeploy, callerCtx,
                 monitorCtx, generation, snapshot, start, begun, serviceWatch>>

InvalidReference ==
  /\ pc = "entry"
  /\ reference = "garbage"
  /\ Returns("ErrFailed")
  /\ UNCHANGED <<clusterVars, streamVars, failures, reference, isFirstDeploy, callerCtx,
                 monitorCtx, generation, snapshot, start, begun, serviceWatch>>

InitFails ==
  /\ pc = "entry"
  /\ reference = "generation" \/ (reference = "noop" /\ isFirstDeploy)
  /\ CallFails
  /\ Returns("initError")
  /\ UNCHANGED <<clusterVars, streamVars, reference, isFirstDeploy, callerCtx,
                 monitorCtx, generation, snapshot, start, begun, serviceWatch>>

(* A first deploy that updated nothing waits for whatever generation the   *)
(* Deployment has.  The goroutines of the event stream and of the service  *)
(* watcher start, and the timeout begins.                                  *)
WatchBegins ==
  /\ pc = "entry"
  /\ reference = "generation" \/ (reference = "noop" /\ isFirstDeploy)
  /\ generation' = IF reference = "generation" THEN MyGeneration ELSE 0
  /\ stream' = "starting"
  /\ serviceWatch' = "on"
  /\ pc' = "get"
  /\ UNCHANGED <<clusterVars, failures, reference, isFirstDeploy, callerCtx, monitorCtx,
                 snapshot, start, begun, result, earliest, watchOpen, cursor, logged>>

-----------------------------------------------------------------------------
(* monitorDeployment.  Its return closes started and ended.                *)
MonitorReturns(r) == pc' = "waitFlushed" /\ result' = r

(* Mutant: ended is closed by Watch, after flushed.                        *)
EndedByWatch == pc = "returned"

Ended == pc \in {"waitFlushed", "returned"}

(* An error of Get: the Deployment is gone, the monitor's context ended, or *)
(* the API failed.  Only a cancellation is told apart from other errors.   *)
GetErrors ==
  /\ pc = "get"
  /\ \/ /\ ~object.exists
        /\ MonitorReturns("ErrFailed")
        /\ UNCHANGED failures
     \/ /\ monitorCtx = "cancelled"
        /\ MonitorReturns("CancelError")
        /\ UNCHANGED failures
     \/ /\ monitorCtx = "deadline"
        /\ MonitorReturns("getError")
        /\ UNCHANGED failures
     \/ /\ CallFails
        /\ MonitorReturns("getError")
  /\ UNCHANGED <<clusterVars, streamVars, reference, isFirstDeploy, callerCtx, monitorCtx,
                 generation, snapshot, start, begun, serviceWatch>>

(* Mutant: the generation that the status is about is not looked at.       *)
CheckDeploymentUnobserved(d) ==
  CASE d.status.timedOut                       -> "failed"
    [] d.status.updated < d.spec               -> "in-progress"
    [] d.status.total > d.status.updated       -> "in-progress"
    [] d.status.available < d.status.updated   -> "in-progress"
    [] OTHER                                   -> "complete"

(* CheckDeployment, on the Deployment as the monitor got it.               *)
CheckDeployment(d) ==
  CASE d.generation > d.status.observed        -> "pending"
    [] d.status.timedOut                       -> "failed"
    [] d.status.updated < d.spec               -> "in-progress"
    [] d.status.total > d.status.updated       -> "in-progress"
    [] d.status.available < d.status.updated   -> "in-progress"
    [] OTHER                                   -> "complete"

Superseded(d) == generation # 0 /\ d.generation > generation

(* The rest of an iteration, once it has an answer and started was sent.   *)
Examine(d) ==
  \/ /\ snapshot' = d
     /\ \/ Superseded(d) /\ MonitorReturns("newGeneration")
        \/ ~Superseded(d) /\ CheckDeployment(d) = "failed" /\ MonitorReturns("progressDeadline")
        \/ ~Superseded(d) /\ CheckDeployment(d) = "complete" /\ MonitorReturns("nil")
  \/ /\ ~Superseded(d)
     /\ CheckDeployment(d) \in {"pending", "in-progress"}
     /\ pc' = "select"
     /\ snapshot' = NoSnapshot
     /\ UNCHANGED result

(* Get answers.  The first time, the start of the revision is looked up    *)
(* before the answer is examined.  "completed" is for SuccessIsReal only:  *)
(* whether this generation had been rolled out when its status was written. *)
GetAnswers ==
  /\ pc = "get"
  /\ object.exists
  /\ LET d == [generation |-> object.generation, spec |-> object.spec, status |-> status,
               completed |-> object.generation \in completed]
     IN  \/ begun /\ Examine(d)
         \/ ~begun /\ snapshot' = d /\ pc' = "findStart" /\ UNCHANGED result
  /\ UNCHANGED <<clusterVars, streamVars, failures, reference, isFirstDeploy, callerCtx,
                 monitorCtx, generation, start, begun, serviceWatch>>

(* Mutant: the revision is returned instead of the time of its creation.   *)
FindRevision ==
  /\ pc = "findStart"
  /\ start' = IF generation \in DOMAIN revisions THEN {generation} ELSE NoStart
  /\ pc' = "sendStarted"
  /\ begun' = TRUE
  /\ UNCHANGED <<clusterVars, streamVars, failures, reference, isFirstDeploy, callerCtx,
                 monitorCtx, generation, snapshot, result, serviceWatch>>

(* FindDeploymentStartTime looks for a ReplicaSet whose revision number is *)
(* the generation; nil if there is none or if the API fails.               *)
FindDeploymentStartTime ==
  /\ pc = "findStart"
  /\ \/ /\ start' = IF generation \in DOMAIN revisions THEN {revisions[generation]} ELSE NoStart
        /\ UNCHANGED failures
     \/ /\ CallFails \/ (monitorCtx # "live" /\ UNCHANGED failures)
        /\ start' = NoStart
  /\ pc' = "sendStarted"
  /\ begun' = TRUE
  /\ UNCHANGED <<clusterVars, streamVars, reference, isFirstDeploy, callerCtx, monitorCtx,
                 generation, snapshot, result, serviceWatch>>

(* started is not buffered: the monitor waits for the event stream.        *)
SendStarted ==
  /\ pc = "sendStarted"
  /\ stream = "waitStarted"
  /\ earliest' = IF start = NoStart THEN earliest ELSE CHOOSE time \in start : TRUE
  /\ stream' = "listThenWatch"
  /\ start' = NoStart
  /\ Examine(snapshot)
  /\ UNCHANGED <<clusterVars, failures, reference, isFirstDeploy, callerCtx, monitorCtx,
                 generation, begun, serviceWatch, watchOpen, cursor, logged>>

SelectDelay ==
  /\ pc = "select"
  /\ pc' = "get"
  /\ UNCHANGED <<clusterVars, streamVars, failures, reference, isFirstDeploy, callerCtx,
                 monitorCtx, generation, snapshot, start, begun, result, serviceWatch>>

(* Mutant: every end of the context is a timeout.                          *)
SelectCtxDoneIsTimeout ==
  /\ pc = "select" /\ monitorCtx # "live"
  /\ MonitorReturns("ErrTimeout")
  /\ UNCHANGED <<clusterVars, streamVars, failures, reference, isFirstDeploy, callerCtx,
                 monitorCtx, generation, snapshot, start, begun, serviceWatch>>

SelectCtxDone ==
  /\ pc = "select"
  /\ monitorCtx # "live"
  /\ MonitorReturns(IF monitorCtx = "deadline" THEN "ErrTimeout" ELSE "CancelError")
  /\ UNCHANGED <<clusterVars, streamVars, failures, reference, isFirstDeploy, callerCtx,
                 monitorCtx, generation, snapshot, start, begun, serviceWatch>>

(* Mutant: Watch does not wait for flushed.                                *)
ReturnUnflushed ==
  /\ pc = "waitFlushed"
  /\ pc' = "returned"
  /\ serviceWatch' = "cancelled"
  /\ UNCHANGED <<clusterVars, streamVars, failures, reference, isFirstDeploy, callerCtx,
                 monitorCtx, generation, snapshot, start, begun, result>>

(* Watch returns once the event stream has; the service watcher is told to *)
(* stop but not waited for.                                                *)
FlushedThenReturn ==
  /\ pc = "waitFlushed"
  /\ stream = "done"
  /\ pc' = "returned"
  /\ serviceWatch' = "cancelled"
  /\ UNCHANGED <<clusterVars, streamVars, failures, reference, isFirstDeploy, callerCtx,
                 monitorCtx, generation, snapshot, start, begun, result>>

Monitor ==
  \/ NothingToWatch
  \/ InvalidReference
  \/ InitFails
  \/ WatchBegins
  \/ GetErrors
  \/ GetAnswers
  \/ FindDeploymentStartTime
  \/ SelectDelay
  \/ SelectCtxDone
  \/ FlushedThenReturn

-----------------------------------------------------------------------------
(* streamEvents.  A timestamp is the number of events before it.           *)
StreamStarts ==
  /\ stream = "starting"
  /\ stream' = "waitStarted"
  /\ earliest' = Len(events)
  /\ UNCHANGED <<clusterVars, monitorVars, failures, watchOpen, cursor, logged>>

(* started was closed without a value: the deployment never started.       *)
NeverStarted ==
  /\ stream = "waitStarted"
  /\ Ended
  /\ stream' = "listThenQuit"
  /\ UNCHANGED <<clusterVars, monitorVars, failures, earliest, watchOpen, cursor, logged>>

(* emitEvent: an event that is recent enough and whose object belongs to   *)
(* the app.  AppObjectsTracker.Load asks the API for the object once.      *)
Wanted(i) == i > earliest /\ events[i] = "ours"

(* emitAllEvents lists the namespace's events and emits each: the list may *)
(* fail, or the lookup of one event's object.                              *)
EmitAllEvents ==
  /\ stream \in {"listThenWatch", "listThenQuit"}
  /\ LET wanted == {i \in 1..Len(events) : Wanted(i)}
     IN  \/ logged' = logged \cup wanted /\ UNCHANGED failures
         \/ CallFails /\ UNCHANGED logged
         \/ CallFails /\ \E i \in wanted : logged' = logged \cup (wanted \ {i})
  /\ stream' = IF stream = "listThenWatch" THEN "openWatch" ELSE "done"
  /\ UNCHANGED <<clusterVars, monitorVars, earliest, watchOpen, cursor>>

(* Mutant: a watch that starts at the current resource version.            *)
OpenWatchFromNow ==
  /\ stream = "openWatch" /\ callerCtx = "live"
  /\ stream' = "select"
  /\ watchOpen' = TRUE
  /\ cursor' = Len(events)
  /\ UNCHANGED <<clusterVars, monitorVars, failures, earliest, logged>>

(* A watch without a resource version replays what exists and goes on.     *)
OpenWatch ==
  /\ stream = "openWatch"
  /\ callerCtx = "live"
  /\ stream' = "select"
  /\ watchOpen' = TRUE
  /\ UNCHANGED <<clusterVars, monitorVars, failures, earliest, cursor, logged>>

OpenWatchFails ==
  /\ stream = "openWatch"
  /\ CallFails \/ (callerCtx # "live" /\ UNCHANGED failures)
  /\ stream' = "done"
  /\ UNCHANGED <<clusterVars, monitorVars, earliest, watchOpen, cursor, logged>>

(* An event arrives and is emitted, unless its object cannot be loaded.  A *)
(* closed watch delivers empty events, at once and for ever, which change  *)
(* nothing.                                                                *)
ReadEvent ==
  /\ stream = "select"
  /\ watchOpen
  /\ cursor < Len(events)
  /\ cursor' = cursor + 1
  /\ \/ /\ logged' = IF Wanted(cursor + 1) THEN logged \cup {cursor + 1} ELSE logged
        /\ UNCHANGED failures
     \/ /\ Wanted(cursor + 1)
        /\ CallFails \/ (callerCtx # "live" /\ UNCHANGED failures)
        /\ UNCHANGED logged
  /\ UNCHANGED <<clusterVars, monitorVars, stream, earliest, watchOpen>>

SeesEnded ==
  /\ stream = "select"
  /\ Ended
  /\ stream' = "done"
  /\ watchOpen' = FALSE
  /\ UNCHANGED <<clusterVars, monitorVars, failures, earliest, cursor, logged>>

Stream ==
  \/ StreamStarts
  \/ NeverStarted
  \/ EmitAllEvents
  \/ OpenWatch
  \/ OpenWatchFails
  \/ ReadEvent
  \/ SeesEnded

-----------------------------------------------------------------------------
(* The environment of both: contexts end, and the API server closes the    *)
(* watch.                                                                  *)
CallerCtxEnds ==
  /\ callerCtx = "live"
  /\ pc # "returned"
  /\ callerCtx' \in {"cancelled", "deadline"}
  /\ monitorCtx' = IF monitorCtx = "live" THEN callerCtx' ELSE monitorCtx
  /\ UNCHANGED <<clusterVars, streamVars, failures, reference, isFirstDeploy, pc,
                 generation, snapshot, start, begun, result, serviceWatch>>

(* The 15 minutes have passed; they are counted by the monitor only.       *)
TimeoutPasses ==
  /\ monitorCtx = "live"
  /\ pc \in {"get", "findStart", "sendStarted", "select"}
  /\ monitorCtx' = "deadline"
  /\ UNCHANGED <<clusterVars, streamVars, failures, reference, isFirstDeploy, callerCtx, pc,
                 generation, snapshot, start, begun, result, serviceWatch>>

WatchCloses ==
  /\ watchOpen
  /\ \/ callerCtx # "live" /\ UNCHANGED failures
     \/ CallFails
  /\ watchOpen' = FALSE
  /\ UNCHANGED <<clusterVars, monitorVars, stream, earliest, cursor, logged>>

Returned == pc = "returned" /\ UNCHANGED vars

(* Once the monitor has returned, only the namespace's events are read.    *)
ClusterGoesOn ==
  /\ pc # "returned"
  /\ \/ ~Ended /\ ClusterStep
     \/ Ended /\ EventHappens /\ UNCHANGED scenario
  /\ UNCHANGED <<monitorVars, streamVars, failures>>

Next ==
  \/ Monitor
  \/ SendStarted
  \/ Stream
  \/ CallerCtxEnds
  \/ TimeoutPasses
  \/ WatchCloses
  \/ ClusterGoesOn
  \/ Returned

Spec == Init /\ [][Next]_vars

(* Goroutines that can run do, API calls return, the timeout passes; the   *)
(* select of the event stream does not ignore ended for ever.              *)
FairSpec ==
  /\ Spec
  /\ WF_vars(Monitor \/ SendStarted)
  /\ SF_vars(SelectCtxDone)
  /\ WF_vars(Stream)
  /\ SF_vars(SeesEnded)
  /\ WF_vars(TimeoutPasses)

-----------------------------------------------------------------------------
(* The types of the variables; a start time is the time of an event that   *)
(* has happened.                                                           *)
K8sTypeOK ==
  /\ ClusterTypeOK
  /\ reference \in {"empty", "noop", "generation", "garbage"}
  /\ isFirstDeploy \in BOOLEAN
  /\ callerCtx \in {"live", "cancelled", "deadline"}
  /\ monitorCtx \in {"live", "cancelled", "deadline"}
  /\ pc \in {"entry", "get", "findStart", "sendStarted", "select",
             "waitFlushed", "returned"}
  /\ generation \in {0, MyGeneration}
  /\ snapshot.generation \in 0..scenario.generations
  /\ start \subseteq 0..Len(events)
  /\ begun \in BOOLEAN
  /\ result \in {"none", "nil", "ErrFailed", "CancelError", "ErrTimeout", "initError",
                 "getError", "newGeneration", "progressDeadline"}
  /\ stream \in {"off", "starting", "waitStarted", "listThenWatch", "listThenQuit",
                 "openWatch", "select", "done"}
  /\ earliest \in 0..Len(events)
  /\ watchOpen \in BOOLEAN
  /\ cursor \in 0..Len(events)
  /\ logged \subseteq 1..Len(events)
  /\ serviceWatch \in {"off", "on", "cancelled"}
  /\ failures \in 0..scenario.failures

Skipped == reference = "empty" \/ (reference = "noop" /\ ~isFirstDeploy)

(* CheckDeployment (check_deployment.go:11-29) examines counters that the  *)
(* controller publishes later than the object changes: when Watch reports  *)
(* success, every pod of what the monitor saw was up to date and available *)
(* and no old pod was left, and what it saw was no later generation than   *)
(* the one it was asked for.                                               *)
SuccessIsReal ==
  result = "nil" /\ ~Skipped =>
    /\ snapshot.completed
    /\ generation # 0 => snapshot.generation <= generation

(* Watch waits for flushed (deploy_watcher.go:81): nothing is written for  *)
(* an event once the caller has the result.                                *)
NoEventAfterReturn == [][logged' # logged => pc # "returned"]_vars

(* The list and the watch of streamEvents (deploy_watcher.go:215-239) are  *)
(* two calls with a gap between them: unless a call failed or the caller    *)
(* gave up, no event that happened in the gap, or since, is passed over.   *)
NoGapBetweenListAndWatch ==
  stream = "select" /\ failures = 0 /\ callerCtx = "live" =>
    {i \in 1..cursor : Wanted(i)} \subseteq logged

(* The contract of a deploy watcher, whatever the two goroutines do.       *)
OutcomeOf(r) ==
  CASE r = "none"        -> "pending"
    [] r = "nil"         -> "complete"
    [] r = "ErrFailed"   -> "failed"
    [] r = "CancelError" -> "cancelled"
    [] r = "ErrTimeout"  -> "timeout"
    [] OTHER             -> "error"

Contract == INSTANCE DeployOutcome WITH
  outcome   <- OutcomeOf(result),
  verdict   <- IF result \in {"none", "ErrTimeout", "CancelError"} THEN "none"
               ELSE IF result = "nil" /\ Skipped THEN "skipped" ELSE OutcomeOf(result),
  expired   <- "deadline" \in {callerCtx, monitorCtx},
  cancelled <- callerCtx = "cancelled"

(* K8sDeployWatcher implements DeployOutcome: a timeout only after a       *)
(* deadline, a cancellation only by the caller, one final outcome.         *)
ImplementsContract == Contract!Spec

(* The handshakes over started, ended and flushed (deploy_watcher.go:75-82) *)
(* leave neither goroutine waiting for the other: Watch returns.           *)
WatchReturns == <>(pc = "returned")
=============================================================================
