------------------------ MODULE K8sDeployWatcher_proofs ------------------------
(* Theorems about K8sDeployWatcher: for every scenario, so for any number   *)
(* of generations, replicas, events, deletions and failing calls.           *)
EXTENDS K8sDeployWatcher, TLAPS

Watching == {"get", "findStart", "sendStarted", "select"}

(* The two goroutines and the contexts: the result is there once the        *)
(* monitor has returned; the event stream runs between the entry and the    *)
(* return of Watch; the monitor's context is derived from the caller's.     *)
FlowInv ==
  /\ pc \in Watching \cup {"entry", "waitFlushed", "returned"}
  /\ result = "none" <=> pc \notin {"waitFlushed", "returned"}
  /\ pc \in Watching => ~Skipped
  /\ pc = "entry" => stream = "off"
  /\ pc = "returned" => stream \in {"off", "done"}
  /\ callerCtx \in {"live", "cancelled", "deadline"}
  /\ monitorCtx \in {"live", "cancelled", "deadline"}
  /\ monitorCtx = "cancelled" => callerCtx = "cancelled"

-----------------------------------------------------------------------------
(* The flow of control.                                                    *)
LEMMA FlowInit == Init => FlowInv
  BY DEF Init, FlowInv, Watching

(* What Examine does to the flow, from the two steps that it ends.          *)
LEMMA ExamineFlow ==
  ASSUME NEW d, Examine(d)
  PROVE  \/ pc' = "waitFlushed" /\ result' \in {"newGeneration", "progressDeadline", "nil"}
         \/ pc' = "select" /\ result' = result
  BY DEF Examine, MonitorReturns

LEMMA FlowNext == FlowInv /\ [Next]_vars => FlowInv'
PROOF
  <1> SUFFICES ASSUME FlowInv, [Next]_vars PROVE FlowInv'
    OBVIOUS
  <1> USE DEF FlowInv, Watching, Skipped
  <1>1. CASE Monitor
    <2>1. CASE NothingToWatch
      BY <2>1 DEF NothingToWatch, Returns, streamVars
    <2>2. CASE InvalidReference
      BY <2>2 DEF InvalidReference, Returns, streamVars
    <2>3. CASE InitFails
      BY <2>3 DEF InitFails, Returns, streamVars
    <2>4. CASE WatchBegins
      BY <2>4 DEF WatchBegins
    <2>5. CASE GetErrors
      BY <2>5 DEF GetErrors, MonitorReturns, streamVars
    <2>6. CASE GetAnswers
      <3>1. /\ pc = "get" /\ UNCHANGED <<reference, isFirstDeploy, callerCtx, monitorCtx, stream>>
            /\ \/ \E d : Examine(d)
               \/ pc' = "findStart" /\ UNCHANGED result
        BY <2>6 DEF GetAnswers, streamVars
      <3>2. CASE \E d : Examine(d)
        BY <3>1, <3>2, ExamineFlow
      <3>3. CASE pc' = "findStart" /\ UNCHANGED result
        BY <3>1, <3>3
      <3> QED BY <3>1, <3>2, <3>3
    <2>7. CASE FindDeploymentStartTime
      BY <2>7 DEF FindDeploymentStartTime, streamVars
    <2>8. CASE SelectDelay
      BY <2>8 DEF SelectDelay, streamVars
    <2>9. CASE SelectCtxDone
      BY <2>9 DEF SelectCtxDone, MonitorReturns, streamVars
    <2>10. CASE FlushedThenReturn
      BY <2>10 DEF FlushedThenReturn, streamVars
    <2> QED BY <1>1, <2>1, <2>2, <2>3, <2>4, <2>5, <2>6, <2>7, <2>8, <2>9, <2>10 DEF Monitor
  <1>2. CASE SendStarted
    <2>1. /\ pc = "sendStarted" /\ stream' = "listThenWatch" /\ Examine(snapshot)
          /\ UNCHANGED <<reference, isFirstDeploy, callerCtx, monitorCtx>>
      BY <1>2 DEF SendStarted
    <2> QED BY <2>1, ExamineFlow
  <1>3. CASE Stream
    <2>1. stream \notin {"off", "done"} /\ UNCHANGED monitorVars
      BY <1>3 DEF Stream, StreamStarts, NeverStarted, EmitAllEvents, OpenWatch, OpenWatchFails,
                  ReadEvent, SeesEnded
    <2> QED BY <2>1 DEF monitorVars
  <1>4. CASE CallerCtxEnds
    BY <1>4 DEF CallerCtxEnds, streamVars
  <1>5. CASE TimeoutPasses
    BY <1>5 DEF TimeoutPasses, streamVars
  <1>6. CASE WatchCloses
    BY <1>6 DEF WatchCloses, monitorVars
  <1>7. CASE ClusterGoesOn
    BY <1>7 DEF ClusterGoesOn, monitorVars, streamVars
  <1>8. CASE UNCHANGED vars
    BY <1>8 DEF vars, monitorVars, streamVars
  <1> QED BY <1>1, <1>2, <1>3, <1>4, <1>5, <1>6, <1>7, <1>8 DEF Next, Returned

(* Nothing is written for an event once the caller has the result: the      *)
(* handshake over flushed holds for any number of events and any schedule.  *)
THEOREM NothingAfterReturn == Spec => NoEventAfterReturn
PROOF
  <1>1. FlowInv /\ [Next]_vars => (logged' # logged => pc # "returned")
    <2> SUFFICES ASSUME FlowInv, [Next]_vars, logged' # logged PROVE pc # "returned"
      OBVIOUS
    <2>1. EmitAllEvents \/ ReadEvent \/ UNCHANGED logged
      <3>1. Monitor => UNCHANGED logged
        BY DEF Monitor, NothingToWatch, InvalidReference, InitFails, WatchBegins, GetErrors, GetAnswers,
               FindDeploymentStartTime, SelectDelay, SelectCtxDone, FlushedThenReturn, streamVars
      <3>2. Stream => EmitAllEvents \/ ReadEvent \/ UNCHANGED logged
        BY DEF Stream, StreamStarts, NeverStarted, OpenWatch, OpenWatchFails, SeesEnded
      <3>3. SendStarted \/ CallerCtxEnds \/ TimeoutPasses \/ WatchCloses \/ ClusterGoesOn \/ UNCHANGED vars
            => UNCHANGED logged
        BY DEF SendStarted, CallerCtxEnds, TimeoutPasses, WatchCloses, ClusterGoesOn, vars, streamVars
      <3> QED BY <3>1, <3>2, <3>3 DEF Next, Returned
    <2>2. stream \notin {"off", "done"}
      BY <2>1 DEF EmitAllEvents, ReadEvent
    <2> QED BY <2>2 DEF FlowInv
  <1> QED BY <1>1, FlowInit, FlowNext, PTL DEF Spec, NoEventAfterReturn

-----------------------------------------------------------------------------
(* The refinement: a step of the goroutines, of the cluster or of the       *)
(* contexts is a step of the contract or none.                              *)
VerdictOf(r) ==
  IF r \in {"none", "ErrTimeout", "CancelError"} THEN "none"
  ELSE IF r = "nil" /\ Skipped THEN "skipped" ELSE OutcomeOf(r)

LEMMA ContractInit == Init => Contract!Init
  BY DEF Init, Contract!Init, OutcomeOf

(* What the contract sees depends on these variables alone.                 *)
LEMMA Unseen ==
  ASSUME UNCHANGED <<reference, isFirstDeploy, callerCtx, monitorCtx, result>>
  PROVE  UNCHANGED Contract!outcomeVars
PROOF
  <1>1. Skipped' = Skipped
    BY DEF Skipped
  <1> QED BY <1>1 DEF Contract!outcomeVars, OutcomeOf

(* A result other than the two that follow a context concludes the watch.   *)
LEMMA Concludes ==
  ASSUME result = "none", ~Skipped, UNCHANGED <<reference, isFirstDeploy, callerCtx, monitorCtx>>,
         result' \in {"nil", "ErrFailed", "initError", "getError", "newGeneration", "progressDeadline"}
  PROVE  \E v \in Contract!Verdicts : Contract!Conclude(v)
PROOF
  <1>1. Skipped' = FALSE
    BY DEF Skipped
  <1> DEFINE v == OutcomeOf(result')
  <1>2. v \in {"complete", "failed", "error"}
    BY DEF OutcomeOf
  <1>3. OutcomeOf(result) = "pending" /\ OutcomeOf(result)' = v
    BY DEF OutcomeOf
  <1>4. Contract!Conclude(v)
    BY <1>1, <1>3 DEF Contract!Conclude
  <1> QED BY <1>2, <1>4 DEF Contract!Verdicts

(* A context that has ended, and the error that says so.                    *)
LEMMA ContextResult ==
  ASSUME FlowInv, result = "none", UNCHANGED <<reference, isFirstDeploy, callerCtx, monitorCtx>>,
         \/ monitorCtx = "deadline" /\ result' = "ErrTimeout"
         \/ monitorCtx = "cancelled" /\ result' = "CancelError"
  PROVE  Contract!TimeOut \/ Contract!Abort
PROOF
  <1>1. CASE monitorCtx = "deadline" /\ result' = "ErrTimeout"
    BY <1>1 DEF Contract!TimeOut, OutcomeOf
  <1>2. CASE monitorCtx = "cancelled" /\ result' = "CancelError"
    BY <1>2 DEF FlowInv, Contract!Abort, OutcomeOf
  <1> QED BY <1>1, <1>2

LEMMA ContractStep == FlowInv /\ [Next]_vars => [Contract!Next]_(Contract!outcomeVars)
PROOF
  <1> SUFFICES ASSUME FlowInv, [Next]_vars PROVE [Contract!Next]_(Contract!outcomeVars)
    OBVIOUS
  <1> DEFINE Same == UNCHANGED <<reference, isFirstDeploy, callerCtx, monitorCtx>>
  <1>0. pc \in Watching \cup {"entry"} => result = "none"
    BY DEF FlowInv, Watching
  <1>1. CASE Monitor
    <2>1. CASE NothingToWatch
      <3>1. Skipped /\ Skipped' /\ result = "none" /\ result' = "nil" /\ Same
        BY <1>0, <2>1 DEF NothingToWatch, Returns, Skipped
      <3>2. Contract!Skip
        BY <3>1 DEF Contract!Skip, OutcomeOf
      <3> QED BY <3>2 DEF Contract!Next
    <2>2. CASE InvalidReference
      <3>1. ~Skipped /\ result = "none" /\ result' = "ErrFailed" /\ Same
        BY <1>0, <2>2 DEF InvalidReference, Returns, Skipped
      <3> QED BY <3>1, Concludes DEF Contract!Next
    <2>3. CASE InitFails
      <3>1. ~Skipped /\ result = "none" /\ result' = "initError" /\ Same
        BY <1>0, <2>3 DEF InitFails, Returns, Skipped
      <3> QED BY <3>1, Concludes DEF Contract!Next
    <2>4. CASE WatchBegins
      BY <2>4, Unseen DEF WatchBegins
    <2>5. CASE GetErrors
      <3>1. ~Skipped /\ result = "none" /\ Same
        BY <1>0, <2>5 DEF GetErrors, FlowInv, Watching
      <3>2. CASE result' \in {"ErrFailed", "getError"}
        BY <3>1, <3>2, Concludes DEF Contract!Next
      <3>3. CASE monitorCtx = "cancelled" /\ result' = "CancelError"
        BY <3>1, <3>3, ContextResult DEF Contract!Next
      <3> QED BY <2>5, <3>2, <3>3 DEF GetErrors, MonitorReturns
    <2>6. CASE GetAnswers
      <3>1. ~Skipped /\ result = "none" /\ Same
        BY <1>0, <2>6 DEF GetAnswers, FlowInv, Watching
      <3>2. UNCHANGED result \/ result' \in {"newGeneration", "progressDeadline", "nil"}
        BY <2>6, ExamineFlow DEF GetAnswers
      <3>3. CASE UNCHANGED result
        BY <3>1, <3>3, Unseen
      <3>4. CASE result' \in {"newGeneration", "progressDeadline", "nil"}
        BY <3>1, <3>4, Concludes DEF Contract!Next
      <3> QED BY <3>2, <3>3, <3>4
    <2>7. CASE FindDeploymentStartTime
      BY <2>7, Unseen DEF FindDeploymentStartTime
    <2>8. CASE SelectDelay
      BY <2>8, Unseen DEF SelectDelay
    <2>9. CASE SelectCtxDone
      <3>1. result = "none" /\ Same
        BY <1>0, <2>9 DEF SelectCtxDone, Watching
      <3>2. \/ monitorCtx = "deadline" /\ result' = "ErrTimeout"
            \/ monitorCtx = "cancelled" /\ result' = "CancelError"
        BY <2>9 DEF SelectCtxDone, MonitorReturns, FlowInv
      <3> QED BY <3>1, <3>2, ContextResult DEF Contract!Next
    <2>10. CASE FlushedThenReturn
      BY <2>10, Unseen DEF FlushedThenReturn
    <2> QED BY <1>1, <2>1, <2>2, <2>3, <2>4, <2>5, <2>6, <2>7, <2>8, <2>9, <2>10 DEF Monitor
  <1>2. CASE SendStarted
    <2>1. ~Skipped /\ result = "none" /\ Same
      BY <1>0, <1>2 DEF SendStarted, FlowInv, Watching
    <2>2. CASE UNCHANGED result
      BY <2>1, <2>2, Unseen
    <2>3. CASE result' \in {"newGeneration", "progressDeadline", "nil"}
      BY <2>1, <2>3, Concludes DEF Contract!Next
    <2> QED BY <1>2, <2>2, <2>3, ExamineFlow DEF SendStarted
  <1>3. CASE Stream
    <2>1. UNCHANGED monitorVars
      BY <1>3 DEF Stream, StreamStarts, NeverStarted, EmitAllEvents, OpenWatch, OpenWatchFails,
                  ReadEvent, SeesEnded
    <2> QED BY <2>1, Unseen DEF monitorVars
  <1>4. CASE CallerCtxEnds
    <2>1. UNCHANGED <<Skipped, OutcomeOf(result), VerdictOf(result), result>>
      BY <1>4 DEF CallerCtxEnds, Skipped, OutcomeOf, VerdictOf
    <2>2. CASE callerCtx' = "deadline"
      BY <1>4, <2>1, <2>2 DEF CallerCtxEnds, VerdictOf, Contract!Next, Contract!Expire
    <2>3. CASE callerCtx' = "cancelled"
      BY <1>4, <2>1, <2>3 DEF CallerCtxEnds, VerdictOf, Contract!Next, Contract!Cancel
    <2> QED BY <1>4, <2>2, <2>3 DEF CallerCtxEnds
  <1>5. CASE TimeoutPasses
    <2>1. UNCHANGED <<Skipped, OutcomeOf(result), VerdictOf(result), callerCtx, result>>
      BY <1>5 DEF TimeoutPasses, Skipped, OutcomeOf, VerdictOf
    <2> QED BY <1>5, <2>1 DEF TimeoutPasses, VerdictOf, Contract!Next, Contract!Expire
  <1>6. CASE WatchCloses
    BY <1>6, Unseen DEF WatchCloses, monitorVars
  <1>7. CASE ClusterGoesOn
    BY <1>7, Unseen DEF ClusterGoesOn, monitorVars
  <1>8. CASE UNCHANGED vars
    BY <1>8, Unseen DEF vars, monitorVars
  <1> QED BY <1>1, <1>2, <1>3, <1>4, <1>5, <1>6, <1>7, <1>8 DEF Next, Returned

(* The two goroutines together implement DeployOutcome, however they, the   *)
(* cluster and the contexts interleave.                                     *)
THEOREM K8sImplementsContract == Spec => ImplementsContract
  BY FlowInit, FlowNext, ContractInit, ContractStep, PTL
  DEF Spec, ImplementsContract, Contract!Spec

-----------------------------------------------------------------------------
(* What the cluster guarantees, without its bounds: the status never runs   *)
(* ahead of the object, and a status of this very generation whose counters *)
(* say that the rollout is over was published when it was.                  *)
Counters ==
  /\ object \in [exists : BOOLEAN, deletes : Nat, generation : Nat, template : {"mine", "other"}, spec : Nat]
  /\ pods \in [old : Nat, new : Nat, ready : Nat]
  /\ pods.ready <= pods.new
  /\ status \in [observed : Nat, updated : Nat, total : Nat, available : Nat, timedOut : BOOLEAN]

Settled(spec, told) ==
  spec <= told.updated /\ told.total <= told.updated /\ told.updated <= told.available

StatusSound ==
  /\ status.observed <= object.generation
  /\ status.observed = object.generation /\ Settled(object.spec, status) => object.generation \in completed

ClusterInv == Counters /\ StatusSound

LEMMA ClusterInvInit == ClusterInit => ClusterInv
  BY DEF ClusterInit, ClusterInv, Counters, StatusSound, Settled

LEMMA ClusterInvStep == ClusterInv /\ ClusterStep => ClusterInv'
PROOF
  <1> SUFFICES ASSUME ClusterInv, ClusterStep PROVE ClusterInv'
    OBVIOUS
  <1>0. Counters /\ StatusSound
    BY DEF ClusterInv
  <1>1. CASE PushTemplate
    <2>1. object' = [exists |-> object.exists, deletes |-> object.deletes, template |-> "other",
                     generation |-> object.generation + 1, spec |-> object.spec]
      BY <1>0, <1>1 DEF PushTemplate, Counters
    <2>2. pods' = [old |-> pods.old + pods.new, new |-> 0, ready |-> 0] /\ status' = status
      BY <1>1 DEF PushTemplate
    <2>3. Counters'
      BY <1>0, <2>1, <2>2 DEF Counters
    <2>4. StatusSound'
      BY <1>0, <2>1, <2>2 DEF Counters, StatusSound
    <2> QED BY <2>3, <2>4 DEF ClusterInv
  <1>2. CASE Scale
    <2>1. PICK n \in 1..scenario.replicas :
             object' = [object EXCEPT !.generation = @ + 1, !.spec = n]
      BY <1>2 DEF Scale
    <2>2. object' = [exists |-> object.exists, deletes |-> object.deletes, template |-> object.template,
                     generation |-> object.generation + 1, spec |-> n]
      BY <1>0, <2>1 DEF Counters
    <2>3. n \in Nat /\ pods' = pods /\ status' = status
      BY <1>2 DEF Scale
    <2>4. Counters'
      BY <1>0, <2>2, <2>3 DEF Counters
    <2>5. StatusSound'
      BY <1>0, <2>2, <2>3 DEF Counters, StatusSound
    <2> QED BY <2>4, <2>5 DEF ClusterInv
  <1>3. CASE Delete
    <2>1. object' = [exists |-> FALSE, deletes |-> object.deletes + 1, template |-> object.template,
                     generation |-> object.generation, spec |-> object.spec]
      BY <1>0, <1>3 DEF Delete, Counters
    <2>2. UNCHANGED <<pods, status, completed>>
      BY <1>3 DEF Delete
    <2>3. Counters'
      BY <1>0, <2>1, <2>2 DEF Counters
    <2>4. StatusSound'
      BY <1>0, <2>1, <2>2 DEF StatusSound, Settled
    <2> QED BY <2>3, <2>4 DEF ClusterInv
  <1>4. CASE Recreate
    <2>1. object' = [exists |-> TRUE, deletes |-> object.deletes, template |-> "other",
                     generation |-> 1, spec |-> 1]
      BY <1>0, <1>4 DEF Recreate, Counters
    <2>2. /\ pods' = [old |-> 0, new |-> 0, ready |-> 0]
          /\ status' = [observed |-> 0, updated |-> 0, total |-> 0, available |-> 0, timedOut |-> FALSE]
      BY <1>4 DEF Recreate
    <2>3. Counters'
      BY <1>0, <2>1, <2>2 DEF Counters
    <2>4. StatusSound'
      BY <2>1, <2>2 DEF StatusSound
    <2> QED BY <2>3, <2>4 DEF ClusterInv
  <1>5. CASE PodMoves
    <2>1. UNCHANGED <<object, status, completed>>
      BY <1>5 DEF PodMoves
    <2>2. \E o \in Nat, n \in Nat, r \in Nat : r <= n /\ pods' = [old |-> o, new |-> n, ready |-> r]
      <3>0. /\ pods.old \in Nat /\ pods.new \in Nat /\ pods.ready \in Nat /\ pods.ready <= pods.new
            /\ pods = [old |-> pods.old, new |-> pods.new, ready |-> pods.ready]
        BY <1>0 DEF Counters
      <3>1. \/ pods' = [old |-> pods.old, new |-> pods.new + 1, ready |-> pods.ready]
            \/ pods.ready < pods.new /\ pods' = [old |-> pods.old, new |-> pods.new, ready |-> pods.ready + 1]
            \/ pods.ready > 0 /\ pods' = [old |-> pods.old, new |-> pods.new, ready |-> pods.ready - 1]
            \/ pods.old > 0 /\ pods' = [old |-> pods.old - 1, new |-> pods.new, ready |-> pods.ready]
            \/ /\ pods.new > object.spec
               /\ pods' = [old |-> pods.old, new |-> pods.new - 1,
                           ready |-> IF pods.ready > pods.new - 1 THEN pods.ready - 1 ELSE pods.ready]
        BY <1>5, <3>0 DEF PodMoves
      <3>2. object.spec \in Nat
        BY <1>0 DEF Counters
      <3> QED BY <3>0, <3>1, <3>2
    <2>3. Counters'
      BY <1>0, <2>1, <2>2 DEF Counters
    <2>4. StatusSound'
      BY <1>0, <2>1 DEF StatusSound, Settled
    <2> QED BY <2>3, <2>4 DEF ClusterInv
  <1>6. CASE PublishStatus
    <2>1. PICK gaveUp \in BOOLEAN :
             status' = [observed  |-> object.generation,
                        updated   |-> pods.new,
                        total     |-> pods.new + pods.old,
                        available |-> pods.ready + pods.old,
                        timedOut  |-> gaveUp]
      BY <1>6 DEF PublishStatus
    <2>2. UNCHANGED <<object, pods>>
          /\ completed' = IF RolledOut THEN completed \cup {object.generation} ELSE completed
      BY <1>6 DEF PublishStatus
    <2>3. Counters'
      BY <1>0, <2>1, <2>2 DEF Counters
    <2>4. Settled(object.spec, status') => RolledOut
      BY <1>0, <2>1 DEF RolledOut, Settled, Counters
    <2>5. StatusSound'
      BY <1>0, <2>1, <2>2, <2>4 DEF StatusSound, Settled, Counters
    <2> QED BY <2>3, <2>5 DEF ClusterInv
  <1>7. CASE EventHappens
    BY <1>0, <1>7 DEF EventHappens, ClusterInv, Counters, StatusSound, Settled
  <1> QED BY <1>1, <1>2, <1>3, <1>4, <1>5, <1>6, <1>7 DEF ClusterStep

LEMMA ClusterInvNext == ClusterInv /\ [Next]_vars => ClusterInv'
PROOF
  <1> SUFFICES ASSUME ClusterInv, [Next]_vars PROVE ClusterInv'
    OBVIOUS
  <1>1. CASE UNCHANGED <<object, pods, status, completed>>
    BY <1>1 DEF ClusterInv, Counters, StatusSound, Settled
  <1>2. Monitor => UNCHANGED clusterVars
    BY DEF Monitor, NothingToWatch, InvalidReference, InitFails, WatchBegins, GetErrors, GetAnswers,
           FindDeploymentStartTime, SelectDelay, SelectCtxDone, FlushedThenReturn
  <1>3. Stream => UNCHANGED clusterVars
    BY DEF Stream, StreamStarts, NeverStarted, EmitAllEvents, OpenWatch, OpenWatchFails, ReadEvent, SeesEnded
  <1>4. SendStarted \/ CallerCtxEnds \/ TimeoutPasses \/ WatchCloses \/ UNCHANGED vars => UNCHANGED clusterVars
    BY DEF SendStarted, CallerCtxEnds, TimeoutPasses, WatchCloses, vars
  <1>5. ClusterGoesOn => ClusterStep \/ UNCHANGED <<object, pods, status, completed>>
    BY DEF ClusterGoesOn, EventHappens
  <1> QED BY <1>1, <1>2, <1>3, <1>4, <1>5, ClusterInvStep DEF Next, Returned, clusterVars

(* The monitor's own part: what it got and has not examined yet is as sound *)
(* as what the cluster published.                                           *)
Sound(d) == d.generation \in Nat /\ (CheckDeployment(d) = "complete" => d.completed)

MonitorInv ==
  /\ generation \in {0, MyGeneration}
  /\ pc \in {"findStart", "sendStarted"} => Sound(snapshot)
  /\ SuccessIsReal

LEMMA GotIsSound ==
  ASSUME ClusterInv,
         NEW d, d = [generation |-> object.generation, spec |-> object.spec, status |-> status,
                     completed |-> object.generation \in completed]
  PROVE  Sound(d)
PROOF
  <1>1. d.generation = object.generation /\ d.spec = object.spec /\ d.status = status
        /\ (d.completed <=> object.generation \in completed)
    OBVIOUS
  <1>2. object.generation \in Nat /\ object.spec \in Nat
        /\ status.observed \in Nat /\ status.updated \in Nat /\ status.total \in Nat /\ status.available \in Nat
    BY DEF ClusterInv, Counters
  <1>3. ASSUME CheckDeployment(d) = "complete"
        PROVE  status.observed >= object.generation /\ Settled(object.spec, status)
    BY <1>1, <1>2, <1>3 DEF CheckDeployment, Settled
  <1> QED BY <1>1, <1>2, <1>3 DEF Sound, ClusterInv, StatusSound

(* An iteration that examines something sound reports a real success.       *)
LEMMA ExamineSound ==
  ASSUME NEW d, Sound(d), Examine(d), FlowInv, pc \in Watching,
         generation \in {0, MyGeneration}, UNCHANGED <<generation, reference, isFirstDeploy>>
  PROVE  MonitorInv'
PROOF
  <1>1. pc' \in {"waitFlushed", "select"} /\ result = "none"
    BY ExamineFlow DEF FlowInv, Watching
  <1>2. CASE result' = "nil"
    <2>1. snapshot' = d /\ ~Superseded(d) /\ CheckDeployment(d) = "complete"
      BY <1>1, <1>2 DEF Examine, MonitorReturns
    <2>2. d.completed /\ (generation # 0 => d.generation <= generation)
      BY <2>1 DEF Sound, Superseded, MyGeneration
    <2> QED BY <1>1, <2>1, <2>2 DEF MonitorInv, SuccessIsReal
  <1>3. CASE result' # "nil"
    BY <1>1, <1>3 DEF MonitorInv, SuccessIsReal
  <1> QED BY <1>2, <1>3

LEMMA MonitorInvNext == MonitorInv /\ FlowInv /\ ClusterInv /\ [Next]_vars => MonitorInv'
PROOF
  <1> SUFFICES ASSUME MonitorInv, FlowInv, ClusterInv, [Next]_vars PROVE MonitorInv'
    OBVIOUS
  <1>0. ASSUME UNCHANGED <<generation, snapshot, result, reference, isFirstDeploy>>,
               pc' \in {"findStart", "sendStarted"} => pc \in {"findStart", "sendStarted"}
        PROVE  MonitorInv'
    BY <1>0 DEF MonitorInv, SuccessIsReal, Sound, CheckDeployment, Skipped
  <1>1. CASE Monitor
    <2>1. CASE NothingToWatch
      BY <2>1 DEF NothingToWatch, Returns, MonitorInv, SuccessIsReal, Skipped
    <2>2. CASE InvalidReference
      BY <2>2 DEF InvalidReference, Returns, MonitorInv, SuccessIsReal
    <2>3. CASE InitFails
      BY <2>3 DEF InitFails, Returns, MonitorInv, SuccessIsReal
    <2>4. CASE WatchBegins
      BY <2>4 DEF WatchBegins, MonitorInv, SuccessIsReal, FlowInv
    <2>5. CASE GetErrors
      BY <2>5 DEF GetErrors, MonitorReturns, MonitorInv, SuccessIsReal
    <2>6. CASE GetAnswers
      <3> DEFINE d == [generation |-> object.generation, spec |-> object.spec, status |-> status,
                       completed |-> object.generation \in completed]
      <3>1. Sound(d)
        BY GotIsSound
      <3>2. pc \in Watching /\ UNCHANGED <<generation, reference, isFirstDeploy>>
            /\ generation \in {0, MyGeneration}
        BY <2>6 DEF GetAnswers, Watching, MonitorInv
      <3>3. CASE Examine(d)
        BY <3>1, <3>2, <3>3, ExamineSound
      <3>4. CASE snapshot' = d /\ pc' = "findStart" /\ UNCHANGED result
        <4>1. Sound(snapshot)'
          BY <3>1, <3>2, <3>4 DEF Sound, CheckDeployment
        <4>2. result' # "nil"
          BY <2>6, <3>4 DEF GetAnswers, FlowInv
        <4> QED BY <3>2, <4>1, <4>2 DEF MonitorInv, SuccessIsReal
      <3> QED BY <2>6, <3>3, <3>4 DEF GetAnswers
    <2>7. CASE FindDeploymentStartTime
      BY <1>0, <2>7 DEF FindDeploymentStartTime
    <2>8. CASE SelectDelay
      BY <1>0, <2>8 DEF SelectDelay
    <2>9. CASE SelectCtxDone
      BY <2>9 DEF SelectCtxDone, MonitorReturns, MonitorInv, SuccessIsReal
    <2>10. CASE FlushedThenReturn
      BY <1>0, <2>10 DEF FlushedThenReturn
    <2> QED BY <1>1, <2>1, <2>2, <2>3, <2>4, <2>5, <2>6, <2>7, <2>8, <2>9, <2>10 DEF Monitor
  <1>2. CASE SendStarted
    <2>1. /\ pc = "sendStarted" /\ Examine(snapshot) /\ UNCHANGED <<generation, reference, isFirstDeploy>>
          /\ Sound(snapshot) /\ generation \in {0, MyGeneration}
      BY <1>2 DEF SendStarted, MonitorInv
    <2> QED BY <2>1, ExamineSound DEF Watching
  <1>3. CASE Stream
    <2>1. UNCHANGED monitorVars
      BY <1>3 DEF Stream, StreamStarts, NeverStarted, EmitAllEvents, OpenWatch, OpenWatchFails,
                  ReadEvent, SeesEnded
    <2> QED BY <1>0, <2>1 DEF monitorVars
  <1>4. CASE CallerCtxEnds \/ TimeoutPasses
    BY <1>0, <1>4 DEF CallerCtxEnds, TimeoutPasses
  <1>5. CASE WatchCloses \/ ClusterGoesOn \/ UNCHANGED vars
    BY <1>0, <1>5 DEF WatchCloses, ClusterGoesOn, vars, monitorVars
  <1> QED BY <1>1, <1>2, <1>3, <1>4, <1>5 DEF Next, Returned

(* Success is real however late the controller publishes, whoever changes,  *)
(* scales, deletes or recreates the Deployment in between: the counters of  *)
(* a status are trusted only when it observed the generation got with it.   *)
THEOREM SuccessAlwaysReal == Spec => []SuccessIsReal
PROOF
  <1> DEFINE Inv == FlowInv /\ ClusterInv /\ MonitorInv
  <1>1. Init => Inv
    <2>1. Init => MonitorInv
      BY DEF Init, MonitorInv, SuccessIsReal
    <2> QED BY <2>1, FlowInit, ClusterInvInit DEF Init
  <1>2. Inv /\ [Next]_vars => Inv'
    BY FlowNext, ClusterInvNext, MonitorInvNext
  <1>3. Inv => SuccessIsReal
    BY DEF MonitorInv
  <1> QED BY <1>1, <1>2, <1>3, PTL DEF Spec

-----------------------------------------------------------------------------
(* The event stream: the watch has delivered nothing before it is opened,   *)
(* and afterwards only events that have happened.                           *)
StreamInv ==
  /\ events \in Seq({"ours", "others"})
  /\ cursor \in Nat /\ cursor <= Len(events)
  /\ failures \in Nat
  /\ stream \notin {"select", "done"} => cursor = 0
  /\ NoGapBetweenListAndWatch

(* Events are only added.                                                   *)
LEMMA EventsGrow ==
  ASSUME events \in Seq({"ours", "others"}), ClusterStep
  PROVE  /\ events' \in Seq({"ours", "others"}) /\ Len(events) <= Len(events')
         /\ \A i \in 1..Len(events) : events'[i] = events[i]
PROOF
  <1>1. CASE UNCHANGED events
    BY <1>1
  <1>2. CASE EventHappens
    BY <1>2 DEF EventHappens
  <1> QED BY <1>1, <1>2
    DEF ClusterStep, PushTemplate, Scale, Delete, Recreate, PodMoves, PublishStatus

(* Without a step of the stream, what it still owes does not grow.          *)
LEMMA StreamRests ==
  ASSUME StreamInv, UNCHANGED <<stream, earliest, cursor, logged>>,
         events' \in Seq({"ours", "others"}), Len(events) <= Len(events'),
         \A i \in 1..Len(events) : events'[i] = events[i],
         failures' = failures \/ failures' = failures + 1,
         callerCtx' = "live" => callerCtx = "live"
  PROVE  StreamInv'
PROOF
  <1>1. \A i \in 1..cursor : Wanted(i)' <=> Wanted(i)
    BY DEF StreamInv, Wanted
  <1>2. failures' \in Nat /\ (failures' = 0 => failures = 0)
    BY DEF StreamInv
  <1>3. Len(events) \in Nat /\ Len(events') \in Nat
    BY DEF StreamInv
  <1> QED BY <1>1, <1>2, <1>3 DEF StreamInv, NoGapBetweenListAndWatch

(* The stream reads an event that it wants, and writes it or fails.         *)
LEMMA ReadKeepsUp ==
  ASSUME StreamInv, ReadEvent
  PROVE  StreamInv'
PROOF
  <1>1. /\ cursor' = cursor + 1 /\ cursor' \in Nat /\ cursor' <= Len(events)
        /\ UNCHANGED <<events, stream, earliest, callerCtx>> /\ stream = "select"
    BY DEF ReadEvent, StreamInv, clusterVars, monitorVars
  <1>2. failures' \in Nat /\ (failures' = 0 => failures = 0) /\ logged \subseteq logged'
    BY DEF ReadEvent, CallFails, StreamInv
  <1>3. ASSUME failures' = 0, callerCtx' = "live", NEW i \in 1..cursor', Wanted(i)'
        PROVE  i \in logged'
    <2>1. Wanted(i)
      BY <1>1, <1>3 DEF Wanted
    <2>2. CASE i \in 1..cursor
      BY <1>1, <1>2, <1>3, <2>1, <2>2 DEF StreamInv, NoGapBetweenListAndWatch
    <2>3. CASE i = cursor + 1
      BY <1>1, <1>3, <2>1, <2>3 DEF ReadEvent, CallFails, StreamInv
    <2> QED BY <1>1, <1>3, <2>2, <2>3 DEF StreamInv
  <1> QED BY <1>1, <1>2, <1>3 DEF StreamInv, NoGapBetweenListAndWatch

LEMMA StreamInvNext == FlowInv /\ StreamInv /\ [Next]_vars => StreamInv'
PROOF
  <1> SUFFICES ASSUME FlowInv, StreamInv, [Next]_vars PROVE StreamInv'
    OBVIOUS
  <1>0. events \in Seq({"ours", "others"}) /\ Len(events) \in Nat
    BY DEF StreamInv
  <1>1. CASE Monitor
    <2>1. CASE WatchBegins
      BY <2>1 DEF WatchBegins, FlowInv, StreamInv, NoGapBetweenListAndWatch, clusterVars
    <2>2. CASE ~WatchBegins
      <3>1. UNCHANGED <<events, stream, earliest, cursor, logged, callerCtx>>
            /\ (failures' = failures \/ failures' = failures + 1)
        BY <1>1, <2>2 DEF Monitor, NothingToWatch, InvalidReference, InitFails, GetErrors, GetAnswers,
             FindDeploymentStartTime, SelectDelay, SelectCtxDone, FlushedThenReturn, CallFails,
             streamVars, clusterVars
      <3> QED BY <1>0, <3>1, StreamRests
    <2> QED BY <2>1, <2>2
  <1>2. CASE SendStarted
    BY <1>2 DEF SendStarted, StreamInv, NoGapBetweenListAndWatch, clusterVars
  <1>3. CASE Stream
    <2>1. CASE ReadEvent
      BY <2>1, ReadKeepsUp
    <2>2. CASE OpenWatch
      BY <2>2 DEF OpenWatch, StreamInv, NoGapBetweenListAndWatch, clusterVars
    <2>3. CASE StreamStarts \/ NeverStarted \/ EmitAllEvents \/ OpenWatchFails \/ SeesEnded
      <3>1. UNCHANGED <<events, cursor>> /\ (failures' = failures \/ failures' = failures + 1)
        BY <2>3 DEF StreamStarts, NeverStarted, EmitAllEvents, OpenWatchFails, SeesEnded, CallFails, clusterVars
      <3>2. stream' # "select" /\ (stream' = "done" \/ stream \notin {"select", "done"})
        BY <2>3 DEF StreamStarts, NeverStarted, EmitAllEvents, OpenWatchFails, SeesEnded
      <3> QED BY <3>1, <3>2 DEF StreamInv, NoGapBetweenListAndWatch
    <2> QED BY <1>3, <2>1, <2>2, <2>3 DEF Stream
  <1>4. CASE CallerCtxEnds \/ TimeoutPasses \/ WatchCloses \/ UNCHANGED vars
    <2>1. UNCHANGED <<events, stream, earliest, cursor, logged>>
          /\ (failures' = failures \/ failures' = failures + 1) /\ (callerCtx' = "live" => callerCtx = "live")
      BY <1>4 DEF CallerCtxEnds, TimeoutPasses, WatchCloses, CallFails, vars, streamVars, clusterVars, monitorVars
    <2> QED BY <1>0, <2>1, StreamRests
  <1>5. CASE ClusterGoesOn
    <2>1. UNCHANGED <<stream, earliest, cursor, logged, failures, callerCtx>>
      BY <1>5 DEF ClusterGoesOn, streamVars, monitorVars
    <2>2. ClusterStep
      BY <1>5 DEF ClusterGoesOn, ClusterStep
    <2> QED BY <1>0, <2>1, <2>2, EventsGrow, StreamRests
  <1> QED BY <1>1, <1>2, <1>3, <1>4, <1>5 DEF Next, Returned

(* The watch is opened without a resource version, so it replays what the   *)
(* list has seen: no event is passed over between the two calls.            *)
THEOREM NothingBetweenListAndWatch == Spec => []NoGapBetweenListAndWatch
PROOF
  <1>1. Init => StreamInv
    BY DEF Init, ClusterInit, StreamInv, NoGapBetweenListAndWatch
  <1>2. StreamInv => NoGapBetweenListAndWatch
    BY DEF StreamInv
  <1> QED BY <1>1, <1>2, StreamInvNext, FlowInit, FlowNext, PTL DEF Spec

-----------------------------------------------------------------------------
(* The types.  What K8sTypeOK leaves out: the scenario is one of them, and  *)
(* what is recorded has happened: the events are bounded, and revisions     *)
(* were created at times that have passed.                                  *)
Bounded ==
  /\ scenario.generations \in Nat /\ scenario.generations >= 2
  /\ scenario.replicas \in Nat /\ scenario.replicas >= 1
  /\ scenario.events \in Nat /\ scenario.events >= 1
  /\ scenario.deletes \in Nat /\ scenario.failures \in Nat

Past ==
  /\ Len(events) <= scenario.events
  /\ \A i \in 1..Len(revisions) : revisions[i] <= Len(events)

ClusterTypes == Bounded /\ ClusterTypeOK /\ Past

LEMMA SeqElement ==
  ASSUME NEW S, NEW s \in Seq(S), NEW i \in 1..Len(s)
  PROVE  s[i] \in S
  OBVIOUS

LEMMA ClusterTypesInit == ClusterInit => ClusterTypes
PROOF
  <1> SUFFICES ASSUME ClusterInit PROVE ClusterTypes
    OBVIOUS
  <1>1. Bounded
    BY ClusterAssumption DEF ClusterInit, Bounded
  <1>2. Len(events) = 1 /\ events \in Seq({"ours", "others"})
    BY DEF ClusterInit
  <1>3. /\ revisions \in Seq(0..scenario.events) /\ Len(revisions) \in 1..2
        /\ \A i \in 1..Len(revisions) : revisions[i] <= 1
    <2>1. CASE revisions = <<1>>
      BY <1>1, <2>1 DEF Bounded
    <2>2. CASE revisions = <<0, 1>>
      BY <1>1, <2>2 DEF Bounded
    <2> QED BY <2>1, <2>2 DEF ClusterInit
  <1>4. /\ object \in [exists : BOOLEAN, deletes : 0..scenario.deletes, generation : 1..scenario.generations,
                       template : {"mine", "other"}, spec : 1..scenario.replicas]
        /\ object.generation = 2
    BY <1>1 DEF ClusterInit, Bounded
  <1>5. pods \in [old : Nat, new : 0..scenario.replicas, ready : 0..scenario.replicas] /\ pods.ready <= pods.new
    BY <1>1 DEF ClusterInit, Bounded
  <1>6. status \in [observed : 0..scenario.generations, updated : Nat, total : Nat, available : Nat,
                    timedOut : BOOLEAN]
    BY <1>1 DEF ClusterInit, Bounded
  <1>7. completed \subseteq 1..scenario.generations
    BY <1>1 DEF ClusterInit, Bounded
  <1> QED BY <1>1, <1>2, <1>3, <1>4, <1>5, <1>6, <1>7 DEF ClusterTypes, ClusterTypeOK, Past, Bounded

LEMMA ClusterTypesStep ==
  ASSUME ClusterTypes, ClusterStep
  PROVE  ClusterTypes' /\ Len(events) <= Len(events') /\ scenario' = scenario
PROOF
  <1>0. scenario' = scenario /\ Bounded /\ Bounded'
    BY DEF ClusterStep, ClusterTypes, Bounded
  <1>1. Len(events) \in Nat /\ Len(events) \in 0..scenario.events
    BY DEF ClusterTypes, ClusterTypeOK, Past, Bounded
  <1> DEFINE ObjectOK == object \in [exists : BOOLEAN, deletes : 0..scenario.deletes,
                                     generation : 1..scenario.generations,
                                     template : {"mine", "other"}, spec : 1..scenario.replicas]
             RevisionsOK == /\ revisions \in Seq(0..scenario.events) /\ Len(revisions) \in 1..object.generation
                            /\ \A i \in 1..Len(revisions) : revisions[i] <= Len(events)
             PodsOK == /\ pods \in [old : Nat, new : 0..scenario.replicas, ready : 0..scenario.replicas]
                       /\ pods.ready <= pods.new
             StatusOK == /\ status \in [observed : 0..scenario.generations, updated : Nat, total : Nat,
                                        available : Nat, timedOut : BOOLEAN]
                         /\ completed \subseteq 1..scenario.generations
             EventsOK == events \in Seq({"ours", "others"}) /\ Len(events) <= scenario.events
  <1>2. ObjectOK /\ RevisionsOK /\ PodsOK /\ StatusOK /\ EventsOK
    BY DEF ClusterTypes, ClusterTypeOK, Past
  <1>3. ObjectOK' /\ RevisionsOK' /\ PodsOK' /\ StatusOK' /\ EventsOK' => ClusterTypes'
    BY <1>0 DEF ClusterTypes, ClusterTypeOK, Past
  <1>4. UNCHANGED <<object>> => ObjectOK'
    BY <1>0, <1>2
  <1>5. UNCHANGED <<pods>> => PodsOK'
    BY <1>0, <1>2
  <1>6. UNCHANGED <<status, completed>> => StatusOK'
    BY <1>0, <1>2
  <1>7. UNCHANGED <<events>> => EventsOK'
    BY <1>0, <1>2
  <1>8. UNCHANGED <<revisions, events>> /\ object'.generation \in Nat /\ object'.generation >= object.generation
        => RevisionsOK'
    BY <1>0, <1>2
  <1>9. /\ object.generation \in Nat /\ object.deletes \in Nat /\ object.spec \in 1..scenario.replicas
        /\ object.exists \in BOOLEAN /\ object.template \in {"mine", "other"}
        /\ object.generation \in 1..scenario.generations /\ object.deletes \in 0..scenario.deletes
    BY <1>0, <1>2 DEF Bounded
  <1>10. CASE PushTemplate
    <2>1. object' = [exists |-> object.exists, deletes |-> object.deletes, template |-> "other",
                     generation |-> object.generation + 1, spec |-> object.spec]
          /\ object.generation < scenario.generations
      BY <1>2, <1>10 DEF PushTemplate
    <2>2. ObjectOK'
      BY <1>0, <1>9, <2>1 DEF Bounded
    <2>3. revisions' = Append(revisions, Len(events)) /\ UNCHANGED <<status, completed, events>>
      BY <1>10 DEF PushTemplate
    <2>4. /\ revisions' \in Seq(0..scenario.events) /\ Len(revisions') = Len(revisions) + 1
          /\ \A i \in 1..Len(revisions') : revisions'[i] <= Len(events)
      <3>1. revisions \in Seq(0..scenario.events) /\ Len(events) \in 0..scenario.events
        BY <1>1, <1>2
      <3>2. revisions' \in Seq(0..scenario.events) /\ Len(revisions') = Len(revisions) + 1
        BY <2>3, <3>1
      <3>3. ASSUME NEW i \in 1..Len(revisions') PROVE revisions'[i] <= Len(events)
        <4>1. CASE i \in 1..Len(revisions)
          <5>1. revisions'[i] = revisions[i]
            BY <2>3, <3>1, <4>1
          <5> QED BY <1>2, <3>1, <4>1, <5>1
        <4>2. CASE i = Len(revisions) + 1
          <5>1. revisions'[i] = Len(events)
            BY <2>3, <3>1, <4>2
          <5> QED BY <1>1, <5>1
        <4> QED BY <3>1, <3>2, <3>3, <4>1, <4>2
      <3> QED BY <3>2, <3>3
    <2>5. RevisionsOK'
      BY <1>0, <1>2, <1>9, <2>1, <2>3, <2>4
    <2>6. pods' = [old |-> pods.old + pods.new, new |-> 0, ready |-> 0]
      BY <1>10 DEF PushTemplate
    <2>7. PodsOK'
      <3>1. pods.old + pods.new \in Nat /\ 0 \in 0..scenario.replicas
        <4>1. pods.old \in Nat /\ pods.new \in 0..scenario.replicas
          BY <1>2
        <4> QED BY <1>0, <4>1 DEF Bounded
      <3> QED BY <1>0, <2>6, <3>1
    <2> QED BY <1>0, <1>1, <1>3, <1>6, <1>7, <2>2, <2>3, <2>5, <2>7
  <1>11. CASE Scale
    <2>1. PICK n \in 1..scenario.replicas :
             object' = [object EXCEPT !.generation = @ + 1, !.spec = n]
      BY <1>11 DEF Scale
    <2>2. object' = [exists |-> object.exists, deletes |-> object.deletes, template |-> object.template,
                     generation |-> object.generation + 1, spec |-> n]
          /\ object.generation < scenario.generations
      BY <1>2, <1>11, <2>1 DEF Scale
    <2>3. ObjectOK'
      BY <1>0, <1>9, <2>2 DEF Bounded
    <2>4. UNCHANGED <<revisions, pods, status, completed, events>>
      BY <1>11 DEF Scale
    <2>5. RevisionsOK'
      BY <1>8, <1>9, <2>2, <2>4
    <2> QED BY <1>0, <1>1, <1>3, <1>5, <1>6, <1>7, <2>3, <2>4, <2>5
  <1>12. CASE Delete
    <2>1. object' = [exists |-> FALSE, deletes |-> object.deletes + 1, template |-> object.template,
                     generation |-> object.generation, spec |-> object.spec]
          /\ object.deletes < scenario.deletes
      BY <1>2, <1>12 DEF Delete
    <2>2. ObjectOK'
      BY <1>0, <1>9, <2>1 DEF Bounded
    <2>3. UNCHANGED <<revisions, pods, status, completed, events>>
      BY <1>12 DEF Delete
    <2>4. RevisionsOK'
      BY <1>8, <1>9, <2>1, <2>3
    <2> QED BY <1>0, <1>1, <1>3, <1>5, <1>6, <1>7, <2>2, <2>3, <2>4
  <1>13. CASE Recreate
    <2>1. object' = [exists |-> TRUE, deletes |-> object.deletes, template |-> "other",
                     generation |-> 1, spec |-> 1]
      BY <1>2, <1>13 DEF Recreate
    <2>2. ObjectOK'
      BY <1>0, <1>9, <2>1 DEF Bounded
    <2>3. /\ revisions' = <<Len(events)>> /\ UNCHANGED events /\ completed' = {}
          /\ pods' = [old |-> 0, new |-> 0, ready |-> 0]
          /\ status' = [observed |-> 0, updated |-> 0, total |-> 0, available |-> 0, timedOut |-> FALSE]
      BY <1>13 DEF Recreate
    <2>4. RevisionsOK'
      BY <1>0, <1>1, <2>1, <2>3
    <2>5. PodsOK' /\ StatusOK'
      BY <1>0, <2>3 DEF Bounded
    <2> QED BY <1>0, <1>1, <1>3, <1>7, <2>2, <2>3, <2>4, <2>5
  <1>14. CASE PodMoves
    <2>1. UNCHANGED <<object, revisions, status, completed, events>>
      BY <1>14 DEF PodMoves
    <2>2. PodsOK'
      <3>1. /\ pods.old \in Nat /\ pods.new \in 0..scenario.replicas /\ pods.ready \in 0..scenario.replicas
            /\ pods.ready <= pods.new /\ pods = [old |-> pods.old, new |-> pods.new, ready |-> pods.ready]
        BY <1>2
      <3>2. \/ /\ pods.new < object.spec
               /\ pods' = [old |-> pods.old, new |-> pods.new + 1, ready |-> pods.ready]
            \/ pods.ready < pods.new /\ pods' = [old |-> pods.old, new |-> pods.new, ready |-> pods.ready + 1]
            \/ pods.ready > 0 /\ pods' = [old |-> pods.old, new |-> pods.new, ready |-> pods.ready - 1]
            \/ pods.old > 0 /\ pods' = [old |-> pods.old - 1, new |-> pods.new, ready |-> pods.ready]
            \/ /\ pods.new > object.spec
               /\ pods' = [old |-> pods.old, new |-> pods.new - 1,
                           ready |-> IF pods.ready > pods.new - 1 THEN pods.ready - 1 ELSE pods.ready]
        BY <1>14, <3>1 DEF PodMoves
      <3>3. \E o \in Nat, n \in 0..scenario.replicas, r \in 0..scenario.replicas :
              r <= n /\ pods' = [old |-> o, new |-> n, ready |-> r]
        BY <1>0, <1>9, <3>1, <3>2 DEF Bounded
      <3> QED BY <1>0, <3>3
    <2>3. RevisionsOK'
      BY <1>8, <1>9, <2>1
    <2> QED BY <1>0, <1>1, <1>3, <1>4, <1>6, <1>7, <2>1, <2>2, <2>3
  <1>15. CASE PublishStatus
    <2>1. PICK gaveUp \in BOOLEAN :
             status' = [observed  |-> object.generation,
                        updated   |-> pods.new,
                        total     |-> pods.new + pods.old,
                        available |-> pods.ready + pods.old,
                        timedOut  |-> gaveUp]
      BY <1>15 DEF PublishStatus
    <2>2. UNCHANGED <<object, revisions, pods, events>> /\ completed' \subseteq completed \cup {object.generation}
      BY <1>15 DEF PublishStatus
    <2>3. StatusOK'
      <3>1. pods.old \in Nat /\ pods.new \in Nat /\ pods.ready \in Nat
        BY <1>0, <1>2 DEF Bounded
      <3>2. completed' \subseteq 1..scenario.generations
        BY <1>2, <1>9, <2>2
      <3>3. object.generation \in 0..scenario.generations
        BY <1>0, <1>9 DEF Bounded
      <3>4. status' \in [observed : 0..scenario.generations, updated : Nat, total : Nat,
                         available : Nat, timedOut : BOOLEAN]
        BY <2>1, <3>1, <3>3
      <3> QED BY <1>0, <3>2, <3>4
    <2>4. RevisionsOK'
      BY <1>8, <1>9, <2>2
    <2> QED BY <1>0, <1>1, <1>3, <1>4, <1>5, <1>7, <2>2, <2>3, <2>4
  <1>16. CASE EventHappens
    <2>1. PICK about \in {"ours", "others"} : events' = Append(events, about)
      BY <1>16 DEF EventHappens
    <2>2. Len(events) < scenario.events /\ UNCHANGED <<object, revisions, pods, status, completed>>
      BY <1>16 DEF EventHappens
    <2>3. EventsOK' /\ Len(events') = Len(events) + 1
      BY <1>0, <1>1, <1>2, <2>1, <2>2 DEF Bounded
    <2>4. RevisionsOK'
      <3>1. ASSUME NEW i \in 1..Len(revisions)
            PROVE  revisions[i] \in 0..scenario.events /\ revisions[i] <= Len(events)
        <4>1. revisions \in Seq(0..scenario.events)
          BY <1>2
        <4>2. revisions[i] \in 0..scenario.events
          BY <4>1, SeqElement
        <4>3. \A j \in 1..Len(revisions) : revisions[j] <= Len(events)
          BY <1>2
        <4>4. revisions[i] <= Len(events)
          BY <4>3, Zenon
        <4> QED BY <4>2, <4>4
      <3>2. \A i \in 1..Len(revisions') : revisions'[i] <= Len(events')
        BY <1>0, <1>1, <2>2, <2>3, <3>1 DEF Bounded
      <3> QED BY <1>0, <1>2, <2>2, <3>2
    <2> QED BY <1>0, <1>1, <1>3, <1>4, <1>5, <1>6, <2>2, <2>3, <2>4
  <1> QED BY <1>10, <1>11, <1>12, <1>13, <1>14, <1>15, <1>16 DEF ClusterStep

(* The types of the monitor's and of the stream's variables.                *)
MonitorTypes ==
  /\ reference \in {"empty", "noop", "generation", "garbage"}
  /\ isFirstDeploy \in BOOLEAN
  /\ callerCtx \in {"live", "cancelled", "deadline"}
  /\ monitorCtx \in {"live", "cancelled", "deadline"}
  /\ pc \in {"entry", "get", "findStart", "sendStarted", "select", "waitFlushed", "returned"}
  /\ generation \in {0, MyGeneration}
  /\ begun \in BOOLEAN
  /\ result \in {"none", "nil", "ErrFailed", "CancelError", "ErrTimeout", "initError",
                 "getError", "newGeneration", "progressDeadline"}
  /\ serviceWatch \in {"off", "on", "cancelled"}

PastTypes ==
  /\ snapshot.generation \in 0..scenario.generations
  /\ start \subseteq 0..Len(events)
  /\ failures \in 0..scenario.failures

StreamTypes ==
  /\ stream \in {"off", "starting", "waitStarted", "listThenWatch", "listThenQuit",
                 "openWatch", "select", "done"}
  /\ earliest \in 0..Len(events)
  /\ watchOpen \in BOOLEAN
  /\ cursor \in 0..Len(events)
  /\ logged \subseteq 1..Len(events)

AllTypes == ClusterTypes /\ MonitorTypes /\ PastTypes /\ StreamTypes

LEMMA AllTypesInit == Init => AllTypes
PROOF
  <1> SUFFICES ASSUME Init PROVE AllTypes
    OBVIOUS
  <1>1. ClusterTypes /\ Len(events) = 1
    BY ClusterTypesInit DEF Init, ClusterInit
  <1>2. MonitorTypes
    BY DEF Init, MonitorTypes
  <1>3. PastTypes
    <2>1. scenario.generations \in Nat /\ scenario.failures \in Nat
      BY <1>1 DEF ClusterTypes, Bounded
    <2> QED BY <2>1 DEF Init, PastTypes, NoSnapshot, NoStart
  <1>4. StreamTypes
    <2>1. /\ stream = "off" /\ earliest = 0 /\ watchOpen = FALSE /\ cursor = 0 /\ logged = {}
      BY DEF Init
    <2>2. 0 \in 0..Len(events) /\ {} \subseteq 1..Len(events)
      BY <1>1
    <2> QED BY <2>1, <2>2 DEF StreamTypes
  <1> QED BY <1>1, <1>2, <1>3, <1>4 DEF AllTypes

(* Failing calls are counted up to the bound of the scenario.               *)
LEMMA FailureTypes ==
  ASSUME AllTypes, CallFails \/ UNCHANGED failures
  PROVE  failures' \in 0..scenario.failures
  BY DEF AllTypes, ClusterTypes, Bounded, PastTypes, CallFails

LEMMA MonitorTypesStep ==
  ASSUME AllTypes, Monitor
  PROVE  MonitorTypes' /\ PastTypes' /\ StreamTypes'
PROOF
  <1>0. UNCHANGED clusterVars /\ MonitorTypes /\ PastTypes /\ StreamTypes
    BY DEF AllTypes, Monitor, NothingToWatch, InvalidReference, InitFails, WatchBegins, GetErrors, GetAnswers,
           FindDeploymentStartTime, SelectDelay, SelectCtxDone, FlushedThenReturn
  <1>1. scenario' = scenario /\ events' = events
    BY <1>0 DEF clusterVars
  <1>2. MonitorTypes'
    BY <1>0 DEF MonitorTypes, Monitor, NothingToWatch, InvalidReference, InitFails, WatchBegins, GetErrors,
           GetAnswers, Examine, FindDeploymentStartTime, SelectDelay, SelectCtxDone, FlushedThenReturn,
           Returns, MonitorReturns
  <1>3. StreamTypes'
    BY <1>0, <1>1 DEF StreamTypes, streamVars, Monitor, NothingToWatch, InvalidReference, InitFails, WatchBegins,
           GetErrors, GetAnswers, FindDeploymentStartTime, SelectDelay, SelectCtxDone, FlushedThenReturn
  <1>4. failures' \in 0..scenario'.failures
    <2>1. CallFails \/ UNCHANGED failures
      BY DEF Monitor, NothingToWatch, InvalidReference, InitFails, WatchBegins, GetErrors, GetAnswers,
             FindDeploymentStartTime, SelectDelay, SelectCtxDone, FlushedThenReturn
    <2> QED BY <1>1, <2>1, FailureTypes
  <1>5. snapshot'.generation \in 0..scenario'.generations
    <2>1. CASE UNCHANGED snapshot
      BY <1>0, <1>1, <2>1 DEF PastTypes
    <2>2. CASE GetAnswers
      <3>1. snapshot'.generation \in {0, object.generation}
        BY <2>2 DEF GetAnswers, Examine, NoSnapshot
      <3>2. object.generation \in 1..scenario.generations /\ scenario.generations \in Nat
        BY DEF AllTypes, ClusterTypes, ClusterTypeOK, Bounded
      <3> QED BY <1>1, <3>1, <3>2
    <2> QED BY <2>1, <2>2 DEF Monitor, NothingToWatch, InvalidReference, InitFails, WatchBegins, GetErrors,
                              FindDeploymentStartTime, SelectDelay, SelectCtxDone, FlushedThenReturn
  <1>6. start' \subseteq 0..Len(events')
    <2>1. CASE UNCHANGED start
      BY <1>0, <1>1, <2>1 DEF PastTypes
    <2>2. CASE FindDeploymentStartTime
      <3>1. start' = NoStart \/ (generation \in DOMAIN revisions /\ start' = {revisions[generation]})
        BY <2>2 DEF FindDeploymentStartTime
      <3>2. revisions \in Seq(0..scenario.events) /\ DOMAIN revisions = 1..Len(revisions)
            /\ Len(events) \in Nat /\ \A i \in 1..Len(revisions) : revisions[i] <= Len(events)
        BY DEF AllTypes, ClusterTypes, ClusterTypeOK, Past
      <3>3. ASSUME generation \in DOMAIN revisions PROVE revisions[generation] \in 0..Len(events)
        <4>1. revisions[generation] \in 0..scenario.events
          BY <3>2, <3>3, SeqElement
        <4>2. revisions[generation] <= Len(events)
          BY <3>2, <3>3, Zenon
        <4>3. scenario.events \in Nat
          BY DEF AllTypes, ClusterTypes, Bounded
        <4> QED BY <3>2, <4>1, <4>2, <4>3
      <3> QED BY <1>1, <3>1, <3>3 DEF NoStart
    <2> QED BY <2>1, <2>2 DEF Monitor, NothingToWatch, InvalidReference, InitFails, WatchBegins, GetErrors,
                              GetAnswers, SelectDelay, SelectCtxDone, FlushedThenReturn
  <1> QED BY <1>2, <1>3, <1>4, <1>5, <1>6 DEF PastTypes

LEMMA SendTypesStep ==
  ASSUME AllTypes, SendStarted
  PROVE  MonitorTypes' /\ PastTypes' /\ StreamTypes'
PROOF
  <1>0. MonitorTypes /\ PastTypes /\ StreamTypes
        /\ UNCHANGED <<scenario, events, failures, watchOpen, cursor, logged>>
    BY DEF AllTypes, SendStarted, clusterVars
  <1>1. MonitorTypes'
    BY <1>0 DEF MonitorTypes, SendStarted, Examine, MonitorReturns
  <1>2. snapshot'.generation \in {0, snapshot.generation}
    BY DEF SendStarted, Examine, NoSnapshot
  <1>3. PastTypes'
    <2>1. 0 \in 0..scenario.generations
      BY DEF AllTypes, ClusterTypes, Bounded
    <2> QED BY <1>0, <1>2, <2>1 DEF PastTypes, SendStarted, NoStart
  <1>4. earliest' \in 0..Len(events)
    <2>1. CASE start = NoStart
      BY <1>0, <2>1 DEF SendStarted, StreamTypes
    <2>2. CASE start # NoStart
      <3>1. (CHOOSE time \in start : TRUE) \in start
        BY <2>2 DEF NoStart
      <3> QED BY <1>0, <2>2, <3>1 DEF SendStarted, PastTypes
    <2> QED BY <2>1, <2>2
  <1>5. StreamTypes'
    BY <1>0, <1>4 DEF StreamTypes, SendStarted
  <1> QED BY <1>1, <1>3, <1>5

LEMMA StreamTypesStep ==
  ASSUME AllTypes, Stream
  PROVE  MonitorTypes' /\ PastTypes' /\ StreamTypes'
PROOF
  <1>0. /\ UNCHANGED <<clusterVars, monitorVars>> /\ (CallFails \/ UNCHANGED failures)
        /\ MonitorTypes /\ PastTypes /\ StreamTypes
    BY DEF AllTypes, Stream, StreamStarts, NeverStarted, EmitAllEvents, OpenWatch, OpenWatchFails,
           ReadEvent, SeesEnded
  <1>1. MonitorTypes' /\ PastTypes'
    <2>1. MonitorTypes'
      BY <1>0 DEF MonitorTypes, monitorVars
    <2>2. UNCHANGED <<scenario, events, snapshot, start>> /\ failures' \in 0..scenario.failures
      BY <1>0, FailureTypes DEF clusterVars, monitorVars
    <2>3. PastTypes'
      BY <1>0, <2>2 DEF PastTypes
    <2> QED BY <2>1, <2>3
  <1>2. events' = events /\ Len(events) \in Nat
    BY <1>0 DEF clusterVars, AllTypes, ClusterTypes, ClusterTypeOK
  <1>3. /\ stream' \in {"off", "starting", "waitStarted", "listThenWatch", "listThenQuit",
                        "openWatch", "select", "done"}
        /\ watchOpen' \in BOOLEAN /\ earliest' \in 0..Len(events)
    <2>1. stream' \in {"off", "starting", "waitStarted", "listThenWatch", "listThenQuit",
                      "openWatch", "select", "done"}
      BY <1>0 DEF StreamTypes, Stream, StreamStarts, NeverStarted, EmitAllEvents, OpenWatch,
                  OpenWatchFails, ReadEvent, SeesEnded
    <2>2. watchOpen' \in BOOLEAN
      BY <1>0 DEF StreamTypes, Stream, StreamStarts, NeverStarted, EmitAllEvents, OpenWatch,
                  OpenWatchFails, ReadEvent, SeesEnded
    <2>3. earliest' \in {earliest, Len(events)}
      BY DEF Stream, StreamStarts, NeverStarted, EmitAllEvents, OpenWatch, OpenWatchFails, ReadEvent, SeesEnded
    <2> QED BY <1>0, <1>2, <2>1, <2>2, <2>3 DEF StreamTypes
  <1>4. cursor' \in 0..Len(events) /\ logged' \subseteq 1..Len(events)
    <2>1. CASE ReadEvent
      <3>1. cursor + 1 \in 1..Len(events) /\ cursor' = cursor + 1 /\ logged' \subseteq logged \cup {cursor + 1}
        BY <1>0, <1>2, <2>1 DEF ReadEvent, StreamTypes
      <3> QED BY <1>0, <3>1 DEF StreamTypes
    <2>2. CASE EmitAllEvents
      <3>1. cursor' = cursor /\ logged' \subseteq logged \cup 1..Len(events)
        BY <2>2 DEF EmitAllEvents
      <3> QED BY <1>0, <3>1 DEF StreamTypes
    <2>3. CASE UNCHANGED <<cursor, logged>>
      BY <1>0, <2>3 DEF StreamTypes
    <2> QED BY <2>1, <2>2, <2>3 DEF Stream, StreamStarts, NeverStarted, OpenWatch, OpenWatchFails, SeesEnded
  <1> QED BY <1>1, <1>2, <1>3, <1>4 DEF StreamTypes

LEMMA AllTypesNext == AllTypes /\ [Next]_vars => AllTypes'
PROOF
  <1> SUFFICES ASSUME AllTypes, [Next]_vars PROVE AllTypes'
    OBVIOUS
  <1>0. ClusterTypes /\ MonitorTypes /\ PastTypes /\ StreamTypes
    BY DEF AllTypes
  <1>1. UNCHANGED clusterVars => ClusterTypes'
    BY <1>0 DEF ClusterTypes, ClusterTypeOK, Bounded, Past, clusterVars
  <1>2. CASE Monitor
    <2>1. UNCHANGED clusterVars
      BY <1>2 DEF Monitor, NothingToWatch, InvalidReference, InitFails, WatchBegins, GetErrors, GetAnswers,
             FindDeploymentStartTime, SelectDelay, SelectCtxDone, FlushedThenReturn
    <2> QED BY <1>1, <1>2, <2>1, MonitorTypesStep DEF AllTypes
  <1>3. CASE SendStarted
    <2>1. UNCHANGED clusterVars
      BY <1>3 DEF SendStarted
    <2> QED BY <1>1, <1>3, <2>1, SendTypesStep DEF AllTypes
  <1>4. CASE Stream
    <2>1. UNCHANGED clusterVars
      BY <1>4 DEF Stream, StreamStarts, NeverStarted, EmitAllEvents, OpenWatch, OpenWatchFails,
             ReadEvent, SeesEnded
    <2> QED BY <1>1, <1>4, <2>1, StreamTypesStep DEF AllTypes
  <1>5. CASE CallerCtxEnds \/ TimeoutPasses \/ WatchCloses \/ UNCHANGED vars
    <2>1. /\ UNCHANGED <<clusterVars, stream, earliest, cursor, logged, snapshot, start>>
          /\ CallFails \/ UNCHANGED failures
      BY <1>5 DEF CallerCtxEnds, TimeoutPasses, WatchCloses, vars, streamVars, monitorVars
    <2>2. scenario' = scenario /\ events' = events
      BY <2>1 DEF clusterVars
    <2>3. MonitorTypes'
      BY <1>0, <1>5 DEF MonitorTypes, CallerCtxEnds, TimeoutPasses, WatchCloses, vars, monitorVars
    <2>4. PastTypes'
      <3>1. failures' \in 0..scenario.failures
        BY <2>1, FailureTypes
      <3> QED BY <1>0, <2>1, <2>2, <3>1 DEF PastTypes
    <2>5. watchOpen' \in BOOLEAN
      BY <1>0, <1>5 DEF StreamTypes, CallerCtxEnds, TimeoutPasses, WatchCloses, vars, streamVars
    <2>6. StreamTypes'
      BY <1>0, <2>1, <2>2, <2>5 DEF StreamTypes
    <2> QED BY <1>1, <2>1, <2>3, <2>4, <2>6 DEF AllTypes
  <1>6. CASE ClusterGoesOn
    <2>1. ClusterStep /\ UNCHANGED <<monitorVars, streamVars, failures>>
      BY <1>6 DEF ClusterGoesOn, ClusterStep
    <2>2. ClusterTypes' /\ Len(events) <= Len(events') /\ scenario' = scenario
      BY <1>0, <2>1, ClusterTypesStep
    <2>3. Len(events) \in Nat /\ Len(events') \in Nat
      <3>1. events \in Seq({"ours", "others"})
        BY <1>0 DEF ClusterTypes, ClusterTypeOK
      <3>2. events' \in Seq({"ours", "others"})
        BY <2>2 DEF ClusterTypes, ClusterTypeOK
      <3> QED BY <3>1, <3>2
    <2>4. 0..Len(events) \subseteq 0..Len(events') /\ 1..Len(events) \subseteq 1..Len(events')
      BY <2>2, <2>3
    <2>5. MonitorTypes'
      BY <1>0, <2>1 DEF MonitorTypes, monitorVars
    <2>6. PastTypes'
      BY <1>0, <2>1, <2>2, <2>4 DEF PastTypes, monitorVars
    <2>7. StreamTypes'
      BY <1>0, <2>1, <2>4 DEF StreamTypes, streamVars
    <2> QED BY <2>2, <2>5, <2>6, <2>7 DEF AllTypes
  <1> QED BY <1>2, <1>3, <1>4, <1>5, <1>6 DEF Next, Returned

(* Every reachable state is well typed; in particular, the event stream     *)
(* reads and writes only events that exist, and a start time lies in the    *)
(* past.                                                                    *)
THEOREM K8sTypeCorrect == Spec => []K8sTypeOK
PROOF
  <1>1. AllTypes => K8sTypeOK
    BY DEF AllTypes, ClusterTypes, MonitorTypes, PastTypes, StreamTypes, K8sTypeOK
  <1> QED BY <1>1, AllTypesInit, AllTypesNext, PTL DEF Spec
=============================================================================
