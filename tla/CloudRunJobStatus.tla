--------------------------- MODULE CloudRunJobStatus ---------------------------
(***************************************************************************)
(* gcp/cloudrun: the status view and the actions of a job.  A status lists *)
(* the latest executions, then the tasks of the first few of them, all at  *)
(* the same time; an error of any of these requests fails the call.        *)
(***************************************************************************)
EXTENDS StatusCalls, SequencesExt

CONSTANTS
  TaskCount,               \* the tasks of an execution
  MaxExecutions,           \* the executions that a status shows,
  MaxExecutionsWithTasks   \* and how many of them with their tasks

ASSUME JobStatusAssumption == TaskCount \in Nat

IsCloudRunJob == app.kind = "cloudrunjob"

(* An execution is the states of its tasks, whether it was asked to stop,  *)
(* whether it has its completion time, and its Completed condition.        *)
(* Executions are numbered from the oldest.                                *)
NewExecution ==
  [tasks |-> [i \in 1..TaskCount |-> "queued"], cancelling |-> FALSE, ended |-> FALSE, condition |-> "none"]

JobStatusInit ==
  /\ app = [kind |-> "cloudrunjob"]
  /\ \E t \in {"queued", "running"} : cloud = [execs |-> <<[NewExecution EXCEPT !.tasks = [i \in 1..TaskCount |-> t]]>>]
  /\ CallsInit({"Status", "StatusOverview", "cancel-execution", "rerun-job", "unknown"})

(* An attempt that did not exit by itself (it timed out, a signal ended    *)
(* it, its container never started) has failed and has no exit code:       *)
(* exit_code is then zero.                                                 *)
CodedFailures == {"exit-1", "exit-137"}
TaskFailures == CodedFailures \cup {"no-exit"}
Exits == {"exit-0"} \cup TaskFailures
TaskOver(t) == t \in Exits \cup {"cancelled"}
CountOf(x, states) == Cardinality({i \in 1..TaskCount : x.tasks[i] \in states})

NextStates(x, t) ==
  CASE TaskOver(t) -> {}
    [] t = "queued" -> IF x.cancelling THEN {"cancelled"} ELSE {"running"}
    [] t = "running" -> {"retrying"} \cup Exits \cup (IF x.cancelling THEN {"cancelled"} ELSE {})
    [] OTHER -> Exits \cup (IF x.cancelling THEN {"cancelled"} ELSE {})

TaskGoesOn ==
  \E e \in DOMAIN cloud.execs, i \in 1..TaskCount :
    \E to \in NextStates(cloud.execs[e], cloud.execs[e].tasks[i]) :
      Moves([cloud EXCEPT !.execs[e] = [@ EXCEPT !.tasks[i] = to]])

(* The completion time and the Completed condition are set once no task is *)
(* left, the condition perhaps a little later.                             *)
ExecutionEnds ==
  \E e \in DOMAIN cloud.execs, told \in BOOLEAN :
    LET x == cloud.execs[e] IN
    /\ \A i \in 1..TaskCount : TaskOver(x.tasks[i])
    /\ x.condition = "none"
    /\ x.ended => told
    /\ Moves([cloud EXCEPT !.execs[e] = [x EXCEPT
         !.ended = TRUE,
         !.condition = IF ~told THEN "none" ELSE IF CountOf(x, {"exit-0"}) = TaskCount THEN "SUCCEEDED" ELSE "FAILED"]])

(* What became of an execution.                                            *)
Fate(x) ==
  IF x.ended
  THEN IF CountOf(x, {"exit-0"}) = TaskCount THEN "Succeeded"
       ELSE IF x.cancelling /\ CountOf(x, TaskFailures) = 0 THEN "Cancelled" ELSE "Failed"
  ELSE IF CountOf(x, {"queued"}) = TaskCount THEN "Queued" ELSE "Running"

-----------------------------------------------------------------------------
ExecutionPhase(x) ==
  IF x.condition = "SUCCEEDED" THEN "Succeeded"
  ELSE IF x.condition = "FAILED" THEN "Failed"
  ELSE IF CountOf(x, {"cancelled"}) > 0 /\ CountOf(x, {"running", "retrying"}) = 0 /\ x.ended THEN "Cancelled"
  ELSE IF x.ended THEN IF CountOf(x, TaskFailures) > 0 \/ CountOf(x, {"exit-0"}) < TaskCount THEN "Failed" ELSE "Succeeded"
  ELSE IF CountOf(x, {"queued"}) < TaskCount THEN "Running" ELSE "Queued"

(* A finished task is judged by the exit code of its last attempt alone.   *)
TaskState(t) ==
  CASE t \in {"exit-0", "no-exit"} -> "Succeeded"
    [] t \in CodedFailures \cup {"cancelled"} -> "Failed"
    [] t = "retrying" -> "Retrying"
    [] t = "running" -> "Running"
    [] OTHER -> "Queued"

(* The banner of a failed execution: out of memory if a failed task was    *)
(* killed, and the exit code of the first failed task that has one.        *)
NoDiagnosis == [code |-> "none", exit |-> "none"]

DeriveExecutionFailure(phase, tasks) ==
  LET failed == {i \in DOMAIN tasks : TaskState(tasks[i]) = "Failed" /\ tasks[i] # "cancelled"} IN
  IF phase # "Failed" THEN NoDiagnosis
  ELSE [code |-> IF \E i \in failed : tasks[i] = "exit-137" THEN "OOMKilled" ELSE "JobTaskFailed",
        exit |-> IF failed = {} THEN "none" ELSE tasks[Min(failed)]]

(* The executions are listed from the newest, each as it is at that time.  *)
ListExecutions(c) ==
  LET all == DOMAIN cloud.execs
      listed == {e \in all : Cardinality({f \in all : f > e}) < MaxExecutions}
  IN
  /\ Starting(c, {"Status", "StatusOverview"})
  /\ Goes(c, "tasks", [e \in listed |->
       [phase |-> ExecutionPhase(cloud.execs[e]), failure |-> NoDiagnosis, tasks |-> <<>>,
        due |-> Cardinality({f \in all : f > e}) < MaxExecutionsWithTasks]])
  /\ UNCHANGED cloud

(* One goroutine lists the tasks of one execution.                         *)
ListExecutionTasks(c) ==
  /\ pc[c] = "tasks"
  /\ \E e \in {d \in DOMAIN read[c] : read[c][d].due} :
       LET tasks == cloud.execs[e].tasks IN
       Goes(c, "tasks", [read[c] EXCEPT ![e] =
         [phase |-> @.phase, failure |-> DeriveExecutionFailure(@.phase, tasks),
          tasks |-> [i \in 1..TaskCount |-> TaskState(tasks[i])], due |-> FALSE]])
  /\ UNCHANGED cloud

JobShown(c) ==
  /\ pc[c] = "tasks"
  /\ \A e \in DOMAIN read[c] : ~read[c][e].due
  /\ Returns(c, read[c])
  /\ UNCHANGED cloud

(* An action that is not known, or whose input names nothing to act on.    *)
NotSupported(c) ==
  /\ Starting(c, {"unknown"})
  /\ Refuses(c)
  /\ UNCHANGED cloud

(* The request is refused for an execution that is over.                   *)
CancelExecution(c) ==
  \E e \in DOMAIN cloud.execs :
    /\ Starting(c, {"cancel-execution"})
    /\ IF cloud.execs[e].ended
       THEN Refuses(c) /\ UNCHANGED cloud
       ELSE Goes(c, "wait", e) /\ cloud' = [cloud EXCEPT !.execs[e] = [@ EXCEPT !.cancelling = TRUE]]

Cancelled(c) ==
  /\ pc[c] = "wait" /\ asked[c] = "cancel-execution"
  /\ cloud.execs[read[c]].ended
  /\ Returns(c, read[c])
  /\ UNCHANGED cloud

RunJob(c) ==
  /\ Starting(c, {"rerun-job"})
  /\ Returns(c, Nothing)
  /\ cloud' = [cloud EXCEPT !.execs = Append(@, NewExecution)]

JobRequestFails(c) ==
  /\ \/ pc[c] \in {"tasks", "wait"}
     \/ Starting(c, {"Status", "StatusOverview", "cancel-execution", "rerun-job"})
  /\ CallFails(c)

JobStatusNext ==
  /\ IsCloudRunJob
  /\ \/ TaskGoesOn \/ ExecutionEnds
     \/ \E c \in Calls :
          \/ ListExecutions(c) \/ ListExecutionTasks(c) \/ JobShown(c) \/ NotSupported(c)
          \/ CancelExecution(c) \/ Cancelled(c) \/ RunJob(c) \/ JobRequestFails(c)

-----------------------------------------------------------------------------
(* A phase that Status shows is never ahead of the execution, and a final  *)
(* one is what became of it (Cloud Run may call a cancelled one failed).   *)
(* Its tasks and its banner are read later: a task of a successful         *)
(* execution succeeded, a task shown Failed failed or was cancelled, one   *)
(* shown Succeeded did, or failed without an exit code, and a failed       *)
(* execution has an exit code in its banner, that of one of its tasks, if  *)
(* any task failed with one.                                               *)
JobPhaseWasTrue ==
  \A c \in Calls : IsCloudRunJob /\ Shows(c, "Status") =>
    \A e \in DOMAIN shown[c] :
      LET view == shown[c][e]
          x == cloud.execs[e]
          fate == Fate(x)
      IN
      /\ Rank(view.phase) <= Rank(fate)
      /\ Rank(view.phase) = 2 => view.phase = fate \/ (view.phase = "Failed" /\ fate = "Cancelled")
                                                   \/ (view.phase = "Cancelled" /\ fate = "Failed" /\ x.cancelling)
      /\ view.phase = "Succeeded" => \A i \in DOMAIN view.tasks : x.tasks[i] = "exit-0" /\ view.tasks[i] = "Succeeded"
      /\ \A i \in DOMAIN view.tasks :
           /\ view.tasks[i] = "Failed" => x.tasks[i] \in CodedFailures \cup {"cancelled"}
           /\ view.tasks[i] = "Succeeded" => x.tasks[i] \in {"exit-0", "no-exit"}
      /\ view.failure.code = "OOMKilled" => "exit-137" \in ToSet(x.tasks)
      /\ view.failure.exit # "none" => view.failure.exit \in CodedFailures \cap ToSet(x.tasks)
      /\ view.tasks # <<>> /\ view.phase = "Failed" /\ CodedFailures \cap ToSet(x.tasks) # {} => view.failure.exit # "none"

(* cancel-execution reports "completed" only when the execution is over.   *)
CancelledIsOver ==
  \A c \in Calls : IsCloudRunJob /\ Shows(c, "cancel-execution") => cloud.execs[shown[c]].ended
=============================================================================
