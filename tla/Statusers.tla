------------------------------- MODULE Statusers -------------------------------
(***************************************************************************)
(* The status views and the actions of all providers: each module brings   *)
(* what it keeps and what it does, for the calls of StatusCalls.           *)
(***************************************************************************)
EXTENDS CloudRunJobStatus, CloudRunServiceStatus, EcsStatus, K8sStatus

Init == JobStatusInit \/ ServiceStatusInit \/ EcsStatusInit \/ K8sStatusInit

Next == JobStatusNext \/ ServiceStatusNext \/ EcsStatusNext \/ K8sStatusNext \/ AllReturned

Spec == Init /\ [][Next]_statusVars

-----------------------------------------------------------------------------
(* What a view shows was true: a job is never shown further than it had    *)
(* come, a final phase is what became of it and its exit code its own, and *)
(* a service is Failing, Degraded or Cold for a reason.                    *)
PhaseWasTrue == JobPhaseWasTrue /\ EcsPhaseWasTrue /\ K8sPhaseWasTrue /\ ServiceStateHasReason

(* A view that is put together from several lists misses nothing that was  *)
(* there all the time.                                                     *)
NothingMissed == EcsMissesNothing

(* An action that was reported done is done, and no other action, writing  *)
(* back what it read before, undoes it.                                    *)
ActionsKept == CancelledIsOver /\ ServiceChangesKept

(* A failure is shown under the name of what really ails the app.          *)
FailureWasReal == FailuresWereReal

(* What is kept for later - the lists of a Statuser, the tags of a task    *)
(* definition - is kept whole and is used for nothing else.                *)
ViewsAgree == K8sViewsAgree /\ EcsVersionsAreOwn
=============================================================================
