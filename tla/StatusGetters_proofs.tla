------------------------- MODULE StatusGetters_proofs -------------------------
(* Theorems about the polling watchers: the loop of PollingDeployWatcher    *)
(* for every status getter, the getter of Cloud Run jobs, and the getters   *)
(* and loops of StatusGetters, for every set of kinds and references, every *)
(* delay and timeout and every number of failed calls.                      *)
EXTENDS StatusGetters, TLAPS

(* app.PollingDeployWatcher.                                                *)

(* The clock and the timer: the timer is armed before the first poll, at    *)
(* the full timeout; it never moves afterwards.  With OutcomeJustified this *)
(* is inductive.                                                            *)
TimerInv ==
  /\ pc = "entry" => timeoutAt = 0
  /\ pc \in {"polling", "select"} => reference # NoReference /\ LongEnough(timeoutAt)
  /\ reference # NoReference /\ pc = "returned" => LongEnough(timeoutAt)
  /\ reference = NoReference => timeoutAt = 0
  /\ pc # "returned" => result = "none" /\ Learned = "none"
  /\ reference = NoReference => report = NoReport

WatchInv == WatchTypeOK /\ TimerInv /\ OutcomeJustified

(* Only these four verdicts exist.                                          *)
LEMMA VerdictType ==
  ASSUME NEW s, NEW e
  PROVE  Verdict(s, e) \in {"none", "nil", "ErrFailed", "CancelError"}
  BY DEF Verdict

(* Before the first poll nothing is settled.                                *)
LEMMA NoReportVerdict ==
  report = NoReport => Learned = "none"
  BY DEF Learned, Verdict, NoReport

(* What is settled depends on the last report alone.                        *)
LEMMA LearnedUnchanged == UNCHANGED report => UNCHANGED Learned
  BY DEF Learned

(* The invariant holds initially.                                           *)
LEMMA WatchInvInitially == WatchInit => WatchInv
  BY NoReportVerdict, PollingAssumption
  DEF WatchInit, WatchInv, WatchTypeOK, TimerInv, OutcomeJustified

(* A poll that returns keeps the invariant: it settles the verdict and the  *)
(* result in one step, or neither.                                          *)
LEMMA PollReturnsKeeps ==
  ASSUME WatchInv, NEW r \in Reports, PollReturns(r[1], r[2])
  PROVE  WatchInv'
PROOF
  <1>1. report' = r /\ report'[1] = r[1] /\ report'[2] = r[2]
    BY PollingAssumption DEF PollReturns
  <1>2. Verdict(r[1], r[2]) \in {"none", "nil", "ErrFailed", "CancelError"}
    BY VerdictType
  <1>3. Learned' = Verdict(r[1], r[2])
    BY <1>1 DEF Learned
  <1> DEFINE v == Verdict(r[1], r[2])
  <1>4. CASE v # "none"
    BY <1>1, <1>2, <1>3, <1>4, PollingAssumption
    DEF PollReturns, Return, WatchInv, WatchTypeOK, TimerInv, OutcomeJustified, TimerArmed
  <1>5. CASE v = "none"
    BY <1>1, <1>2, <1>3, <1>5, PollingAssumption
    DEF PollReturns, Return, WatchInv, WatchTypeOK, TimerInv, OutcomeJustified, TimerArmed
  <1> QED BY <1>4, <1>5

(* Every other step of Watch, its caller and the clock keeps the invariant. *)
LEMMA WatchStepKeeps ==
  ASSUME WatchInv, WatchStep
  PROVE  WatchInv'
PROOF
  <1> USE PollingAssumption, NoReportVerdict, LearnedUnchanged DEF WatchInv, WatchTypeOK, TimerInv, OutcomeJustified, TimerArmed, LongEnough
  <1>1. CASE WatchNothing
    BY <1>1 DEF WatchNothing, Return
  <1>2. CASE WatchBegins
    BY <1>2 DEF WatchBegins
  <1>3. CASE SelectCtxDone
    BY <1>3 DEF SelectCtxDone, Return
  <1>4. CASE SelectTimeout
    BY <1>4 DEF SelectTimeout, Return
  <1>5. CASE SelectDelay
    BY <1>5 DEF SelectDelay
  <1>6. CASE Tick
    BY <1>6 DEF Tick
  <1>7. CASE \E how \in {"cancelled", "deadline"} : CtxEnds(how)
    BY <1>7 DEF CtxEnds
  <1> QED BY <1>1, <1>2, <1>3, <1>4, <1>5, <1>6, <1>7 DEF WatchStep

(* Every step keeps the invariant, which is therefore inductive.            *)
LEMMA WatchInvKept == WatchInv /\ [WatchNext]_watchVars => WatchInv'
PROOF
  <1> SUFFICES ASSUME WatchInv, [WatchNext]_watchVars PROVE WatchInv'
    OBVIOUS
  <1>1. CASE UNCHANGED watchVars
    BY <1>1, LearnedUnchanged DEF watchVars, WatchInv, WatchTypeOK, TimerInv, OutcomeJustified, TimerArmed
  <1>2. CASE WatchStep
    BY <1>2, WatchStepKeeps
  <1>3. CASE \E r \in Reports : PollReturns(r[1], r[2])
    BY <1>3, PollReturnsKeeps
  <1> QED BY <1>1, <1>2, <1>3 DEF WatchNext, Returned

(* Every reachable state is well typed.                                     *)
THEOREM WatchTypeCorrect == WatchSpec => []WatchTypeOK
PROOF
  <1>1. WatchInv => WatchTypeOK BY DEF WatchInv
  <1> QED BY <1>1, WatchInvInitially, WatchInvKept, PTL DEF WatchSpec

(* Whatever the status getter answers and whichever ready channel the       *)
(* select picks, Watch returns only what its documentation allows.          *)
THEOREM OutcomeAlwaysJustified == WatchSpec => []OutcomeJustified
PROOF
  <1>1. WatchInv => OutcomeJustified BY DEF WatchInv
  <1> QED BY <1>1, WatchInvInitially, WatchInvKept, PTL DEF WatchSpec

-----------------------------------------------------------------------------
(* The refinement: each step of the loop is a step of the contract or none. *)
Expired == ctx = "deadline" \/ (timeoutAt # 0 /\ now >= timeoutAt)

(* Initial states map to initial states of the contract.                    *)
LEMMA ContractInit == WatchInit => Contract!Init
  BY NoReportVerdict
  DEF WatchInit, Contract!Init, OutcomeOf, LearnedVerdict

(* A step that moves neither the report nor the result is not seen by the   *)
(* contract.                                                                *)
LEMMA SameOutcome ==
  ASSUME UNCHANGED <<reference, report, result>>,
         pc' = "returned" <=> pc = "returned"
  PROVE  UNCHANGED <<OutcomeOf(result), LearnedVerdict>>
PROOF
  <1>1. Learned' = Learned /\ reference' = reference
    BY LearnedUnchanged
  <1>2. LearnedVerdict' = LearnedVerdict
    BY <1>1 DEF LearnedVerdict
  <1> QED BY <1>2

(* A poll that returns concludes the contract or is not seen by it.         *)
LEMMA VerdictSteps ==
  ASSUME WatchInv, NEW r \in Reports, PollReturns(r[1], r[2])
  PROVE  [Contract!Next]_(Contract!outcomeVars)
PROOF
  <1> DEFINE v == Verdict(r[1], r[2])
  <1>1. report' = r
    BY PollingAssumption DEF PollReturns
  <1>2. v \in {"none", "nil", "ErrFailed", "CancelError"} /\ Learned' = v
    BY <1>1, VerdictType DEF Learned
  <1>3. /\ pc = "polling" /\ result = "none" /\ reference # NoReference /\ Learned = "none"
        /\ ctx' = ctx /\ now' = now /\ timeoutAt' = timeoutAt /\ reference' = reference
    BY DEF PollReturns, WatchInv, TimerInv
  <1>4. CASE v = "none"
    <2>1. result' = result
      BY <1>4 DEF PollReturns
    <2> QED BY <1>2, <1>3, <1>4, <2>1
      DEF Contract!outcomeVars, LearnedVerdict, OutcomeOf
  <1>5. CASE v # "none"
    <2>1. result' = v
      BY <1>5 DEF PollReturns, Return
    <2>2. OutcomeOf(result) = "pending" /\ OutcomeOf(v) \in Contract!Verdicts
      BY <1>2, <1>3, <1>5 DEF OutcomeOf, Contract!Verdicts
    <2>3. OutcomeOf(result)' = OutcomeOf(v) /\ LearnedVerdict' = OutcomeOf(v)
      BY <1>2, <1>3, <1>5, <2>1 DEF LearnedVerdict
    <2>4. Contract!Conclude(OutcomeOf(v))
      BY <1>3, <2>2, <2>3 DEF Contract!Conclude
    <2> QED BY <2>2, <2>4 DEF Contract!Next
  <1> QED BY <1>4, <1>5

(* Every other step maps to a step of the contract or to none.              *)
LEMMA EnvironmentSteps ==
  ASSUME WatchInv, WatchStep
  PROVE  [Contract!Next]_(Contract!outcomeVars)
PROOF
  <1>1. ASSUME WatchNothing PROVE Contract!Skip
    BY <1>1 DEF WatchNothing, Return, WatchInv, TimerInv,
                Contract!Skip, OutcomeOf, LearnedVerdict
  <1>2. ASSUME WatchBegins PROVE UNCHANGED Contract!outcomeVars
    <2>1. timeoutAt = 0 /\ (\E timeout \in Timeouts : timeoutAt' = now + timeout) /\ now' = now /\ ctx' = ctx
      BY <1>2 DEF WatchBegins, WatchInv, TimerInv
    <2>2. ~(now' >= timeoutAt') 
      BY <2>1, PollingAssumption DEF WatchInv, WatchTypeOK
    <2>3. Expired' = Expired
      BY <2>1, <2>2 DEF Expired
    <2>4. UNCHANGED <<OutcomeOf(result), LearnedVerdict>>
      BY <1>2, SameOutcome DEF WatchBegins
    <2> QED BY <2>1, <2>3, <2>4 DEF Contract!outcomeVars, Expired
  <1>3. ASSUME SelectCtxDone PROVE Contract!TimeOut \/ Contract!Abort
    BY <1>3, LearnedUnchanged
    DEF SelectCtxDone, Return, WatchInv, TimerInv, WatchTypeOK,
        Contract!TimeOut, Contract!Abort, OutcomeOf, LearnedVerdict
  <1>4. ASSUME SelectTimeout PROVE Contract!TimeOut
    <2>1. LongEnough(timeoutAt)
      BY <1>4 DEF SelectTimeout, WatchInv, TimerInv
    <2>2. timeoutAt # 0
      BY <2>1, PollingAssumption DEF LongEnough, WatchInv, WatchTypeOK
    <2> QED BY <1>4, <2>2, LearnedUnchanged
      DEF SelectTimeout, Return, WatchInv, TimerInv, WatchTypeOK,
          Contract!TimeOut, OutcomeOf, LearnedVerdict
  <1>5. ASSUME SelectDelay PROVE UNCHANGED Contract!outcomeVars
    BY <1>5, SameOutcome DEF SelectDelay, Contract!outcomeVars
  <1>6. ASSUME Tick PROVE Contract!Expire \/ UNCHANGED Contract!outcomeVars
    <2>1. UNCHANGED <<OutcomeOf(result), LearnedVerdict, ctx, timeoutAt>>
      BY <1>6, SameOutcome DEF Tick
    <2>2. Expired => Expired'
      BY <1>6, <2>1 DEF Tick, Expired, WatchInv, WatchTypeOK
    <2> QED BY <2>1, <2>2 DEF Expired, Contract!Expire, Contract!outcomeVars
  <1>7. ASSUME NEW how \in {"cancelled", "deadline"}, CtxEnds(how)
        PROVE  Contract!Expire \/ Contract!Cancel
    <2>1. UNCHANGED <<OutcomeOf(result), LearnedVerdict, now, timeoutAt>>
      BY <1>7, SameOutcome DEF CtxEnds
    <2>2. ctx = "live" /\ ctx' = how
      BY <1>7 DEF CtxEnds
    <2>3. CASE how = "deadline"
      BY <2>1, <2>2, <2>3 DEF Contract!Expire
    <2>4. CASE how = "cancelled"
      BY <2>1, <2>2, <2>4 DEF Contract!Cancel
    <2> QED BY <2>3, <2>4
  <1> QED BY <1>1, <1>2, <1>3, <1>4, <1>5, <1>6, <1>7 DEF WatchStep, Contract!Next

(* The polling loop implements DeployOutcome: one outcome, never changed,   *)
(* the provider's verdict before any deadline or cancellation, and a        *)
(* timeout or a cancellation only when there was one.                       *)
THEOREM PollingImplementsContract == WatchSpec => ImplementsContract
PROOF
  <1>1. WatchInv /\ [WatchNext]_watchVars => [Contract!Next]_(Contract!outcomeVars)
    <2> SUFFICES ASSUME WatchInv, [WatchNext]_watchVars
                 PROVE  [Contract!Next]_(Contract!outcomeVars)
      OBVIOUS
    <2>1. CASE UNCHANGED watchVars
      BY <2>1, SameOutcome DEF watchVars, Contract!outcomeVars
    <2>2. CASE WatchStep
      BY <2>2, EnvironmentSteps
    <2>3. CASE \E r \in Reports : PollReturns(r[1], r[2])
      BY <2>3, VerdictSteps
    <2> QED BY <2>1, <2>2, <2>3 DEF WatchNext, Returned
  <1> QED BY <1>1, WatchInvInitially, WatchInvKept, ContractInit, PTL
    DEF WatchSpec, ImplementsContract, Contract!Spec

-----------------------------------------------------------------------------
(* gcp/cloudrun.JobDeployLogger.                                            *)

(* A poll makes Watch return nil only by "complete" without an error.       *)
LEMMA NilMeansComplete ==
  ASSUME NEW status, NEW isErr, PollReturns(status, isErr), result' = "nil"
  PROVE  result = "nil" \/ (status = "complete" /\ ~isErr)
  BY DEF PollReturns, Return, Verdict

(* Every call of GetDeployStatus keeps the property.                        *)
LEMMA GetDeployStatusIsReal ==
  ASSUME JobSuccessIsReal, GetDeployStatus
  PROVE  JobSuccessIsReal'
PROOF
  <1>1. CASE NoJob
    BY <1>1 DEF NoJob, jobVars, JobSuccessIsReal
  <1>2. CASE ClientFails
    <2>1. PollReturns("unknown", TRUE) /\ UNCHANGED <<jobId, operation, reference>>
      BY <1>2 DEF ClientFails, PollReturns
    <2>2. result' = "nil" => result = "nil"
      BY <2>1, NilMeansComplete
    <2> QED BY <2>1, <2>2 DEF JobSuccessIsReal
  <1>3. CASE PollFails
    <2>1. PollReturns("in-progress", FALSE) /\ UNCHANGED <<jobId, operation, reference>>
      BY <1>3 DEF PollFails, PollReturns
    <2>2. result' = "nil" => result = "nil"
      BY <2>1 DEF PollReturns, Return, Verdict
    <2> QED BY <2>1, <2>2 DEF JobSuccessIsReal
  <1>4. CASE PollAnswers
    <2>1. UNCHANGED <<jobId, operation, reference>>
      BY <1>4 DEF PollAnswers, PollReturns, jobVars
    <2>2. CASE operation = "succeeded"
      BY <2>1, <2>2 DEF JobSuccessIsReal
    <2>3. CASE operation = "running" /\ PollReturns("in-progress", FALSE)
      <3>1. result' = "nil" => result = "nil"
        BY <2>3 DEF PollReturns, Return, Verdict
      <3> QED BY <2>1, <3>1 DEF JobSuccessIsReal
    <2>4. CASE operation = "failed" /\ PollReturns("failed", TRUE)
      <3>1. result' = "nil" => result = "nil"
        BY <2>4, NilMeansComplete
      <3> QED BY <2>1, <3>1 DEF JobSuccessIsReal
    <2> QED BY <1>4, <2>2, <2>3, <2>4 DEF PollAnswers
  <1> QED BY <1>1, <1>2, <1>3, <1>4 DEF GetDeployStatus

(* So does everything else that Watch, its caller and Google Cloud do.      *)
LEMMA JobOthersAreReal ==
  ASSUME JobSuccessIsReal,
         \/ WatchStep /\ UNCHANGED jobVars
         \/ OperationEnds
         \/ Returned /\ UNCHANGED jobVars
         \/ UNCHANGED vars
  PROVE  JobSuccessIsReal'
PROOF
  <1>1. CASE WatchStep /\ UNCHANGED jobVars
    BY <1>1
    DEF WatchStep, WatchNothing, WatchBegins, SelectCtxDone, SelectTimeout, SelectDelay,
        Tick, CtxEnds, Return, jobVars, JobSuccessIsReal
  <1>2. CASE OperationEnds
    BY <1>2 DEF OperationEnds, watchVars, JobSuccessIsReal
  <1>3. CASE (Returned /\ UNCHANGED jobVars) \/ UNCHANGED vars
    BY <1>3 DEF Returned, vars, watchVars, jobVars, JobSuccessIsReal
  <1> QED BY <1>1, <1>2, <1>3

(* A watch of a job reports success only if there was nothing to watch or   *)
(* the operation succeeded, whichever calls to Google Cloud fail.           *)
THEOREM JobSuccessAlwaysReal == JobSpec => []JobSuccessIsReal
PROOF
  <1>1. JobInit => JobSuccessIsReal
    BY DEF JobInit, WatchInit, JobSuccessIsReal
  <1>2. JobSuccessIsReal /\ [JobNext]_vars => JobSuccessIsReal'
    BY GetDeployStatusIsReal, JobOthersAreReal DEF JobNext
  <1> QED BY <1>1, <1>2, PTL DEF JobSpec

-----------------------------------------------------------------------------
(* The getters and loops of StatusGetters.                                  *)

(* Why VerdictIsReal is inductive: the rollout's state is one it has been   *)
(* in and, where the getter takes every other answer for a failure, one of  *)
(* those of its kind; and the status that an ECS poll carries to its last   *)
(* call was read of a deployment that was not complete.                     *)
VerdictInv ==
  /\ VerdictIsReal
  /\ rollout \in past
  /\ kind = "azurefunctions" => rollout \in {"202", "200", "500", "503"}
  /\ poll.at = "tasks" =>
       poll.status = "in-progress" \/ (poll.status = "failed" /\ "FAILED" \in past)

(* A poll that returns ends the watch only by its own verdict.              *)
LEMMA ErrorVerdict ==
  ASSUME NEW status, PollReturns(status, TRUE)
  PROVE  reference' = reference /\ (result' = "nil" => result = "nil") /\ (result' = "ErrFailed" => result = "ErrFailed")
  BY DEF PollReturns, Return, Verdict

LEMMA StatusVerdict ==
  ASSUME NEW status, PollReturns(status, FALSE)
  PROVE  /\ reference' = reference
         /\ result' = "nil" => result = "nil" \/ status = "complete"
         /\ result' = "ErrFailed" => result = "ErrFailed" \/ status = "failed"
  BY DEF PollReturns, Return, Verdict

(* What justifies a verdict.                                                *)
WellJustified ==
  \/ jobId = "empty" \/ kind = "blob" \/ operation = "succeeded"
  \/ past \cap (Good \cup {"DONE with error", "Stopped"}) # {}

BadlyJustified == operation = "failed" \/ past \cap (Bad \cup {"gone", "503"}) # {}

(* A poll of one kind keeps the invariant, if what it answers is justified. *)
LEMMA PollKeeps ==
  ASSUME VerdictInv, NEW k, NEW status, PollEnds(k, status, FALSE),
         status = "complete" => WellJustified,
         status = "failed" => BadlyJustified
  PROVE  VerdictInv'
PROOF
  <1>1. PollReturns(status, FALSE) /\ UNCHANGED <<jobId, operation, kind, rollout, past>> /\ poll' = NewPoll
    BY DEF PollEnds
  <1>2. reference' = reference
    BY <1>1, StatusVerdict
  <1>3. CASE result' = "nil"
    <2>1. result = "nil" \/ status = "complete"
      BY <1>1, <1>3, StatusVerdict
    <2> QED BY <1>1, <1>2, <1>3, <2>1 DEF VerdictInv, VerdictIsReal, WellJustified, NewPoll, PollAt
  <1>4. CASE result' = "ErrFailed"
    <2>1. result = "ErrFailed" \/ status = "failed"
      BY <1>1, <1>4, StatusVerdict
    <2> QED BY <1>1, <1>2, <1>4, <2>1 DEF VerdictInv, VerdictIsReal, BadlyJustified, NewPoll, PollAt
  <1>5. CASE result' \notin {"nil", "ErrFailed"}
    BY <1>1, <1>5 DEF VerdictInv, VerdictIsReal, NewPoll, PollAt
  <1> QED BY <1>3, <1>4, <1>5

LEMMA ErrorKeeps ==
  ASSUME VerdictInv, NEW k, NEW status, PollEnds(k, status, TRUE)
  PROVE  VerdictInv'
PROOF
  <1>1. PollReturns(status, TRUE) /\ UNCHANGED <<jobId, operation, kind, rollout, past>> /\ poll' = NewPoll
    BY DEF PollEnds
  <1>2. /\ reference' = reference
        /\ result' = "nil" => result = "nil"
        /\ result' = "ErrFailed" => result = "ErrFailed"
    BY <1>1, ErrorVerdict
  <1> QED BY <1>1, <1>2 DEF VerdictInv, VerdictIsReal, NewPoll, PollAt

LEMMA FailsKeeps ==
  ASSUME VerdictInv, NEW k, Fails(k)
  PROVE  VerdictInv'
  BY ErrorKeeps DEF Fails

LEMMA NothingKeeps ==
  ASSUME VerdictInv, NEW k, NothingToPoll(k)
  PROVE  VerdictInv'
  BY PollKeeps DEF NothingToPoll, Answers, WellJustified

(* The verdict of a loop whose call fails is none of these.                 *)
LEMMA LoopFailsKeeps ==
  ASSUME VerdictInv, LoopFails
  PROVE  VerdictInv'
  BY DEF LoopFails, Return, getterVars, VerdictInv, VerdictIsReal

-----------------------------------------------------------------------------
LEMMA EcsKeeps ==
  ASSUME VerdictInv, EcsNothing \/ EcsInitialize \/ EcsGetDeployment \/ EcsTasks
  PROVE  VerdictInv'
PROOF
  <1>1. CASE EcsNothing
    BY <1>1, NothingKeeps DEF EcsNothing
  <1>2. CASE EcsInitialize
    <2>1. CASE PollEnds("ecs", "unknown", TRUE)
      BY <2>1, ErrorKeeps
    <2>2. CASE poll' = PollAt("deployment", "none") /\ UNCHANGED <<vars, kind, rollout, past>>
      BY <2>2 DEF vars, watchVars, jobVars, PollAt, VerdictInv, VerdictIsReal
    <2> QED BY <1>2, <2>1, <2>2 DEF EcsInitialize
  <1>3. CASE EcsGetDeployment
    <2>1. CASE poll' = PollAt("panicked", "none") /\ UNCHANGED <<vars, kind, rollout, past, memo>>
      BY <2>1 DEF vars, watchVars, jobVars, PollAt, VerdictInv, VerdictIsReal
    <2>2. CASE rollout = "gone" /\ Answers("ecs", "failed")
      BY <2>2, PollKeeps DEF Answers, BadlyJustified, VerdictInv
    <2>3. CASE rollout = "COMPLETED" /\ Answers("ecs", "complete")
      BY <2>3, PollKeeps DEF Answers, WellJustified, Good, VerdictInv
    <2>4. CASE /\ rollout \in {"IN_PROGRESS", "FAILED"}
               /\ poll' = PollAt("tasks", EcsRolloutStatus(rollout))
               /\ UNCHANGED <<vars, kind, rollout, past, memo>>
      BY <2>4 DEF vars, watchVars, jobVars, PollAt, VerdictInv, VerdictIsReal, EcsRolloutStatus
    <2>5. CASE Fails("ecs")
      BY <2>5, FailsKeeps
    <2> QED BY <1>3, <2>1, <2>2, <2>3, <2>4, <2>5 DEF EcsGetDeployment
  <1>4. CASE EcsTasks
    <2>1. CASE Answers("ecs", poll.status)
      <3>1. poll.status = "complete" => WellJustified
        BY <1>4 DEF EcsTasks, VerdictInv
      <3>2. poll.status = "failed" => BadlyJustified
        BY <1>4 DEF EcsTasks, VerdictInv, BadlyJustified, Bad
      <3> QED BY <2>1, <3>1, <3>2, PollKeeps DEF Answers
    <2> QED BY <1>4, <2>1, FailsKeeps DEF EcsTasks
  <1> QED BY <1>1, <1>2, <1>3, <1>4

LEMMA PollsOfOneCallKeep ==
  ASSUME VerdictInv, BeanstalkPoll \/ CdnPoll \/ AcaPoll \/ AzureFunctionsPoll \/ BlobPoll
  PROVE  VerdictInv'
PROOF
  <1>1. CASE Answers("beanstalk", BeanstalkStatus(rollout))
    <2>1. BeanstalkStatus(rollout) = "complete" => WellJustified
      BY DEF BeanstalkStatus, WellJustified, Good, VerdictInv
    <2>2. BeanstalkStatus(rollout) = "failed" => BadlyJustified
      BY DEF BeanstalkStatus, BadlyJustified, Bad, VerdictInv
    <2> QED BY <1>1, <2>1, <2>2, PollKeeps DEF Answers
  <1>2. CASE Answers("cdn", IF rollout = "Completed" THEN "complete" ELSE "in-progress")
    <2>1. rollout = "Completed" => WellJustified
      BY DEF WellJustified, Good, VerdictInv
    <2> QED BY <1>2, <2>1, PollKeeps DEF Answers
  <1>3. CASE Answers("aca", AcaStatus(rollout))
    <2>1. AcaStatus(rollout) = "complete" => WellJustified
      BY DEF AcaStatus, WellJustified, Good, VerdictInv
    <2>2. AcaStatus(rollout) = "failed" => BadlyJustified
      BY DEF AcaStatus, BadlyJustified, Bad, VerdictInv
    <2> QED BY <1>3, <2>1, <2>2, PollKeeps DEF Answers
  <1>4. CASE Answers("azurefunctions", StatusOfCode(rollout))
    <2>1. kind = "azurefunctions"
      BY <1>4 DEF Answers, PollEnds
    <2>2. StatusOfCode(rollout) = "complete" => WellJustified
      BY DEF StatusOfCode, WellJustified, Good, VerdictInv
    <2>3. StatusOfCode(rollout) = "failed" => BadlyJustified
      BY <2>1 DEF StatusOfCode, BadlyJustified, Bad, VerdictInv
    <2> QED BY <1>4, <2>2, <2>3, PollKeeps DEF Answers
  <1>5. CASE BlobPoll
    BY <1>5, PollKeeps DEF BlobPoll, Answers, PollEnds, WellJustified
  <1> QED BY <1>1, <1>2, <1>3, <1>4, <1>5, FailsKeeps, NothingKeeps
         DEF BeanstalkPoll, CdnPoll, AcaPoll, AzureFunctionsPoll

LEMMA CloudPollsKeep ==
  ASSUME VerdictInv,
         \/ CloudCdnLoadFails \/ CloudCdnLoadFailed \/ OperationsClientFails \/ GetWithoutClient \/ CloudCdnGet
         \/ FunctionPoll \/ ComposerPoll
  PROVE  VerdictInv'
PROOF
  <1>1. CASE PollEnds("cloudcdn", "unknown", TRUE)
    BY <1>1, ErrorKeeps
  <1>2. CASE GetWithoutClient
    BY <1>2 DEF GetWithoutClient, vars, watchVars, jobVars, PollAt, VerdictInv, VerdictIsReal
  <1>3. CASE PollEnds("cloudcdn", IF rollout \in {"DONE", "DONE with error"} THEN "complete" ELSE "in-progress", FALSE)
    <2>1. rollout \in {"DONE", "DONE with error"} => WellJustified
      BY DEF WellJustified, Good, VerdictInv
    <2> QED BY <1>3, <2>1, PollKeeps
  <1>4. CASE FunctionPoll
    <2>1. CASE operation = "running" /\ Answers("cloudfunction", "in-progress")
      BY <2>1, PollKeeps DEF Answers
    <2>2. CASE operation = "succeeded" /\ Answers("cloudfunction", "complete")
      BY <2>2, PollKeeps DEF Answers, WellJustified
    <2>3. CASE operation = "failed" /\ Answers("cloudfunction", "failed")
      BY <2>3, PollKeeps DEF Answers, BadlyJustified
    <2> QED BY <1>4, <2>1, <2>2, <2>3, LoopFailsKeeps DEF FunctionPoll
  <1>5. CASE ComposerPoll
    <2>1. CASE operation = "running" /\ Answers("composer", "in-progress")
      BY <2>1, PollKeeps DEF Answers
    <2>2. CASE operation = "succeeded" /\ Answers("composer", "complete")
      BY <2>2, PollKeeps DEF Answers, WellJustified
    <2>3. CASE operation = "failed" /\ Answers("composer", "failed")
      BY <2>3, PollKeeps DEF Answers, BadlyJustified
    <2>4. CASE PollEnds("composer", "in-progress", FALSE)
      BY <2>4, PollKeeps
    <2> QED BY <1>5, <2>1, <2>2, <2>3, <2>4 DEF ComposerPoll
  <1> QED BY <1>1, <1>2, <1>3, <1>4, <1>5
          DEF CloudCdnLoadFails, CloudCdnLoadFailed, OperationsClientFails, CloudCdnGet

-----------------------------------------------------------------------------
(* The Cloud Run job's own getter: see CloudRunJobDeploy.                   *)
LEMMA JobPollKeeps ==
  ASSUME VerdictInv, GetDeployStatus, UNCHANGED getterVars
  PROVE  VerdictInv'
PROOF
  <1>1. UNCHANGED <<reference, jobId, operation, kind, rollout, past, poll>>
    BY DEF GetDeployStatus, NoJob, ClientFails, PollFails, PollAnswers, PollReturns, jobVars, getterVars
  <1>2. CASE PollReturns("unknown", TRUE)
    BY <1>1, <1>2, ErrorVerdict DEF VerdictInv, VerdictIsReal
  <1>3. CASE PollReturns("in-progress", FALSE)
    <2>1. (result' = "nil" => result = "nil") /\ (result' = "ErrFailed" => result = "ErrFailed")
      BY <1>3 DEF PollReturns, Return, Verdict
    <2> QED BY <1>1, <2>1 DEF VerdictInv, VerdictIsReal
  <1>4. CASE (jobId = "empty" \/ operation = "succeeded") /\ PollReturns("complete", FALSE)
    <2>1. result' = "ErrFailed" => result = "ErrFailed"
      BY <1>4 DEF PollReturns, Return, Verdict
    <2> QED BY <1>1, <1>4, <2>1 DEF VerdictInv, VerdictIsReal
  <1>5. CASE PollReturns("failed", TRUE)
    BY <1>1, <1>5, ErrorVerdict DEF VerdictInv, VerdictIsReal
  <1> QED BY <1>2, <1>3, <1>4, <1>5 DEF GetDeployStatus, NoJob, ClientFails, PollFails, PollAnswers

(* What is not a poll.                                                      *)
LEMMA OthersKeep ==
  ASSUME VerdictInv,
         \/ WatchStep /\ UNCHANGED <<jobVars, getterVars>>
         \/ NoClient \/ ServiceNotWatched \/ ProviderMoves \/ OperationMoves
         \/ Panicked \/ UNCHANGED allVars \/ (Returned /\ UNCHANGED <<jobVars, getterVars>>)
  PROVE  VerdictInv'
PROOF
  <1>1. CASE WatchStep /\ UNCHANGED <<jobVars, getterVars>>
    BY <1>1
    DEF WatchStep, WatchNothing, WatchBegins, SelectCtxDone, SelectTimeout, SelectDelay, Tick, CtxEnds, Return,
        jobVars, getterVars, VerdictInv, VerdictIsReal
  <1>2. CASE NoClient
    BY <1>2, LoopFailsKeeps DEF NoClient
  <1>3. CASE ServiceNotWatched
    BY <1>3 DEF ServiceNotWatched, Return, jobVars, getterVars, VerdictInv, VerdictIsReal
  <1>4. CASE ProviderMoves
    <2>1. PICK move \in Moves[kind] : rollout' = move[2] /\ past' = past \cup {move[2]}
      BY <1>4 DEF ProviderMoves
    <2>2. kind = "azurefunctions" => rollout' \in {"202", "200", "500", "503"}
      BY <2>1 DEF Moves
    <2> QED BY <1>4, <2>1, <2>2 DEF ProviderMoves, vars, watchVars, jobVars, VerdictInv, VerdictIsReal
  <1>5. CASE OperationMoves
    <2>1. operation # "succeeded" /\ operation # "failed"
      BY <1>5 DEF OperationMoves, OperationEnds
    <2> QED BY <1>5, <2>1 DEF OperationMoves, OperationEnds, watchVars, getterVars, VerdictInv, VerdictIsReal
  <1>6. CASE Panicked \/ UNCHANGED allVars \/ (Returned /\ UNCHANGED <<jobVars, getterVars>>)
    BY <1>6 DEF Panicked, Returned, allVars, vars, watchVars, jobVars, getterVars, VerdictInv, VerdictIsReal
  <1> QED BY <1>1, <1>2, <1>3, <1>4, <1>5, <1>6

LEMMA VerdictInvInitially == GettersInit => VerdictInv
PROOF
  <1> SUFFICES ASSUME GettersInit PROVE VerdictInv
    OBVIOUS
  <1>1. VerdictIsReal
    BY DEF GettersInit, JobInit, WatchInit, VerdictIsReal
  <1>2. kind = "azurefunctions" => rollout \in {"202", "200", "500", "503"}
    BY DEF GettersInit, Begins
  <1>3. rollout \in past /\ poll.at # "tasks"
    BY DEF GettersInit, NewPoll, PollAt
  <1> QED BY <1>1, <1>2, <1>3 DEF VerdictInv

LEMMA VerdictInvKept == VerdictInv /\ [GettersNext]_allVars => VerdictInv'
  BY EcsKeeps, PollsOfOneCallKeep, CloudPollsKeep, JobPollKeeps, OthersKeep DEF GettersNext, Poll

(* The verdict of every watch that polls is the provider's: no failing call *)
(* passes for the end of a rollout.                                         *)
THEOREM VerdictAlwaysReal == GettersSpec => []VerdictIsReal
PROOF
  <1>1. VerdictInv => VerdictIsReal
    BY DEF VerdictInv
  <1> QED BY <1>1, VerdictInvInitially, VerdictInvKept, PTL DEF GettersSpec

-----------------------------------------------------------------------------
(* The refinement: every watcher implements the contract.                   *)

(* What any step is to the loop: the answer of a getter, a step of the loop *)
(* or of its caller, an end of its own, or nothing.                         *)
LoopStep ==
  /\ kind' = kind
  /\ \/ \E status : \E isErr \in BOOLEAN : PollReturns(status, isErr)
     \/ WatchStep /\ kind # "cloudrunservice"
     \/ LoopFails /\ pc # "returned"
     \/ ServiceNotWatched
     \/ UNCHANGED watchVars

LEMMA PollEndsIsLoopStep ==
  ASSUME NEW k, NEW status, NEW isErr \in BOOLEAN, PollEnds(k, status, isErr)
  PROVE  LoopStep
  BY DEF PollEnds, LoopStep

LEMMA AnswersIsLoopStep ==
  ASSUME NEW k, NEW status, Answers(k, status) \/ Fails(k) \/ NothingToPoll(k)
  PROVE  LoopStep
PROOF
  <1>1. \E st : \E isErr \in BOOLEAN : PollEnds(k, st, isErr)
    BY DEF Answers, Fails, NothingToPoll
  <1> QED BY <1>1, PollEndsIsLoopStep

LEMMA NextIsLoopStep ==
  ASSUME [GettersNext]_allVars
  PROVE  LoopStep
PROOF
  <1>1. CASE UNCHANGED allVars
    BY <1>1 DEF allVars, vars, getterVars, LoopStep
  <1>2. CASE GetDeployStatus /\ UNCHANGED getterVars
    BY <1>2 DEF GetDeployStatus, NoJob, ClientFails, PollFails, PollAnswers, getterVars, LoopStep
  <1>3. CASE kind # "cloudrunservice" /\ poll.at # "panicked" /\ WatchStep /\ UNCHANGED <<jobVars, getterVars>>
    BY <1>3 DEF getterVars, LoopStep
  <1>4. CASE Poll
    <2>1. CASE EcsNothing \/ EcsTasks
      BY <2>1, AnswersIsLoopStep DEF EcsNothing, EcsTasks
    <2>2. CASE EcsInitialize \/ EcsGetDeployment
      <3>1. CASE \E status : \E isErr \in BOOLEAN : PollEnds("ecs", status, isErr)
        BY <3>1, PollEndsIsLoopStep
      <3>2. CASE UNCHANGED <<vars, kind>>
        BY <3>2 DEF vars, LoopStep
      <3> QED BY <2>2, <3>1, <3>2 DEF EcsInitialize, EcsGetDeployment, Answers, Fails
    <2>3. CASE BeanstalkPoll \/ CdnPoll
      BY <2>3, AnswersIsLoopStep DEF BeanstalkPoll, CdnPoll
    <2>4. CASE CloudCdnLoadFails \/ CloudCdnLoadFailed \/ OperationsClientFails \/ CloudCdnGet
      BY <2>4, PollEndsIsLoopStep DEF CloudCdnLoadFails, CloudCdnLoadFailed, OperationsClientFails, CloudCdnGet
    <2>5. CASE GetWithoutClient
      BY <2>5 DEF GetWithoutClient, vars, LoopStep
    <2>6. CASE AcaPoll \/ AzureFunctionsPoll \/ BlobPoll
      BY <2>6, AnswersIsLoopStep DEF AcaPoll, AzureFunctionsPoll, BlobPoll
    <2>7. CASE FunctionPoll \/ ComposerPoll
      <3>1. CASE \E k : \E status : \E isErr \in BOOLEAN : PollEnds(k, status, isErr)
        BY <3>1, PollEndsIsLoopStep
      <3>2. CASE LoopFails /\ pc # "returned"
        BY <3>2 DEF LoopFails, getterVars, LoopStep
      <3> QED BY <2>7, <3>1, <3>2 DEF FunctionPoll, ComposerPoll, Answers
    <2> QED BY <1>4, <2>1, <2>2, <2>3, <2>4, <2>5, <2>6, <2>7 DEF Poll
  <1>5. CASE NoClient \/ ServiceNotWatched
    BY <1>5 DEF NoClient, LoopFails, ServiceNotWatched, getterVars, LoopStep
  <1>6. CASE ProviderMoves \/ OperationMoves \/ Panicked \/ (Returned /\ UNCHANGED <<jobVars, getterVars>>)
    BY <1>6 DEF ProviderMoves, OperationMoves, OperationEnds, Panicked, Returned, allVars, vars, getterVars, LoopStep
  <1> QED BY <1>1, <1>2, <1>3, <1>4, <1>5, <1>6 DEF GettersNext

(* The state of the loop, whatever is watched: it has a result exactly when *)
(* it has returned, the timer counts only while it runs, and a service is   *)
(* never polled.                                                            *)
LoopInv ==
  /\ ctx \in {"live", "cancelled", "deadline"}
  /\ now \in Nat /\ timeoutAt \in Nat
  /\ pc \in {"entry", "polling", "select", "returned"}
  /\ pc = "entry" => timeoutAt = 0
  /\ pc = "select" => timeoutAt # 0
  /\ pc \in {"polling", "select"} => reference # NoReference /\ kind # "cloudrunservice" /\ timeoutAt # 0
  /\ pc # "returned" => result = "none" /\ Learned = "none"

LEMMA LoopInvInitially == GettersInit => LoopInv
  BY NoReportVerdict DEF GettersInit, JobInit, WatchInit, LoopInv

LEMMA LoopInvKept == LoopInv /\ LoopStep => LoopInv'
PROOF
  <1> SUFFICES ASSUME LoopInv, LoopStep PROVE LoopInv'
    OBVIOUS
  <1> USE PollingAssumption DEF LoopInv
  <1>0. kind' = kind
    BY DEF LoopStep
  <1>1. ASSUME NEW status, NEW isErr \in BOOLEAN, PollReturns(status, isErr)
        PROVE  LoopInv'
    <2>1. Learned' = Verdict(status, isErr)
      BY <1>1 DEF PollReturns, Learned
    <2> QED BY <1>0, <1>1, <2>1 DEF PollReturns, Return
  <1>2. CASE WatchStep /\ kind # "cloudrunservice"
    <2>1. UNCHANGED report
      BY <1>2 DEF WatchStep, WatchNothing, WatchBegins, SelectCtxDone, SelectTimeout, SelectDelay, Tick, CtxEnds
    <2>2. Learned' = Learned
      BY <2>1, LearnedUnchanged
    <2> QED BY <1>0, <1>2, <2>2
        DEF WatchStep, WatchNothing, WatchBegins, SelectCtxDone, SelectTimeout, SelectDelay, Tick, CtxEnds, Return
  <1>3. CASE LoopFails \/ ServiceNotWatched
    BY <1>0, <1>3 DEF LoopFails, ServiceNotWatched, Return
  <1>4. CASE UNCHANGED watchVars
    BY <1>0, <1>4, LearnedUnchanged DEF watchVars
  <1> QED BY <1>1, <1>2, <1>3, <1>4 DEF LoopStep

-----------------------------------------------------------------------------
(* What the contract sees of the verdict.                                   *)
VerdictOfLoop ==
  IF result = "QueryError" THEN "error"
  ELSE IF kind = "cloudrunservice" /\ pc = "returned" THEN "skipped" ELSE LearnedVerdict

LEMMA LoopContractInit == GettersInit => LoopContract!Init
  BY NoReportVerdict
  DEF GettersInit, JobInit, WatchInit, LoopContract!Init, OutcomeOfLoop, OutcomeOf, LearnedVerdict

LEMMA SameLoopOutcome ==
  ASSUME UNCHANGED <<kind, reference, report, result>>,
         pc' = "returned" <=> pc = "returned"
  PROVE  UNCHANGED <<OutcomeOfLoop(result), VerdictOfLoop>>
  BY SameOutcome DEF VerdictOfLoop

(* While the loop runs, its outcome is pending and nothing is learned.      *)
LEMMA PendingWhileRunning ==
  ASSUME LoopInv, pc # "returned"
  PROVE  OutcomeOfLoop(result) = "pending" /\ VerdictOfLoop = "none"
  BY DEF LoopInv, OutcomeOfLoop, OutcomeOf, VerdictOfLoop, LearnedVerdict

(* The answer of a getter concludes the contract or is not seen by it.      *)
LEMMA AnswerSteps ==
  ASSUME LoopInv, kind' = kind, NEW status, NEW isErr \in BOOLEAN, PollReturns(status, isErr)
  PROVE  [LoopContract!Next]_(LoopContract!outcomeVars)
PROOF
  <1> DEFINE v == Verdict(status, isErr)
  <1>1. v \in {"none", "nil", "ErrFailed", "CancelError"} /\ Learned' = v
    BY VerdictType DEF PollReturns, Learned
  <1>2. /\ pc = "polling" /\ reference # NoReference /\ kind # "cloudrunservice"
        /\ UNCHANGED <<ctx, now, timeoutAt, reference, kind>>
    BY DEF PollReturns, LoopInv
  <1>3. OutcomeOfLoop(result) = "pending" /\ VerdictOfLoop = "none" /\ result = "none"
    BY <1>2, PendingWhileRunning DEF LoopInv
  <1>4. CASE v = "none"
    <2>1. result' = result
      BY <1>4 DEF PollReturns
    <2>2. VerdictOfLoop' = "none" /\ OutcomeOfLoop(result)' = OutcomeOfLoop(result)
      BY <1>1, <1>2, <1>3, <1>4, <2>1 DEF VerdictOfLoop, LearnedVerdict
    <2> QED BY <1>2, <1>3, <2>2 DEF LoopContract!outcomeVars, VerdictOfLoop
  <1>5. CASE v # "none"
    <2>1. result' = v
      BY <1>5 DEF PollReturns, Return
    <2>2. OutcomeOfLoop(v) = OutcomeOf(v) /\ OutcomeOf(v) \in LoopContract!Verdicts
      BY <1>1, <1>5 DEF OutcomeOfLoop, OutcomeOf, LoopContract!Verdicts
    <2>3. OutcomeOfLoop(result)' = OutcomeOf(v) /\ VerdictOfLoop' = OutcomeOf(v)
      BY <1>1, <1>2, <1>5, <2>1, <2>2 DEF VerdictOfLoop, LearnedVerdict
    <2>4. LoopContract!Conclude(OutcomeOf(v))
      BY <1>2, <1>3, <2>3 DEF LoopContract!Conclude, VerdictOfLoop
    <2> QED BY <2>2, <2>4 DEF LoopContract!Next
  <1> QED BY <1>4, <1>5

(* A failing call of a loop of its own concludes the contract with its      *)
(* error; a service that is not watched is skipped.                         *)
LEMMA OwnEndSteps ==
  ASSUME LoopInv, (LoopFails /\ pc # "returned") \/ ServiceNotWatched
  PROVE  LoopContract!Next
PROOF
  <1>1. pc # "returned"
    BY DEF ServiceNotWatched
  <1>2. OutcomeOfLoop(result) = "pending"
    BY <1>1, PendingWhileRunning
  <1>3. CASE LoopFails
    <2>1. LoopContract!Conclude("error")
      BY <1>2, <1>3 DEF LoopFails, Return, LoopContract!Conclude, OutcomeOfLoop
    <2> QED BY <2>1 DEF LoopContract!Next, LoopContract!Verdicts
  <1>4. CASE ServiceNotWatched
    <2>1. LoopContract!Skip
      BY <1>2, <1>4 DEF ServiceNotWatched, Return, getterVars, LoopContract!Skip, OutcomeOfLoop, OutcomeOf
    <2> QED BY <2>1 DEF LoopContract!Next
  <1> QED BY <1>3, <1>4

(* The loop, its caller and the clock.                                      *)
LEMMA LoopStepsOfContract ==
  ASSUME LoopInv, kind' = kind, kind # "cloudrunservice", WatchStep
  PROVE  [LoopContract!Next]_(LoopContract!outcomeVars)
PROOF
  <1>0. pc # "returned" /\ OutcomeOfLoop(result) = "pending" /\ VerdictOfLoop = "none" /\ Learned = "none"
    <2>1. pc # "returned"
      BY DEF WatchStep, WatchNothing, WatchBegins, SelectCtxDone, SelectTimeout, SelectDelay, Tick, CtxEnds
    <2> QED BY <2>1, PendingWhileRunning DEF LoopInv
  <1>1. ASSUME WatchNothing PROVE LoopContract!Skip
    BY <1>0, <1>1 DEF WatchNothing, Return, LoopContract!Skip, OutcomeOfLoop, OutcomeOf, LearnedVerdict
  <1>2. ASSUME WatchBegins PROVE UNCHANGED LoopContract!outcomeVars
    <2>1. timeoutAt = 0 /\ (\E timeout \in Timeouts : timeoutAt' = now + timeout) /\ now' = now /\ ctx' = ctx
      BY <1>2 DEF WatchBegins, LoopInv
    <2>2. ~(now' >= timeoutAt')
      BY <2>1, PollingAssumption DEF LoopInv
    <2>3. Expired' = Expired
      BY <2>1, <2>2 DEF Expired
    <2>4. UNCHANGED <<OutcomeOfLoop(result), VerdictOfLoop>>
      BY <1>2, SameLoopOutcome DEF WatchBegins
    <2> QED BY <2>1, <2>3, <2>4 DEF LoopContract!outcomeVars, Expired, VerdictOfLoop
  <1>3. ASSUME SelectCtxDone \/ SelectTimeout
        PROVE  LoopContract!TimeOut \/ LoopContract!Abort
    <2>1. UNCHANGED <<ctx, now, timeoutAt, reference, report>> /\ reference # NoReference /\ timeoutAt # 0
      BY <1>3 DEF SelectCtxDone, SelectTimeout, LoopInv
    <2>2. Learned' = "none"
      BY <1>0, <2>1, LearnedUnchanged
    <2>3. VerdictOfLoop' = "none"
      BY <1>3, <2>1, <2>2 DEF SelectCtxDone, SelectTimeout, Return, VerdictOfLoop, LearnedVerdict
    <2>4. CASE result' = "ErrTimeout" /\ Expired
      <3>1. OutcomeOfLoop(result)' = "timeout"
        BY <2>4 DEF OutcomeOfLoop, OutcomeOf
      <3> QED BY <1>0, <2>1, <2>3, <2>4, <3>1 DEF LoopContract!TimeOut, Expired, VerdictOfLoop
    <2>5. CASE result' = "CancelError" /\ ctx = "cancelled"
      <3>1. OutcomeOfLoop(result)' = "cancelled"
        BY <2>5 DEF OutcomeOfLoop, OutcomeOf
      <3> QED BY <1>0, <2>1, <2>3, <2>5, <3>1 DEF LoopContract!Abort, VerdictOfLoop
    <2> QED BY <1>3, <2>1, <2>4, <2>5 DEF SelectCtxDone, SelectTimeout, Return, Expired, LoopInv
  <1>4. ASSUME SelectDelay PROVE UNCHANGED LoopContract!outcomeVars
    BY <1>4, SameLoopOutcome DEF SelectDelay, LoopContract!outcomeVars, VerdictOfLoop
  <1>5. ASSUME Tick PROVE LoopContract!Expire \/ UNCHANGED LoopContract!outcomeVars
    <2>1. UNCHANGED <<OutcomeOfLoop(result), VerdictOfLoop, ctx, timeoutAt>>
      BY <1>5, SameLoopOutcome DEF Tick
    <2>2. Expired => Expired'
      BY <1>5, <2>1 DEF Tick, Expired, LoopInv
    <2> QED BY <2>1, <2>2 DEF Expired, VerdictOfLoop, LoopContract!Expire, LoopContract!outcomeVars
  <1>6. ASSUME NEW how \in {"cancelled", "deadline"}, CtxEnds(how)
        PROVE  LoopContract!Expire \/ LoopContract!Cancel
    <2>1. UNCHANGED <<OutcomeOfLoop(result), VerdictOfLoop, now, timeoutAt>>
      BY <1>6, SameLoopOutcome DEF CtxEnds
    <2>2. ctx = "live" /\ ctx' = how
      BY <1>6 DEF CtxEnds
    <2>3. CASE how = "deadline"
      BY <2>1, <2>2, <2>3 DEF LoopContract!Expire, VerdictOfLoop
    <2>4. CASE how = "cancelled"
      BY <2>1, <2>2, <2>4 DEF LoopContract!Cancel, VerdictOfLoop
    <2> QED BY <2>3, <2>4
  <1> QED BY <1>1, <1>2, <1>3, <1>4, <1>5, <1>6 DEF WatchStep, LoopContract!Next

(* Every watcher that polls, the loops of Cloud Functions and Composer and  *)
(* the watcher that waits for nothing included, keeps the promises of a     *)
(* deploy watcher: one outcome, never changed, with a cause of its own.     *)
THEOREM WatchersKeepContract == GettersSpec => WatchersImplementContract
PROOF
  <1>1. LoopInv /\ LoopStep => [LoopContract!Next]_(LoopContract!outcomeVars)
    <2> SUFFICES ASSUME LoopInv, LoopStep
                 PROVE  [LoopContract!Next]_(LoopContract!outcomeVars)
      OBVIOUS
    <2>0. kind' = kind
      BY DEF LoopStep
    <2>1. CASE UNCHANGED watchVars
      BY <2>0, <2>1, SameLoopOutcome DEF watchVars, LoopContract!outcomeVars, VerdictOfLoop
    <2> QED BY <2>0, <2>1, AnswerSteps, OwnEndSteps, LoopStepsOfContract DEF LoopStep
  <1>2. [GettersNext]_allVars => LoopStep
    BY NextIsLoopStep
  <1> QED BY <1>1, <1>2, LoopInvInitially, LoopInvKept, LoopContractInit, PTL
    DEF GettersSpec, WatchersImplementContract, LoopContract!Spec
=============================================================================
