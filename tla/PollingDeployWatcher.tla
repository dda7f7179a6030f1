------------------------ MODULE PollingDeployWatcher ------------------------
(***************************************************************************)
(* app.PollingDeployWatcher: the loop that watches a deployment by asking  *)
(* a DeployStatusGetter for its status, again and again, until the status  *)
(* is final, the caller's context ends or the watcher's own timer fires.   *)
(*                                                                         *)
(* The status getter is a parameter here: GetDeployStatus is a call in     *)
(* flight (pc = "polling") that may return any pair of Reports.  Modules   *)
(* that model one getter extend this module and conjoin PollReturns with   *)
(* the state of theirs.                                                    *)
(***************************************************************************)
EXTENDS Naturals

CONSTANTS
  References,   \* the deployment references a Deployer may have returned
  Reports,      \* the <<status, is error>> pairs the getter may return
  Delay,        \* pause between two polls (5s unless overridden)
  Timeouts,     \* the longest watches a watcher may be configured with (15m by default)
  MaxTime       \* bound on the clock, for TLC

(* app/rollout_status.go *)
RolloutStatuses ==
  {"complete", "pending", "in-progress", "failed", "cancelled", "unknown"}

ASSUME PollingAssumption ==
  /\ Reports \subseteq RolloutStatuses \X BOOLEAN
  /\ Delay \in Nat \ {0}
  /\ Timeouts \subseteq Nat \ {0}
  /\ MaxTime \in Nat

VARIABLES
  reference,  \* the argument of Watch; NoReference when it is empty
  ctx,        \* the caller's context: "live", "cancelled" or "deadline"
  now,        \* the clock
  pc,         \* where Watch is: "entry", "polling", "select" or "returned"
  timeoutAt,  \* when the channel t1 of time.After(timeout) fires
  wakeAt,     \* when the channel of time.After(delay) fires
  report,     \* what GetDeployStatus returned last
  result,     \* the return value of Watch
  getter      \* the status getter: "open", "closed" by StatusGetter.Close

watchVars == <<reference, ctx, now, pc, timeoutAt, wakeAt, report, result, getter>>

(* The empty string: a deployment with nothing to wait for.                *)
NoReference == "empty"

NoReport == <<"none", FALSE>>

WatchInit ==
  /\ reference \in References \cup {NoReference}
  /\ ctx = "live"
  /\ now = 0
  /\ pc = "entry"
  /\ timeoutAt = 0
  /\ wakeAt = 0
  /\ report = NoReport
  /\ result = "none"
  /\ getter = "open"

(* Leaving Watch runs the deferred Close of the status getter.             *)
Return(r) ==
  /\ pc' = "returned"
  /\ result' = r
  /\ getter' = "closed"

(* An empty reference: there is nothing to become healthy.                 *)
WatchNothing ==
  /\ pc = "entry"
  /\ reference = NoReference
  /\ Return("nil")
  /\ UNCHANGED <<reference, ctx, now, timeoutAt, wakeAt, report>>

(* The timer is armed once, before the loop, and the first poll starts.    *)
WatchBegins ==
  /\ pc = "entry"
  /\ reference # NoReference
  /\ \E timeout \in Timeouts : timeoutAt' = now + timeout
  /\ pc' = "polling"
  /\ UNCHANGED <<reference, ctx, now, wakeAt, report, result, getter>>

(* The statuses that end the watch, and what it then returns.  An error    *)
(* hides every status but "cancelled"; a "cancelled" without an error is   *)
(* not final.                                                              *)
Verdict(status, isErr) ==
  CASE isErr /\ status = "cancelled" -> "CancelError"
    [] ~isErr /\ status = "failed"   -> "ErrFailed"
    [] ~isErr /\ status = "complete" -> "nil"
    [] OTHER                         -> "none"

(* What the last poll settled, "none" if nothing.                          *)
Learned == Verdict(report[1], report[2])

(* GetDeployStatus returns: the watch ends, or the select is entered and   *)
(* arms a fresh delay timer.                                               *)
PollReturns(status, isErr) ==
  /\ pc = "polling"
  /\ report' = <<status, isErr>>
  /\ \/ /\ Verdict(status, isErr) # "none"
        /\ Return(Verdict(status, isErr))
        /\ UNCHANGED wakeAt
     \/ /\ Verdict(status, isErr) = "none"
        /\ pc' = "select"
        /\ wakeAt' = now + Delay
        /\ UNCHANGED <<result, getter>>
  /\ UNCHANGED <<reference, ctx, now, timeoutAt>>

(* Mutants of the select: what a slip in its branches would do.  They only *)
(* serve to show that the properties below can fail.                       *)
SelectCtxDoneIsCancel ==
  /\ pc = "select" /\ ctx # "live"
  /\ Return("CancelError")
  /\ UNCHANGED <<reference, ctx, now, timeoutAt, wakeAt, report>>

SelectCtxDeadlineOnly ==
  /\ pc = "select" /\ ctx = "deadline"
  /\ Return("ErrTimeout")
  /\ UNCHANGED <<reference, ctx, now, timeoutAt, wakeAt, report>>

SelectTimeoutEarly ==
  /\ pc = "select"
  /\ Return("ErrTimeout")
  /\ UNCHANGED <<reference, ctx, now, timeoutAt, wakeAt, report>>

SelectTimeoutUnmapped ==
  /\ pc = "select" /\ now >= timeoutAt
  /\ Return("timeout")
  /\ UNCHANGED <<reference, ctx, now, timeoutAt, wakeAt, report>>

SelectDelayRearms ==
  /\ pc = "select" /\ (now >= wakeAt \/ now = MaxTime)
  /\ pc' = "polling"
  /\ \E timeout \in Timeouts : timeoutAt' = now + timeout
  /\ UNCHANGED <<reference, ctx, now, wakeAt, report, result, getter>>

(* The three branches of the select.  When several channels are ready, the *)
(* runtime picks any of them.                                              *)
SelectCtxDone ==
  /\ pc = "select"
  /\ ctx # "live"
  /\ Return(IF ctx = "deadline" THEN "ErrTimeout" ELSE "CancelError")
  /\ UNCHANGED <<reference, ctx, now, timeoutAt, wakeAt, report>>

SelectTimeout ==
  /\ pc = "select"
  /\ now >= timeoutAt
  /\ Return("ErrTimeout")
  /\ UNCHANGED <<reference, ctx, now, timeoutAt, wakeAt, report>>

(* At MaxTime the clock is no longer counted and every delay has passed.   *)
SelectDelay ==
  /\ pc = "select"
  /\ now >= wakeAt \/ now = MaxTime
  /\ pc' = "polling"
  /\ UNCHANGED <<reference, ctx, now, timeoutAt, wakeAt, report, result, getter>>

(* The environment: the clock runs while Watch does, and the caller's      *)
(* context may end once, by cancellation or by its own deadline.           *)
Tick ==
  /\ pc \in {"polling", "select"}
  /\ now < MaxTime
  /\ now' = now + 1
  /\ UNCHANGED <<reference, ctx, pc, timeoutAt, wakeAt, report, result, getter>>

CtxEnds(how) ==
  /\ ctx = "live"
  /\ pc # "returned"
  /\ ctx' = how
  /\ UNCHANGED <<reference, now, pc, timeoutAt, wakeAt, report, result, getter>>

(* Everything Watch and its caller do besides the poll itself.             *)
WatchStep ==
  \/ WatchNothing
  \/ WatchBegins
  \/ SelectCtxDone
  \/ SelectTimeout
  \/ SelectDelay
  \/ Tick
  \/ \E how \in {"cancelled", "deadline"} : CtxEnds(how)

(* Watch has returned and takes no further step.                           *)
Returned == pc = "returned" /\ UNCHANGED watchVars

WatchNext ==
  \/ WatchStep
  \/ \E r \in Reports : PollReturns(r[1], r[2])
  \/ Returned

WatchSpec == WatchInit /\ [][WatchNext]_watchVars

(***************************************************************************)
(* Fairness.  Goroutines that can run do; the clock advances; the status   *)
(* getter answers (a call that hangs forever hangs Watch: nothing in the   *)
(* loop bounds it).  Go's select picks uniformly among ready channels, so  *)
(* a channel that is ready at every select is picked eventually, although  *)
(* the delay channel may be ready too: strong fairness.                    *)
(***************************************************************************)
SelectFairness ==
  /\ SF_watchVars(SelectCtxDone)
  /\ SF_watchVars(SelectTimeout)
  /\ WF_watchVars(SelectDelay)

WatchFairness ==
  /\ WF_watchVars(WatchNothing \/ WatchBegins)
  /\ WF_watchVars(\E r \in Reports : PollReturns(r[1], r[2]))
  /\ WF_watchVars(Tick)
  /\ SelectFairness

FairWatchSpec == WatchSpec /\ WatchFairness

-----------------------------------------------------------------------------
(* The types of the variables: what Watch can return, and no final status  *)
(* outside the ones that a getter reports.                                 *)
WatchTypeOK ==
  /\ reference \in References \cup {NoReference}
  /\ ctx \in {"live", "cancelled", "deadline"}
  /\ now \in Nat
  /\ pc \in {"entry", "polling", "select", "returned"}
  /\ timeoutAt \in Nat
  /\ wakeAt \in Nat
  /\ report \in Reports \cup {NoReport}
  /\ result \in {"none", "nil", "ErrFailed", "CancelError", "ErrTimeout"}
  /\ getter \in {"open", "closed"}

(* The timer counts from the start of the watch, never from a poll.        *)
TimerArmed == reference # NoReference /\ pc # "entry"

LongEnough(time) == \E timeout \in Timeouts : time >= timeout

(* The return values Watch documents (polling_deploy_watcher.go:47-54): a  *)
(* verdict only if the last poll gave it, a cancellation only if the       *)
(* deployment was evicted or the caller cancelled, a timeout only if a     *)
(* deadline has passed, and never a final status left unreported.          *)
OutcomeJustified ==
  /\ pc = "returned" => result # "none"
  /\ Learned # "none" => result = Learned
  /\ result = "nil" => reference = NoReference \/ Learned = "nil"
  /\ result = "ErrFailed" => Learned = "ErrFailed"
  /\ result = "CancelError" => Learned = "CancelError" \/ ctx = "cancelled"
  /\ result = "ErrTimeout" =>
       ctx = "deadline" \/ (TimerArmed /\ now >= timeoutAt /\ LongEnough(now))

(***************************************************************************)
(* The refinement of DeployOutcome.                                        *)
(***************************************************************************)
OutcomeOf(r) ==
  CASE r = "nil"         -> "complete"
    [] r = "ErrFailed"   -> "failed"
    [] r = "CancelError" -> "cancelled"
    [] r = "ErrTimeout"  -> "timeout"
    [] r = "none"        -> "pending"

LearnedVerdict ==
  IF reference = NoReference /\ pc = "returned" THEN "skipped"
  ELSE IF Learned = "none" THEN "none" ELSE OutcomeOf(Learned)

Contract == INSTANCE DeployOutcome WITH
  outcome   <- OutcomeOf(result),
  verdict   <- LearnedVerdict,
  expired   <- ctx = "deadline" \/ (timeoutAt # 0 /\ now >= timeoutAt),
  cancelled <- ctx = "cancelled"

(* The polling loop implements the contract of a deploy watcher.           *)
ImplementsContract == Contract!Spec

(* The timer bounds the watch: whatever the provider answers and however   *)
(* the select chooses, a watch whose timeout the clock can reach returns.  *)
WatchEnds == (pc # "entry" /\ timeoutAt <= MaxTime) ~> (pc = "returned")

(* A cancelled or expired context ends the watch even when the timer is    *)
(* far away.                                                               *)
ContextHeeded == (ctx # "live") ~> (pc = "returned")
=============================================================================
