----------------------------- MODULE DeployCall -----------------------------
(***************************************************************************)
(* app.Deployer: what the Deploy methods of every provider have in common. *)
(* A Deploy is a sequence of calls to the provider.  It returns at the     *)
(* first call that fails, and whatever its earlier calls did stays done;   *)
(* the caller may then run it again.  Several pipelines may deploy the     *)
(* same app at a time, each a process of its own.                          *)
(*                                                                         *)
(* The modules that EXTEND this one model the deployers: for each, what    *)
(* the provider keeps (remote), what a Deploy has read (local) and one     *)
(* action per call.                                                        *)
(***************************************************************************)
EXTENDS Naturals, FiniteSets

CONSTANTS
  Deploys,      \* the runs of Deploy: the pipelines that deploy the app
  Versions,     \* the versions they may be asked to deploy
  MaxFailures,  \* bound on the calls that fail, all deploys together
  MaxRetries    \* bound on the times that a caller runs a failed Deploy again

ASSUME DeployAssumption ==
  /\ IsFiniteSet(Deploys)
  /\ MaxFailures \in Nat
  /\ MaxRetries \in Nat

VARIABLES
  app,        \* the provider and what the app's outputs say; never changes
  version,    \* meta.Version of each deploy
  pc,         \* the call that each deploy makes next
  local,      \* what each deploy has read or received
  result,     \* "none", "ok" or "error"
  reference,  \* the string that Deploy returned
  attempt,    \* how often each deploy was run again
  failures,   \* the calls that failed so far
  remote      \* the state of the provider

deployVars == <<app, version, pc, local, result, reference, attempt, failures, remote>>

NoVersion == "no version"
NoReference == <<"empty", 0>>   \* what kind of reference, and which
Nothing == "nothing"     \* nothing read yet
Initially == "v0"        \* the version that runs before any deploy

(* The version that runs before is deployed by none of the deploys: what a *)
(* deploy of it did could not be told from what was there.                 *)
ASSUME VersionAssumption == Initially \notin Versions

DeployInit ==
  /\ version \in [Deploys -> Versions \cup {NoVersion}]
  /\ pc = [d \in Deploys |-> "start"]
  /\ local = [d \in Deploys |-> Nothing]
  /\ result = [d \in Deploys |-> "none"]
  /\ reference = [d \in Deploys |-> NoReference]
  /\ attempt = [d \in Deploys |-> 0]
  /\ failures = 0

(* Deploy d goes on to another call, knowing what it has read.             *)
Goes(d, to, read) ==
  /\ pc' = [pc EXCEPT ![d] = to]
  /\ local' = [local EXCEPT ![d] = read]
  /\ UNCHANGED <<app, version, result, reference, attempt, failures>>

Returns(d, res, ref) ==
  /\ pc' = [pc EXCEPT ![d] = "returned"]
  /\ result' = [result EXCEPT ![d] = res]
  /\ reference' = [reference EXCEPT ![d] = ref]
  /\ local' = [local EXCEPT ![d] = Nothing]
  /\ UNCHANGED <<app, version, attempt>>

Succeeds(d, ref) == Returns(d, "ok", ref) /\ UNCHANGED failures

(* Deploy d gives up by a check of its own.                                *)
GivesUp(d) == Returns(d, "error", NoReference) /\ UNCHANGED failures

(* The provider's call fails, and Deploy returns its error.  As the second *)
(* conjunct of an action that changes remote: the provider did what it was *)
(* asked, and only its answer was lost.                                    *)
CallFails(d) ==
  /\ failures < MaxFailures
  /\ failures' = failures + 1
  /\ Returns(d, "error", NoReference)

(* A version is required to deploy.                                        *)
NoVersionGiven(d) ==
  /\ pc[d] = "start"
  /\ version[d] = NoVersion
  /\ GivesUp(d)
  /\ UNCHANGED remote

(* The caller's pipeline is run again.                                     *)
Retries(d) ==
  /\ pc[d] = "returned"
  /\ result[d] = "error"
  /\ version[d] # NoVersion
  /\ attempt[d] < MaxRetries
  /\ pc' = [pc EXCEPT ![d] = "start"]
  /\ result' = [result EXCEPT ![d] = "none"]
  /\ attempt' = [attempt EXCEPT ![d] = @ + 1]
  /\ UNCHANGED <<app, version, local, reference, failures, remote>>

AllReturned ==
  /\ \A d \in Deploys : pc[d] = "returned"
  /\ UNCHANGED deployVars

(* Whether d is at a call of Deploy with a version to deploy.              *)
At(d, call) == pc[d] = call /\ version[d] # NoVersion
=============================================================================
