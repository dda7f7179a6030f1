-------------------------- MODULE K8sServiceWatcher --------------------------
(***************************************************************************)
(* k8s.ServiceWatcher: follows the Endpoints object of an app's Service in *)
(* a goroutine of its own and tells the user which addresses joined, left  *)
(* or changed their readiness, by comparing each state with the one before.*)
(* What the lines say is kept as the view that a reader of them has.       *)
(***************************************************************************)
EXTENDS Naturals, Sequences

CONSTANTS
  Addresses,   \* the addresses that endpointKey tells apart
  MaxChanges   \* bound on the changes of the Endpoints object

ASSUME ServiceAssumption == MaxChanges \in Nat

VARIABLES
  goroutine,  \* "starting", "watching" or "done"
  ctx,        \* "live", or "cancelled" by the function that Stream returned
  pending,    \* the states of the Endpoints object that the watch has yet to deliver
  changes,    \* how often the object changed
  prevState,  \* the state that was delivered last
  view        \* address -> what the lines so far say of it

serviceVars == <<goroutine, ctx, pending, changes, prevState, view>>

(* EndpointsStateFromSubsets; one address is ready or not, never both.     *)
EndpointsStates ==
  {s \in [Ready : SUBSET Addresses, NotReady : SUBSET Addresses] : s.Ready \cap s.NotReady = {}}

NoEndpoints == [Ready |-> {}, NotReady |-> {}]

All(s) == s.Ready \cup s.NotReady

Init ==
  /\ goroutine = "starting"
  /\ ctx = "live"
  /\ pending = <<>>
  /\ changes = 0
  /\ prevState = NoEndpoints
  /\ view = [a \in Addresses |-> "absent"]

(* Mutant: an address that was never ready is not told to leave.           *)
DiffReadyOnly(a, b) ==
  LET added == All(b) \ All(a)
  IN  [Removed           |-> a.Ready \ All(b),
       AddedToReady      |-> added \ a.NotReady,
       AddedToNotReady   |-> added \cap a.NotReady,
       PromotedToReady   |-> a.NotReady \cap b.Ready,
       DemotedToNotReady |-> a.Ready \cap b.NotReady]

(* EndpointsState.Diff: how the state b differs from a, before it.         *)
Diff(a, b) ==
  LET added == All(b) \ All(a)
  IN  [Removed           |-> All(a) \ All(b),
       AddedToReady      |-> added \ a.NotReady,
       AddedToNotReady   |-> added \cap a.NotReady,
       PromotedToReady   |-> a.NotReady \cap b.Ready,
       DemotedToNotReady |-> a.Ready \cap b.NotReady]

(* emitDiff: of two lines about an address, the later one counts.          *)
Told(diff, a) ==
  CASE a \in diff.PromotedToReady   -> "ready"
    [] a \in diff.DemotedToNotReady -> "not ready"
    [] a \in diff.Removed           -> "absent"
    [] a \in diff.AddedToReady      -> "ready"
    [] a \in diff.AddedToNotReady   -> "not ready"
    [] OTHER                        -> view[a]

(* The watch opens, and delivers the object as it is first; or it fails.   *)
WatchOpens ==
  /\ goroutine = "starting"
  /\ \/ /\ goroutine' = "watching"
        /\ \E s \in EndpointsStates : pending' = <<s>>
     \/ /\ goroutine' = "done"
        /\ UNCHANGED pending
  /\ UNCHANGED <<ctx, changes, prevState, view>>

EndpointsChange ==
  /\ goroutine = "watching"
  /\ changes < MaxChanges
  /\ changes' = changes + 1
  /\ \E s \in EndpointsStates : pending' = Append(pending, s)
  /\ UNCHANGED <<goroutine, ctx, prevState, view>>

EmitDiff ==
  /\ goroutine = "watching"
  /\ pending # <<>>
  /\ view' = [a \in Addresses |-> Told(Diff(prevState, Head(pending)), a)]
  /\ prevState' = Head(pending)
  /\ pending' = Tail(pending)
  /\ UNCHANGED <<goroutine, ctx, changes>>

(* A deletion or an error is delivered after all states; the watch of a    *)
(* cancelled context closes at any time.                                   *)
WatchEnds ==
  /\ goroutine = "watching"
  /\ pending = <<>> \/ ctx = "cancelled"
  /\ goroutine' = "done"
  /\ UNCHANGED <<ctx, pending, changes, prevState, view>>

(* Watch returns and cancels; it does not wait for the goroutine.          *)
Cancel ==
  /\ ctx = "live"
  /\ ctx' = "cancelled"
  /\ UNCHANGED <<goroutine, pending, changes, prevState, view>>

Next ==
  \/ WatchOpens
  \/ EndpointsChange
  \/ EmitDiff
  \/ WatchEnds
  \/ Cancel

Spec == Init /\ [][Next]_serviceVars

-----------------------------------------------------------------------------
(* "This streams changes to the Endpoints object (additions, removals)"    *)
(* (service_watcher.go:23): from the lines alone a reader knows, after     *)
(* every delivery, which addresses the Service has, across any sequence of *)
(* joining, leaving and joining again.                                     *)
MembershipTold == \A a \in Addresses : view[a] # "absent" <=> a \in All(prevState)
=============================================================================
