----------------------- MODULE K8sServiceWatcher_proofs -----------------------
(* Theorems about K8sServiceWatcher, for every set of addresses and every   *)
(* number of changes of the Endpoints object.                               *)
EXTENDS K8sServiceWatcher, TLAPS

(* The lines that emitDiff writes for two states bring a reader whose view  *)
(* has the members of the first to a view that has those of the second.     *)
LEMMA DiffTellsMembership ==
  ASSUME NEW a, NEW old, NEW new,
         view[a] # "absent" <=> a \in All(old)
  PROVE  Told(Diff(old, new), a) # "absent" <=> a \in All(new)
PROOF
  <1>1. CASE a \in Diff(old, new).PromotedToReady \/ a \in Diff(old, new).DemotedToNotReady
    BY <1>1 DEF Diff, All, Told
  <1>2. CASE a \in Diff(old, new).Removed
    BY <1>2 DEF Diff, All, Told
  <1>3. CASE a \in Diff(old, new).AddedToReady \/ a \in Diff(old, new).AddedToNotReady
    BY <1>3 DEF Diff, All, Told
  <1>4. CASE /\ a \notin Diff(old, new).PromotedToReady
             /\ a \notin Diff(old, new).DemotedToNotReady
             /\ a \notin Diff(old, new).Removed
             /\ a \notin Diff(old, new).AddedToReady
             /\ a \notin Diff(old, new).AddedToNotReady
    <2>1. Told(Diff(old, new), a) = view[a]
      BY <1>4 DEF Told
    <2>2. a \in All(old) <=> a \in All(new)
      BY <1>4 DEF Diff, All
    <2> QED BY <2>1, <2>2
  <1> QED BY <1>1, <1>2, <1>3, <1>4

(* However often addresses join, leave and join again, the lines written so *)
(* far tell which addresses the Service has.                                *)
THEOREM MembershipAlwaysTold == Spec => []MembershipTold
PROOF
  <1>1. Init => MembershipTold
    <2> SUFFICES ASSUME Init, NEW a \in Addresses
                 PROVE  view[a] # "absent" <=> a \in All(prevState)
      BY DEF MembershipTold
    <2>1. view[a] = "absent"
      BY DEF Init
    <2>2. prevState.Ready = {} /\ prevState.NotReady = {}
      BY DEF Init, NoEndpoints
    <2> QED BY <2>1, <2>2 DEF All
  <1>2. MembershipTold /\ [Next]_serviceVars => MembershipTold'
    <2> SUFFICES ASSUME MembershipTold, [Next]_serviceVars PROVE MembershipTold'
      OBVIOUS
    <2>1. CASE EmitDiff
      <3> SUFFICES ASSUME NEW a \in Addresses
                   PROVE  view'[a] # "absent" <=> a \in All(prevState')
        BY DEF MembershipTold, All
      <3>1. view[a] # "absent" <=> a \in All(prevState)
        BY DEF MembershipTold
      <3>2. view'[a] = Told(Diff(prevState, Head(pending)), a) /\ prevState' = Head(pending)
        BY <2>1 DEF EmitDiff
      <3> QED BY <3>1, <3>2, DiffTellsMembership
    <2>2. CASE WatchOpens \/ EndpointsChange \/ WatchEnds \/ Cancel \/ UNCHANGED serviceVars
      <3>1. view' = view /\ prevState' = prevState
        BY <2>2 DEF WatchOpens, EndpointsChange, WatchEnds, Cancel, serviceVars
      <3> QED BY <3>1 DEF MembershipTold, All
    <2> QED BY <2>1, <2>2 DEF Next
  <1> QED BY <1>1, <1>2, PTL DEF Spec
=============================================================================
