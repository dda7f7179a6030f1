---------------------------- MODULE Statusers_proofs ----------------------------
(* Theorems about Statusers: for any number of calls, failing requests and *)
(* steps of the provider in between.                                       *)
EXTENDS Statusers, FiniteSetTheorems, WellFoundedInduction, TLAPS

-----------------------------------------------------------------------------
(* What a step of one call does to the variables of all.                   *)

Functional ==
  /\ pc = [c \in Calls |-> pc[c]] /\ read = [c \in Calls |-> read[c]]
  /\ result = [c \in Calls |-> result[c]] /\ shown = [c \in Calls |-> shown[c]]

(* Nothing is done by a call but by those of S.                            *)
OnlyBy(S) ==
  /\ app' = app /\ asked' = asked /\ Functional'
  /\ \A d \in Calls \ S : pc'[d] = pc[d] /\ read'[d] = read[d] /\ result'[d] = result[d] /\ shown'[d] = shown[d]

(* Call c goes on to a request, having read x.                             *)
Proceeds(c, to, x) ==
  /\ OnlyBy({c})
  /\ pc'[c] = to /\ read'[c] = x /\ result'[c] = result[c] /\ shown'[c] = shown[c]

Finishes(c, res, view) ==
  /\ OnlyBy({c})
  /\ pc'[c] = "returned" /\ result'[c] = res /\ shown'[c] = view

(* Call c returns without a view.                                          *)
Fails(c) == Finishes(c, "error", Nothing) \/ Finishes(c, "panic", Nothing)

LEMMA GoesProceeds ==
  ASSUME Functional, NEW c \in Calls, NEW to, NEW x, Goes(c, to, x) \/ GoesWithout(c, to, x)
  PROVE  Proceeds(c, to, x)
  BY DEF Goes, GoesWithout, Proceeds, OnlyBy, Functional

LEMMA EndsFinishes ==
  ASSUME Functional, NEW c \in Calls, NEW res, NEW view, Ends(c, res, view)
  PROVE  Finishes(c, res, view)
  BY DEF Ends, Finishes, OnlyBy, Functional

LEMMA ReturnsFinishes ==
  ASSUME Functional, NEW c \in Calls, NEW view, Returns(c, view)
  PROVE  Finishes(c, "ok", view)
  BY EndsFinishes DEF Returns

LEMMA RefusesFails ==
  ASSUME Functional, NEW c \in Calls, Refuses(c) \/ Panics(c) \/ CallFails(c)
  PROVE  Fails(c)
  BY EndsFinishes DEF Refuses, Panics, CallFails, Fails

LEMMA MovesAlone ==
  ASSUME Functional, NEW to, Moves(to)
  PROVE  OnlyBy({}) /\ cloud' = to
  BY DEF Moves, OnlyBy, Functional

-----------------------------------------------------------------------------
(* Cloud Run services.  An action holds what the service has, as long as   *)
(* the etag that it has read is the one of the service; a view that is     *)
(* Failing has seen a revision that failed, and that one has for ever.     *)
Revision == [ready : {"ready", "unknown", "failed"}, instances : BOOLEAN]

SomeFailed == \E r \in DOMAIN cloud.revs : cloud.revs[r].ready = "failed"

ServiceFields ==
  /\ cloud = [revs |-> cloud.revs, traffic |-> cloud.traffic, stamp |-> cloud.stamp, etag |-> cloud.etag,
              stamped |-> cloud.stamped, routed |-> cloud.routed]
  /\ cloud.revs \in Seq(Revision)
  /\ cloud.etag \in Nat

(* What a call has read, at the call "at".                                 *)
ReadOfService(at, x) ==
  /\ at = "update" => /\ x.etag \in Nat /\ x.etag <= cloud.etag
                      /\ x.etag = cloud.etag => x.stamp = cloud.stamp /\ x.traffic = cloud.traffic
  /\ at \in {"instances", "requests"} =>
       /\ DOMAIN x = {"revisions", "state", "counted", "warm"}
       /\ x.state \in {"Failing", "Healthy"}
       /\ x.state = "Failing" => SomeFailed

ReasonOf(view) ==
  /\ (view.state = "Failing") => SomeFailed
  /\ (view.state = "Degraded") => app.load = "failing"
  /\ (view.state = "Cold" /\ view.counted) => app.load = "none"

ServiceCall(c) ==
  /\ ReadOfService(pc[c], read[c])
  /\ Shows(c, "Status") => ReasonOf(shown[c])

ServiceInv ==
  IsCloudRunService =>
    /\ ServiceFields
    /\ cloud.stamp = cloud.stamped /\ cloud.traffic = cloud.routed
    /\ \A c \in Calls : ServiceCall(c)

LEMMA ServiceInit == ServiceStatusInit => ServiceInv
PROOF
  <1> SUFFICES ASSUME ServiceStatusInit PROVE ServiceInv
    OBVIOUS
  <1> DEFINE first == [ready |-> "ready", instances |-> app.load # "none"]
  <1>1. first \in Revision /\ <<first>> \in Seq(Revision)
    BY DEF Revision
  <1>2. cloud = [revs |-> <<first>>, traffic |-> <<Target(Latest, 100)>>, stamp |-> 0, etag |-> 0,
                 stamped |-> 0, routed |-> <<Target(Latest, 100)>>]
    BY DEF ServiceStatusInit
  <1> HIDE DEF first
  <1>3. ServiceFields /\ cloud.stamp = cloud.stamped /\ cloud.traffic = cloud.routed
    BY <1>1, <1>2 DEF ServiceFields
  <1>4. \A c \in Calls : pc[c] = "start" /\ result[c] = "none"
    BY DEF ServiceStatusInit, CallsInit
  <1> QED BY <1>3, <1>4 DEF ServiceInv, ServiceCall, ReadOfService, Shows

(* What a service has had, it keeps, but for a write with a new etag.      *)
ServiceGoesOn ==
  /\ SomeFailed => SomeFailed'
  /\ cloud'.etag >= cloud.etag
  /\ cloud'.etag = cloud.etag => cloud'.stamp = cloud.stamp /\ cloud'.traffic = cloud.traffic

LEMMA ServiceOthers ==
  ASSUME ServiceFields, ServiceFields', ServiceGoesOn, NEW S, OnlyBy(S), NEW d \in Calls \ S, ServiceCall(d)
  PROVE  ServiceCall(d)'
PROOF
  <1>1. ReadOfService(pc[d], read[d])'
    BY DEF ServiceFields, ServiceGoesOn, OnlyBy, ServiceCall, ReadOfService
  <1>2. ASSUME Shows(d, "Status")' PROVE ReasonOf(shown[d])'
    <2>1. ReasonOf(shown[d])
      BY <1>2 DEF OnlyBy, ServiceCall, Shows
    <2> QED BY <2>1 DEF ReasonOf, ServiceGoesOn, OnlyBy
  <1> QED BY <1>1, <1>2 DEF ServiceCall

(* A step of call c, of which only its own claims are left to show.        *)
LEMMA ServiceRests ==
  ASSUME ServiceInv, IsCloudRunService, UNCHANGED cloud, NEW S, OnlyBy(S), \A c \in S \cap Calls : ServiceCall(c)'
  PROVE  ServiceInv'
PROOF
  <1>1. ServiceFields /\ ServiceFields' /\ ServiceGoesOn
    BY SMT DEF ServiceInv, ServiceFields, ServiceGoesOn, SomeFailed
  <1>2. \A d \in Calls \ S : ServiceCall(d)'
    BY <1>1, ServiceOthers DEF ServiceInv
  <1> QED BY <1>1, <1>2 DEF ServiceInv

LEMMA ServiceProceeds ==
  ASSUME ServiceInv, IsCloudRunService, UNCHANGED cloud, NEW c \in Calls, NEW to, NEW x, Proceeds(c, to, x), ReadOfService(to, x)
  PROVE  ServiceInv'
PROOF
  <1>1. OnlyBy({c}) /\ app' = app /\ asked' = asked
    BY DEF Proceeds, OnlyBy
  <1>2. ReadOfService(pc[c], read[c])'
    BY DEF Proceeds, ReadOfService, SomeFailed
  <1>3. Shows(c, "Status")' => Shows(c, "Status")
    BY <1>1 DEF Proceeds, Shows
  <1>4. ASSUME Shows(c, "Status")' PROVE ReasonOf(shown[c])'
    <2>1. ReasonOf(shown[c])
      BY <1>3, <1>4 DEF ServiceInv, ServiceCall
    <2> QED BY <2>1, <1>1 DEF ReasonOf, SomeFailed, Proceeds
  <1> QED BY <1>1, <1>2, <1>4, ServiceRests DEF ServiceCall

LEMMA ServiceFinishes ==
  ASSUME ServiceInv, IsCloudRunService, UNCHANGED cloud, NEW c \in Calls, NEW res, NEW view, Finishes(c, res, view),
         res = "ok" /\ asked[c] = "Status" => ReasonOf(view)
  PROVE  ServiceInv'
PROOF
  <1>1. OnlyBy({c}) /\ app' = app /\ asked' = asked
    BY DEF Finishes, OnlyBy
  <1>2. ReadOfService(pc[c], read[c])'
    BY DEF Finishes, ReadOfService
  <1>4. ASSUME Shows(c, "Status")' PROVE ReasonOf(shown[c])'
    <2>1. ReasonOf(view)
      BY <1>1, <1>4 DEF Finishes, Shows
    <2> QED BY <2>1, <1>1 DEF ReasonOf, SomeFailed, Finishes
  <1> QED BY <1>1, <1>2, <1>4, ServiceRests DEF ServiceCall

LEMMA ServiceFails ==
  ASSUME ServiceInv, IsCloudRunService, UNCHANGED cloud, NEW c \in Calls, Fails(c)
  PROVE  ServiceInv'
  BY ServiceFinishes DEF Fails

(* The revisions change by themselves; one that failed stays so.           *)
LEMMA RevisionChanges ==
  ASSUME ServiceInv, IsCloudRunService, OnlyBy({}), NEW r \in DOMAIN cloud.revs, NEW rev \in Revision,
         cloud.revs[r].ready # "failed",
         cloud' = [revs |-> [cloud.revs EXCEPT ![r] = rev], traffic |-> cloud.traffic, stamp |-> cloud.stamp,
                   etag |-> cloud.etag, stamped |-> cloud.stamped, routed |-> cloud.routed]
  PROVE  ServiceInv'
PROOF
  <1> DEFINE revs == [cloud.revs EXCEPT ![r] = rev]
  <1>1. ServiceFields
    BY DEF ServiceInv
  <1>2. revs \in Seq(Revision) /\ DOMAIN revs = DOMAIN cloud.revs
        /\ \A i \in DOMAIN cloud.revs : i # r => revs[i] = cloud.revs[i]
    BY <1>1 DEF ServiceFields
  <1> HIDE DEF revs
  <1>3. cloud' = [revs |-> revs, traffic |-> cloud.traffic, stamp |-> cloud.stamp,
                   etag |-> cloud.etag, stamped |-> cloud.stamped, routed |-> cloud.routed]
    BY DEF revs
  <1>4. ServiceFields'
    BY <1>1, <1>2, <1>3 DEF ServiceFields
  <1>5. SomeFailed => SomeFailed'
    BY <1>2, <1>3 DEF SomeFailed
  <1>6. ServiceGoesOn
    BY <1>1, <1>3, <1>5 DEF ServiceGoesOn, ServiceFields
  <1>7. \A d \in Calls : ServiceCall(d)'
    BY <1>1, <1>4, <1>6, ServiceOthers DEF ServiceInv
  <1> QED BY <1>3, <1>4, <1>7 DEF ServiceInv

LEMMA ServiceMoves ==
  ASSUME ServiceInv, IsCloudRunService, Functional, RevisionSettles \/ RevisionScales
  PROVE  ServiceInv' /\ OnlyBy({})
PROOF
  <1>1. ServiceFields
    BY DEF ServiceInv
  <1>2. CASE RevisionSettles
    <2>1. PICK r \in DOMAIN cloud.revs, to \in {"ready", "failed"} :
            /\ cloud.revs[r].ready = "unknown"
            /\ Moves([cloud EXCEPT !.revs[r] = [ready |-> to, instances |-> (to = "ready")]])
      BY <1>2 DEF RevisionSettles
    <2> DEFINE rev == [ready |-> to, instances |-> (to = "ready")]
    <2>2. rev \in Revision
      BY DEF Revision
    <2>3. OnlyBy({}) /\ cloud' = [cloud EXCEPT !.revs[r] = [ready |-> to, instances |-> (to = "ready")]]
      BY <2>1, MovesAlone
    <2>4. cloud.revs \in Seq(Revision) /\ cloud.revs[r] \in Revision
      BY <1>1 DEF ServiceFields
    <2>5. cloud' = [cloud EXCEPT !.revs = [cloud.revs EXCEPT ![r] = rev]]
      BY <1>1, <2>3, <2>4 DEF Revision, ServiceFields
    <2> HIDE DEF rev
    <2>6. cloud' = [revs |-> [cloud.revs EXCEPT ![r] = rev], traffic |-> cloud.traffic, stamp |-> cloud.stamp,
                   etag |-> cloud.etag, stamped |-> cloud.stamped, routed |-> cloud.routed]
      BY <1>1, <2>5 DEF ServiceFields
    <2> QED BY <2>1, <2>2, <2>3, <2>6, RevisionChanges
  <1>3. CASE RevisionScales
    <2>1. PICK r \in DOMAIN cloud.revs :
            /\ cloud.revs[r].ready = "ready"
            /\ Moves([cloud EXCEPT !.revs[r] = [ready |-> "ready", instances |-> ~@.instances]])
      BY <1>3 DEF RevisionScales
    <2> DEFINE rev == [ready |-> "ready", instances |-> ~cloud.revs[r].instances]
    <2>2. rev \in Revision
      BY DEF Revision
    <2>3. OnlyBy({}) /\ cloud' = [cloud EXCEPT !.revs[r] = [ready |-> "ready", instances |-> ~@.instances]]
      BY <2>1, MovesAlone
    <2>4. cloud.revs \in Seq(Revision) /\ cloud.revs[r] \in Revision
      BY <1>1 DEF ServiceFields
    <2>5. cloud' = [cloud EXCEPT !.revs = [cloud.revs EXCEPT ![r] = rev]]
      BY <1>1, <2>1, <2>3, <2>4 DEF Revision, ServiceFields
    <2> HIDE DEF rev
    <2>6. cloud' = [revs |-> [cloud.revs EXCEPT ![r] = rev], traffic |-> cloud.traffic, stamp |-> cloud.stamp,
                   etag |-> cloud.etag, stamped |-> cloud.stamped, routed |-> cloud.routed]
      BY <1>1, <2>5 DEF ServiceFields
    <2> QED BY <2>1, <2>2, <2>3, <2>6, RevisionChanges
  <1> QED BY <1>2, <1>3

LEMMA ServiceViews ==
  ASSUME ServiceInv, IsCloudRunService, Functional, NEW c \in Calls,
         GetService(c) \/ ListRevisions(c) \/ ApplyInstanceCounts(c) \/ ApplyRequestMetrics(c) \/ MetricsFail(c)
  PROVE  ServiceInv' /\ \E S : OnlyBy(S)
PROOF
  <1>1. ServiceFields /\ ReadOfService(pc[c], read[c])
    BY DEF ServiceInv, ServiceCall
  <1>2. CASE GetService(c)
    <2>1. PICK x : Proceeds(c, "revisions", x) /\ cloud' = cloud
      BY <1>2, GoesProceeds DEF GetService
    <2>2. ReadOfService("revisions", x)
      BY DEF ReadOfService
    <2> QED BY <2>1, <2>2, ServiceProceeds DEF Proceeds
  <1>3. CASE ListRevisions(c)
    <2> DEFINE view == MapRevisions(c)
               x == [revisions |-> view, state |-> StateOf(view), counted |-> FALSE, warm |-> FALSE]
    <2>1. cloud' = cloud
      BY <1>3 DEF ListRevisions
    <2>2. CASE asked[c] = "StatusOverview"
      <3>1. PICK y : Finishes(c, "ok", y)
        BY <1>3, <2>2, ReturnsFinishes DEF ListRevisions
      <3> QED BY <2>1, <2>2, <3>1, ServiceFinishes DEF Finishes
    <2>3. CASE asked[c] # "StatusOverview"
      <3>1. Proceeds(c, "instances", x)
        BY <1>3, <2>3, GoesProceeds DEF ListRevisions
      <3>2. StateOf(view) \in {"Failing", "Healthy"}
        BY DEF StateOf
      <3>3. ASSUME StateOf(view) = "Failing" PROVE SomeFailed
        <4>1. PICK v \in MapRevisions(c) : v.role = "Failed"
          BY <3>3 DEF StateOf
        <4>2. PICK r \in DOMAIN cloud.revs : v = MapRevision(r, read[c])
          BY <4>1 DEF MapRevisions
        <4>3. DeriveRevisionRole(cloud.revs[r].ready, r = read[c].latest, TrafficOf(read[c].traffic, r)) = "Failed"
          BY <4>1, <4>2 DEF MapRevision
        <4>4. cloud.revs[r].ready = "failed"
          BY <4>3 DEF DeriveRevisionRole
        <4> QED BY <4>4 DEF SomeFailed
      <3> HIDE DEF view
      <3>4. ReadOfService("instances", x)
        BY <3>2, <3>3 DEF ReadOfService
      <3> HIDE DEF x
      <3> QED BY <2>1, <3>1, <3>4, ServiceProceeds DEF Proceeds
    <2> QED BY <2>2, <2>3
  <1>4. CASE ApplyInstanceCounts(c)
    <2>0. PICK warm : warm = \E v \in read[c].revisions : cloud.revs[v.name].instances
      OBVIOUS
    <2> DEFINE r == [read[c] EXCEPT !.counted = TRUE, !.warm = warm]
    <2>1. Proceeds(c, "requests", r) /\ cloud' = cloud /\ pc[c] = "instances"
      BY <1>4, <2>0, GoesProceeds DEF ApplyInstanceCounts
    <2>2. DOMAIN r = {"revisions", "state", "counted", "warm"} /\ r.state = read[c].state
      BY <1>1, <2>1 DEF ReadOfService
    <2> HIDE DEF r
    <2>3. ReadOfService("requests", r)
      BY <1>1, <2>1, <2>2 DEF ReadOfService
    <2> QED BY <2>1, <2>2, <2>3, ServiceProceeds DEF Proceeds
  <1>5. CASE ApplyRequestMetrics(c)
    <2> DEFINE state == RefineServiceState(read[c], app.load)
               view == [read[c] EXCEPT !.state = state]
    <2>1. Finishes(c, "ok", view) /\ cloud' = cloud /\ pc[c] = "requests"
      BY <1>5, ReturnsFinishes DEF ApplyRequestMetrics
    <2>2. /\ state = "Failing" => SomeFailed
          /\ state = "Degraded" => app.load = "failing"
          /\ state = "Cold" => app.load = "none"
      BY <1>1, <2>1 DEF ReadOfService, RefineServiceState
    <2> HIDE DEF state
    <2>3. view.state = state
      BY <1>1, <2>1 DEF ReadOfService
    <2>4. ReasonOf(view)
      BY <2>2, <2>3 DEF ReasonOf
    <2> HIDE DEF view
    <2> QED BY <2>1, <2>4, ServiceFinishes DEF Finishes
  <1>6. CASE MetricsFail(c)
    <2>1. CASE pc[c] = "instances" /\ GoesWithout(c, "requests", read[c])
      <3>1. Proceeds(c, "requests", read[c]) /\ cloud' = cloud
        BY <2>1, GoesProceeds DEF GoesWithout
      <3>2. ReadOfService("requests", read[c])
        BY <1>1, <2>1 DEF ReadOfService
      <3> QED BY <3>1, <3>2, ServiceProceeds DEF Proceeds
    <2>2. CASE /\ pc[c] = "requests"
               /\ Ends(c, "ok", [read[c] EXCEPT !.state = RefineServiceState(read[c], "none"), !.counted = FALSE])
               /\ UNCHANGED cloud
      <3> DEFINE state == RefineServiceState(read[c], "none")
                 view == [read[c] EXCEPT !.state = state, !.counted = FALSE]
      <3>1. Finishes(c, "ok", view) /\ cloud' = cloud
        BY <2>2, EndsFinishes
      <3>2. (state = "Failing" => SomeFailed) /\ state # "Degraded"
        BY <1>1, <2>2 DEF ReadOfService, RefineServiceState
      <3> HIDE DEF state
      <3>3. view.state = state /\ view.counted = FALSE
        BY <1>1, <2>2 DEF ReadOfService
      <3>4. ReasonOf(view)
        BY <3>2, <3>3 DEF ReasonOf
      <3> HIDE DEF view
      <3> QED BY <3>1, <3>4, ServiceFinishes DEF Finishes
    <2> QED BY <1>6, <2>1, <2>2 DEF MetricsFail
  <1> QED BY <1>2, <1>3, <1>4, <1>5, <1>6

(* A write is refused unless the etag is still the one that was read.      *)
LEMMA ServiceWritten ==
  ASSUME ServiceInv, IsCloudRunService, NEW c \in Calls, NEW S, S \subseteq {c}, OnlyBy(S), NEW revs \in Seq(Revision),
         SomeFailed => \E r \in DOMAIN revs : revs[r].ready = "failed",
         NEW stamp, NEW traffic,
         cloud' = [revs |-> revs, traffic |-> traffic, stamp |-> stamp, etag |-> cloud.etag + 1, stamped |-> stamp, routed |-> traffic],
         pc'[c] \in {"returned", "wait"}, Shows(c, "Status")' => Shows(c, "Status") /\ shown'[c] = shown[c]
  PROVE  ServiceInv'
PROOF
  <1>1. ServiceFields /\ ServiceFields' /\ ServiceGoesOn
    BY DEF ServiceInv, ServiceFields, ServiceGoesOn, SomeFailed
  <1>2. \A d \in Calls \ {c} : ServiceCall(d)'
    <2>1. OnlyBy({c})
      BY DEF OnlyBy
    <2> QED BY <1>1, <2>1, ServiceOthers DEF ServiceInv
  <1>3. ReadOfService(pc[c], read[c])'
    BY DEF ReadOfService
  <1>4. ASSUME Shows(c, "Status")' PROVE ReasonOf(shown[c])'
    <2>1. ReasonOf(shown[c]) /\ shown'[c] = shown[c]
      BY <1>4 DEF ServiceInv, ServiceCall
    <2> QED BY <1>1, <2>1 DEF ReasonOf, ServiceGoesOn, OnlyBy
  <1>5. cloud'.stamp = cloud'.stamped /\ cloud'.traffic = cloud'.routed
    OBVIOUS
  <1>6. \A d \in Calls : ServiceCall(d)'
    BY <1>2, <1>3, <1>4 DEF ServiceCall
  <1> QED BY <1>1, <1>5, <1>6 DEF ServiceInv

LEMMA UpdateWrites ==
  ASSUME ServiceFields, NEW stamp, NEW traffic
  PROVE  \E revs \in Seq(Revision) :
           /\ SomeFailed => \E r \in DOMAIN revs : revs[r].ready = "failed"
           /\ Update(cloud, stamp, traffic)
                = [revs |-> revs, traffic |-> traffic, stamp |-> stamp, etag |-> cloud.etag + 1,
                   stamped |-> cloud.stamped, routed |-> cloud.routed]
PROOF
  <1> DEFINE new == [ready |-> "unknown", instances |-> FALSE]
             more == Append(cloud.revs, new)
             revs == IF stamp = cloud.stamp THEN cloud.revs ELSE more
  <1>1. revs \in Seq(Revision) /\ (SomeFailed => \E r \in DOMAIN revs : revs[r].ready = "failed")
    <2>1. new \in Revision
      BY DEF Revision
    <2> HIDE DEF new
    <2>2. more \in Seq(Revision) /\ DOMAIN cloud.revs \subseteq DOMAIN more /\ \A r \in DOMAIN cloud.revs : more[r] = cloud.revs[r]
      BY <2>1 DEF ServiceFields
    <2> HIDE DEF more
    <2> QED BY <2>2 DEF ServiceFields, SomeFailed
  <1>2. Update(cloud, stamp, traffic) = [cloud EXCEPT !.stamp = stamp, !.traffic = traffic, !.etag = @ + 1, !.revs = revs]
    BY DEF Update
  <1> HIDE DEF revs
  <1>3. Update(cloud, stamp, traffic) = [revs |-> revs, traffic |-> traffic, stamp |-> stamp, etag |-> cloud.etag + 1,
                   stamped |-> cloud.stamped, routed |-> cloud.routed]
    BY <1>2 DEF ServiceFields
  <1> QED BY <1>1, <1>3

LEMMA ServiceActions ==
  ASSUME ServiceInv, IsCloudRunService, Functional, NEW c \in Calls,
         GetServiceToChange(c) \/ RestartRevision(c) \/ RouteTraffic(c) \/ TrafficRouted(c) \/ ServiceRequestFails(c)
  PROVE  ServiceInv' /\ \E S : OnlyBy(S)
PROOF
  <1>1. ServiceFields /\ ReadOfService(pc[c], read[c]) /\ cloud.stamp = cloud.stamped /\ cloud.traffic = cloud.routed
    BY DEF ServiceInv, ServiceCall
  <1>0. ServiceFields
    BY <1>1
  <1>2. CASE GetServiceToChange(c)
    <2> DEFINE x == [traffic |-> cloud.traffic, stamp |-> cloud.stamp, etag |-> cloud.etag, ready |-> LatestReady(cloud.revs)]
    <2>1. Proceeds(c, "update", x) /\ cloud' = cloud
      BY <1>2, GoesProceeds DEF GetServiceToChange
    <2>2. ReadOfService("update", x)
      BY <1>1 DEF ReadOfService, ServiceFields
    <2> HIDE DEF x
    <2> QED BY <2>1, <2>2, ServiceProceeds DEF Proceeds
  <1>3. CASE RestartRevision(c)
    <2>1. pc[c] = "update" /\ asked[c] = "restart-revision"
      BY <1>3 DEF RestartRevision
    <2>2. CASE ~Accepts(c)
      <3>1. Fails(c) /\ cloud' = cloud
        BY <1>3, <2>2, RefusesFails DEF RestartRevision
      <3> QED BY <3>1, ServiceFails DEF Fails, Finishes
    <2>3. CASE Accepts(c)
      <3> DEFINE stamp == cloud.stamped + 1
                 u == Update(cloud, stamp, cloud.traffic)
      <3>1. Finishes(c, "ok", Nothing) /\ cloud' = [Update(cloud, stamp, read[c].traffic) EXCEPT !.stamped = stamp]
        BY <1>3, <2>3, ReturnsFinishes DEF RestartRevision
      <3>2. read[c].traffic = cloud.traffic
        BY <1>1, <2>1, <2>3 DEF Accepts, ReadOfService
      <3> HIDE DEF stamp
      <3>3. cloud' = [u EXCEPT !.stamped = stamp]
        BY <3>1, <3>2
      <3>4. PICK revs \in Seq(Revision) :
              /\ SomeFailed => \E r \in DOMAIN revs : revs[r].ready = "failed"
              /\ u = [revs |-> revs, traffic |-> cloud.traffic, stamp |-> stamp, etag |-> cloud.etag + 1,
                      stamped |-> cloud.stamped, routed |-> cloud.routed]
        BY <1>0, UpdateWrites
      <3> HIDE DEF u
      <3>5. cloud' = [revs |-> revs, traffic |-> cloud.routed, stamp |-> stamp, etag |-> cloud.etag + 1, stamped |-> stamp, routed |-> cloud.routed]
        BY <1>1, <3>3, <3>4
      <3>6. OnlyBy({c}) /\ pc'[c] = "returned" /\ ~Shows(c, "Status")'
        BY <2>1, <3>1 DEF Finishes, OnlyBy, Shows
      <3> QED BY <3>4, <3>5, <3>6, ServiceWritten
    <2> QED BY <2>2, <2>3
  <1>4. CASE RouteTraffic(c)
    <2>1. PICK rev \in DOMAIN cloud.revs, percent \in {50, 100} :
            LET traffic == BuildTrafficTargets(rev, percent, read[c].ready) IN
            /\ pc[c] = "update" /\ asked[c] = "route-traffic"
            /\ IF Accepts(c)
               THEN /\ cloud' = [Update(cloud, read[c].stamp, traffic) EXCEPT !.routed = traffic]
                    /\ Goes(c, "wait", read[c])
               ELSE Refuses(c) /\ UNCHANGED cloud
      BY <1>4 DEF RouteTraffic
    <2>0. PICK traffic : traffic = BuildTrafficTargets(rev, percent, read[c].ready)
      OBVIOUS
    <2>2. CASE ~Accepts(c)
      <3>1. Fails(c) /\ cloud' = cloud
        BY <2>1, <2>2, RefusesFails
      <3> QED BY <3>1, ServiceFails DEF Fails, Finishes
    <2>3. CASE Accepts(c)
      <3> DEFINE u == Update(cloud, cloud.stamp, traffic)
      <3>1. Proceeds(c, "wait", read[c]) /\ cloud' = [Update(cloud, read[c].stamp, traffic) EXCEPT !.routed = traffic]
        BY <2>0, <2>1, <2>3, GoesProceeds
      <3>2. read[c].stamp = cloud.stamp
        BY <1>1, <2>1, <2>3 DEF Accepts, ReadOfService
      <3>3. cloud' = [u EXCEPT !.routed = traffic]
        BY <3>1, <3>2
      <3>4. PICK revs \in Seq(Revision) :
              /\ SomeFailed => \E r \in DOMAIN revs : revs[r].ready = "failed"
              /\ u = [revs |-> revs, traffic |-> traffic, stamp |-> cloud.stamp, etag |-> cloud.etag + 1,
                      stamped |-> cloud.stamped, routed |-> cloud.routed]
        BY <1>0, UpdateWrites
      <3> HIDE DEF u
      <3>5. cloud' = [revs |-> revs, traffic |-> traffic, stamp |-> cloud.stamp, etag |-> cloud.etag + 1, stamped |-> cloud.stamp, routed |-> traffic]
        BY <1>1, <3>3, <3>4
      <3>6. OnlyBy({c}) /\ pc'[c] = "wait" /\ ~Shows(c, "Status")'
        BY <2>1, <3>1 DEF Proceeds, OnlyBy, Shows
      <3> QED BY <3>4, <3>5, <3>6, ServiceWritten
    <2> QED BY <2>2, <2>3
  <1>5. CASE TrafficRouted(c)
    <2>1. Finishes(c, "ok", Nothing) /\ cloud' = cloud /\ asked[c] = "route-traffic"
      BY <1>5, ReturnsFinishes DEF TrafficRouted
    <2> QED BY <2>1, ServiceFinishes DEF Finishes
  <1>6. CASE ServiceRequestFails(c)
    <2>1. Fails(c) /\ cloud' = cloud
      BY <1>6, RefusesFails DEF ServiceRequestFails, CallFails
    <2> QED BY <2>1, ServiceFails DEF Fails, Finishes
  <1> QED BY <1>2, <1>3, <1>4, <1>5, <1>6

LEMMA ServiceStep ==
  ASSUME ServiceInv, Functional, ServiceStatusNext
  PROVE  ServiceInv' /\ \E S : OnlyBy(S)
  BY ServiceMoves, ServiceViews, ServiceActions DEF ServiceStatusNext

-----------------------------------------------------------------------------
(* Cloud Run jobs.  An execution goes one way: a task that is over stays   *)
(* so, and an execution that has ended does not change any more.           *)
LEMMA CountsTasks ==
  ASSUME NEW x, NEW S
  PROVE  /\ CountOf(x, S) \in 0..TaskCount
         /\ CountOf(x, S) = TaskCount <=> \A i \in 1..TaskCount : x.tasks[i] \in S
         /\ CountOf(x, S) = 0 <=> \A i \in 1..TaskCount : x.tasks[i] \notin S
PROOF
  <1> DEFINE all == 1..TaskCount
             some == {i \in 1..TaskCount : x.tasks[i] \in S}
  <1>1. TaskCount \in Nat
    BY JobStatusAssumption
  <1>2. IsFiniteSet(all) /\ Cardinality(all) = TaskCount
    BY <1>1, FS_Interval
  <1>3. some \subseteq all
    OBVIOUS
  <1>4. IsFiniteSet(some) /\ Cardinality(some) <= Cardinality(all) /\ (Cardinality(some) = Cardinality(all) <=> some = all)
    <2> HIDE DEF some, all
    <2> QED BY <1>2, <1>3, FS_Subset
  <1>5. Cardinality(some) \in Nat /\ (Cardinality(some) = 0 <=> some = {})
    <2> HIDE DEF some, all
    <2> QED BY <1>4, FS_CardinalityType, FS_EmptySet
  <1>6. CountOf(x, S) = Cardinality(some)
    BY DEF CountOf
  <1>7. some = all <=> \A i \in 1..TaskCount : x.tasks[i] \in S
    OBVIOUS
  <1>8. some = {} <=> \A i \in 1..TaskCount : x.tasks[i] \notin S
    OBVIOUS
  <1> HIDE DEF some, all
  <1> QED BY <1>1, <1>2, <1>4, <1>5, <1>6, <1>7, <1>8

(* The least of some positive numbers.                                     *)
LEMMA HasLeast ==
  ASSUME NEW n \in Nat, NEW S, S \subseteq 1..n, S # {}
  PROVE  \E m \in S : \A k \in S : m <= k
PROOF
  <1> DEFINE R == {ss \in Nat \X Nat : ss[1] < ss[2]}
  <1>1. IsWellFoundedOn(R, Nat)
    BY NatLessThanWellFounded DEF OpToRel
  <1>2. S \subseteq Nat
    OBVIOUS
  <1>3. \E x \in S : \A y \in S : ~ (<<y, x>> \in R)
    <2> HIDE DEF R
    <2> QED BY <1>1, <1>2, WFMin
  <1>4. PICK x \in S : \A y \in S : ~ (<<y, x>> \in R)
    BY <1>3
  <1>5. \A y \in S : ~ (y < x)
    BY <1>2, <1>4
  <1>6. \A y \in S : x <= y
    <2> HIDE DEF R
    <2> QED BY <1>2, <1>5
  <1> QED BY <1>6

TaskStates == {"queued", "running", "retrying", "cancelled"} \cup Exits
Execution ==
  [tasks : [1..TaskCount -> TaskStates], cancelling : BOOLEAN, ended : BOOLEAN, condition : {"none", "SUCCEEDED", "FAILED"}]

AllAre(x, S) == \A i \in 1..TaskCount : x.tasks[i] \in S

ExecutionSound(x) ==
  /\ x \in Execution
  /\ x.ended => \A i \in 1..TaskCount : TaskOver(x.tasks[i])
  /\ x.condition # "none" => x.ended
  /\ x.condition = "SUCCEEDED" => AllAre(x, {"exit-0"})
  /\ x.condition = "FAILED" => ~AllAre(x, {"exit-0"})
  /\ \A i \in 1..TaskCount : x.tasks[i] = "cancelled" => x.cancelling

(* Execution x may become y.                                               *)
ExecutionLater(x, y) ==
  /\ \A i \in 1..TaskCount : x.tasks[i] # "queued" => y.tasks[i] # "queued"
  /\ \A i \in 1..TaskCount : TaskOver(x.tasks[i]) => y.tasks[i] = x.tasks[i]
  /\ x.ended => y.ended /\ y.tasks = x.tasks /\ y.cancelling = x.cancelling

FinalPhases == {"Succeeded", "Failed", "Cancelled"}

(* What a phase says of execution x, and a view of it, is so.              *)
PhaseTrue(phase, x) ==
  /\ phase \in {"Queued", "Running"} \cup FinalPhases
  /\ phase = "Running" => x.ended \/ ~AllAre(x, {"queued"})
  /\ phase \in FinalPhases => x.ended
  /\ phase = "Succeeded" => AllAre(x, {"exit-0"})
  /\ phase \in {"Failed", "Cancelled"} => ~AllAre(x, {"exit-0"})
  /\ phase = "Cancelled" => x.cancelling

(* What a view says of the tasks stays so once they are over.              *)
TasksTrue(view, x) ==
  \A i \in DOMAIN view.tasks :
    /\ i \in 1..TaskCount
    /\ view.tasks[i] = "Failed" => x.tasks[i] \in CodedFailures \cup {"cancelled"}
    /\ view.tasks[i] = "Succeeded" => x.tasks[i] \in {"exit-0", "no-exit"}

TrueOf(view, x) ==
  /\ PhaseTrue(view.phase, x)
  /\ TasksTrue(view, x)
  /\ view.phase = "Succeeded" => \A i \in DOMAIN view.tasks : view.tasks[i] = "Succeeded"
  /\ view.failure.code = "OOMKilled" => view.phase = "Failed" /\ \E i \in 1..TaskCount : x.tasks[i] = "exit-137"
  /\ view.failure.exit # "none" => view.phase = "Failed" /\ view.failure.exit \in CodedFailures /\ \E i \in 1..TaskCount : x.tasks[i] = view.failure.exit
  /\ view.phase = "Failed" /\ view.tasks # <<>> =>
       view.failure.exit # "none" \/ \A i \in 1..TaskCount : x.tasks[i] \notin CodedFailures

LEMMA TrueLater ==
  ASSUME NEW view, NEW x, NEW y, TrueOf(view, x), ExecutionLater(x, y)
  PROVE  TrueOf(view, y)
PROOF
  <1>0. TasksTrue(view, y)
    BY DEF TrueOf, TasksTrue, ExecutionLater, TaskOver, Exits, TaskFailures
  <1>1. CASE x.ended
    <2>1. y.ended /\ y.tasks = x.tasks /\ y.cancelling = x.cancelling
      BY <1>1 DEF ExecutionLater
    <2> QED BY <1>0, <1>1, <2>1 DEF TrueOf, PhaseTrue, AllAre
  <1>2. CASE ~x.ended
    <2>1. view.phase \notin FinalPhases /\ view.phase \in {"Queued", "Running"}
      BY <1>2 DEF TrueOf, PhaseTrue
    <2>2. view.phase = "Running" => y.ended \/ ~AllAre(y, {"queued"})
      BY <1>2 DEF TrueOf, PhaseTrue, ExecutionLater, AllAre
    <2> QED BY <1>0, <2>1, <2>2 DEF TrueOf, PhaseTrue, FinalPhases
  <1> QED BY <1>1, <1>2

(* The phase under which an execution is listed is true of it.             *)
LEMMA PhaseIsTrue ==
  ASSUME NEW x, ExecutionSound(x), NEW due
  PROVE  TrueOf([phase |-> ExecutionPhase(x), failure |-> NoDiagnosis, tasks |-> <<>>, due |-> due], x)
PROOF
  <1> DEFINE p == ExecutionPhase(x)
  <1>1. /\ CountOf(x, {"exit-0"}) \in 0..TaskCount
        /\ CountOf(x, {"exit-0"}) = TaskCount <=> AllAre(x, {"exit-0"})
    BY CountsTasks DEF AllAre
  <1>2. /\ CountOf(x, {"queued"}) \in 0..TaskCount
        /\ CountOf(x, {"queued"}) = TaskCount <=> AllAre(x, {"queued"})
    BY CountsTasks DEF AllAre
  <1>3. /\ CountOf(x, {"cancelled"}) \in 0..TaskCount
        /\ CountOf(x, {"cancelled"}) > 0 => \E i \in 1..TaskCount : x.tasks[i] = "cancelled"
    <2>1. CountOf(x, {"cancelled"}) \in 0..TaskCount /\ CountOf(x, {"cancelled"}) # 0 => \E i \in 1..TaskCount : x.tasks[i] = "cancelled"
      BY CountsTasks
    <2> QED BY <2>1, JobStatusAssumption, CountsTasks
  <1>4. /\ CountOf(x, TaskFailures) \in 0..TaskCount
        /\ CountOf(x, TaskFailures) > 0 => ~AllAre(x, {"exit-0"})
    <2>1. CountOf(x, TaskFailures) \in 0..TaskCount
      BY CountsTasks
    <2>2. CountOf(x, TaskFailures) # 0 => \E i \in 1..TaskCount : x.tasks[i] \in TaskFailures
      BY CountsTasks
    <2>3. CountOf(x, TaskFailures) # 0 => ~AllAre(x, {"exit-0"})
      BY <2>2 DEF AllAre, TaskFailures, CodedFailures
    <2> QED BY <2>1, <2>3, JobStatusAssumption
  <1>5. TaskCount \in Nat
    BY JobStatusAssumption
  <1>6. PhaseTrue(p, x)
    <2>1. CASE x.condition = "SUCCEEDED"
      BY <2>1 DEF ExecutionPhase, PhaseTrue, ExecutionSound, FinalPhases
    <2>2. CASE x.condition = "FAILED"
      BY <2>2 DEF ExecutionPhase, PhaseTrue, ExecutionSound, FinalPhases
    <2>3. CASE x.condition \notin {"SUCCEEDED", "FAILED"} /\ CountOf(x, {"cancelled"}) > 0 /\ CountOf(x, {"running", "retrying"}) = 0 /\ x.ended
      <3>1. PICK i \in 1..TaskCount : x.tasks[i] = "cancelled"
        BY <2>3, <1>3
      <3>2. x.cancelling /\ ~AllAre(x, {"exit-0"})
        BY <3>1 DEF ExecutionSound, AllAre
      <3>3. p = "Cancelled"
        BY <2>3 DEF ExecutionPhase
      <3> HIDE DEF p
      <3> QED BY <2>3, <3>2, <3>3 DEF PhaseTrue, FinalPhases
    <2>4. CASE x.condition \notin {"SUCCEEDED", "FAILED"} /\ ~(CountOf(x, {"cancelled"}) > 0 /\ CountOf(x, {"running", "retrying"}) = 0) /\ x.ended
      <3>1. p = IF CountOf(x, TaskFailures) > 0 \/ CountOf(x, {"exit-0"}) < TaskCount THEN "Failed" ELSE "Succeeded"
        BY <2>4 DEF ExecutionPhase
      <3> HIDE DEF p
      <3>2. (p = "Failed" /\ ~AllAre(x, {"exit-0"})) \/ (p = "Succeeded" /\ AllAre(x, {"exit-0"}))
        <4>1. CountOf(x, TaskFailures) > 0 \/ CountOf(x, {"exit-0"}) < TaskCount => ~AllAre(x, {"exit-0"})
          BY <1>1, <1>4, <1>5
        <4>2. ~(CountOf(x, TaskFailures) > 0 \/ CountOf(x, {"exit-0"}) < TaskCount) => AllAre(x, {"exit-0"})
          BY <1>1, <1>5
        <4> QED BY <3>1, <4>1, <4>2
      <3> QED BY <2>4, <3>2 DEF PhaseTrue, FinalPhases
    <2>5. CASE x.condition \notin {"SUCCEEDED", "FAILED"} /\ ~x.ended
      <3>1. p = IF CountOf(x, {"queued"}) < TaskCount THEN "Running" ELSE "Queued"
        BY <2>5 DEF ExecutionPhase
      <3> HIDE DEF p
      <3>2. p \in {"Queued", "Running"} /\ (p = "Running" => ~AllAre(x, {"queued"}))
        BY <1>2, <1>5, <3>1
      <3> QED BY <3>2 DEF PhaseTrue, FinalPhases
    <2> QED BY <2>1, <2>2, <2>3, <2>4, <2>5
  <1> HIDE DEF p
  <1>7. TrueOf([phase |-> p, failure |-> NoDiagnosis, tasks |-> <<>>, due |-> due], x)
    <2> DEFINE v == [phase |-> p, failure |-> NoDiagnosis, tasks |-> <<>>, due |-> due]
    <2>1. v.phase = p /\ v.failure.code = "none" /\ v.failure.exit = "none" /\ v.tasks = <<>>
      BY DEF NoDiagnosis
    <2>2. DOMAIN v.tasks = {}
      BY <2>1
    <2> HIDE DEF v
    <2>3. TrueOf(v, x)
      BY <1>6, <2>1, <2>2 DEF TrueOf, TasksTrue
    <2> QED BY <2>3 DEF v
  <1> QED BY <1>7 DEF p

(* What a task is shown as.                                                *)
LEMMA TaskStateIs ==
  ASSUME NEW t \in TaskStates
  PROVE  /\ TaskState(t) = "Failed" <=> t \in CodedFailures \cup {"cancelled"}
         /\ TaskState(t) = "Succeeded" <=> t \in {"exit-0", "no-exit"}
PROOF
  <1>1. t \in {"queued", "running", "retrying", "cancelled", "exit-0", "exit-1", "exit-137", "no-exit"}
    BY DEF TaskStates, Exits, TaskFailures, CodedFailures
  <1>2. t \in CodedFailures <=> t = "exit-1" \/ t = "exit-137"
    BY DEF CodedFailures
  <1> QED BY <1>1, <1>2 DEF TaskState

(* The tasks are listed later, and tell the same story.                    *)
LEMMA TasksAreTrue ==
  ASSUME NEW view, NEW x, ExecutionSound(x), TrueOf(view, x), NEW due
  PROVE  TrueOf([phase |-> view.phase, failure |-> DeriveExecutionFailure(view.phase, x.tasks),
                 tasks |-> [i \in 1..TaskCount |-> TaskState(x.tasks[i])], due |-> due], x)
PROOF
  <1> DEFINE failed == {i \in DOMAIN x.tasks : TaskState(x.tasks[i]) = "Failed" /\ x.tasks[i] # "cancelled"}
             failure == DeriveExecutionFailure(view.phase, x.tasks)
             tasks == [i \in 1..TaskCount |-> TaskState(x.tasks[i])]
             new == [phase |-> view.phase, failure |-> failure, tasks |-> tasks, due |-> due]
  <1>1. DOMAIN x.tasks = 1..TaskCount /\ \A i \in 1..TaskCount : x.tasks[i] \in TaskStates
    BY DEF ExecutionSound, Execution
  <1>2. DOMAIN tasks = 1..TaskCount /\ \A i \in 1..TaskCount : tasks[i] = TaskState(x.tasks[i])
    OBVIOUS
  <1>5. \A i \in 1..TaskCount : TaskState(x.tasks[i]) = "Failed" <=> x.tasks[i] \in CodedFailures \cup {"cancelled"}
    BY <1>1, TaskStateIs, Zenon
  <1>6. \A i \in 1..TaskCount : TaskState(x.tasks[i]) = "Succeeded" => x.tasks[i] \in {"exit-0", "no-exit"}
    BY <1>1, TaskStateIs, Zenon
  <1>7. new.phase = view.phase /\ new.failure = failure /\ new.tasks = tasks
    OBVIOUS
  <1>8. \A i : i \in failed <=> i \in 1..TaskCount /\ TaskState(x.tasks[i]) = "Failed" /\ x.tasks[i] # "cancelled"
    BY <1>1, Zenon
  <1> HIDE DEF tasks, new
  <1>9. \A i : i \in failed <=> i \in 1..TaskCount /\ x.tasks[i] \in CodedFailures
    <2>1. "cancelled" \notin CodedFailures
      BY DEF CodedFailures
    <2> HIDE DEF failed
    <2> QED BY <1>5, <1>8, <2>1
  <1>10. view.phase = "Succeeded" => \A i \in DOMAIN tasks : tasks[i] = "Succeeded"
    <2>1. TaskState("exit-0") = "Succeeded"
      BY TaskStateIs DEF TaskStates, Exits
    <2>2. view.phase = "Succeeded" => \A i \in 1..TaskCount : x.tasks[i] = "exit-0"
      BY DEF TrueOf, PhaseTrue, AllAre
    <2> QED BY <1>2, <2>1, <2>2
  <1>11. TasksTrue(new, x)
    BY <1>2, <1>5, <1>6, <1>7, Zenon DEF TasksTrue
  <1>12. PhaseTrue(view.phase, x)
    BY DEF TrueOf
  <1>3. CASE view.phase # "Failed"
    <2>1. failure.code = "none" /\ failure.exit = "none"
      BY <1>3 DEF DeriveExecutionFailure, NoDiagnosis
    <2> HIDE DEF failure
    <2>2. TrueOf(new, x)
      BY <1>3, <1>7, <1>10, <1>11, <1>12, <2>1 DEF TrueOf
    <2> QED BY <2>2 DEF new, tasks, failure
  <1>4. CASE view.phase = "Failed"
    <2>1. failure.code = "OOMKilled" => \E i \in failed : x.tasks[i] = "exit-137"
      BY <1>4 DEF DeriveExecutionFailure
    <2>2. (failed = {} => failure.exit = "none") /\ (failed # {} => failure.exit = x.tasks[Min(failed)])
      BY <1>4 DEF DeriveExecutionFailure
    <2> HIDE DEF failure, failed
    <2>3. ASSUME failed # {} PROVE Min(failed) \in failed
      <3>1. failed \subseteq 1..TaskCount
        BY <1>9
      <3>2. \E m \in failed : \A k \in failed : m <= k
        BY <2>3, <3>1, HasLeast, JobStatusAssumption
      <3> QED BY <3>2 DEF Min
    <2>4. failed # {} => /\ failure.exit \in CodedFailures
                         /\ \E i \in 1..TaskCount : x.tasks[i] = failure.exit
      BY <1>9, <2>2, <2>3, Zenon
    <2>5. failed = {} => failure.exit = "none" /\ \A i \in 1..TaskCount : x.tasks[i] \notin CodedFailures
      BY <1>9, <2>2, Zenon
    <2>6. failure.code = "OOMKilled" => \E i \in 1..TaskCount : x.tasks[i] = "exit-137"
      BY <1>9, <2>1, Zenon
    <2>7. "none" \notin CodedFailures
      BY DEF CodedFailures
    <2>8. /\ failure.exit # "none" => failure.exit \in CodedFailures /\ \E i \in 1..TaskCount : x.tasks[i] = failure.exit
          /\ failure.exit # "none" \/ \A i \in 1..TaskCount : x.tasks[i] \notin CodedFailures
      BY <2>4, <2>5, <2>7, Zenon
    <2>9. TrueOf(new, x)
      BY <1>4, <1>7, <1>10, <1>11, <1>12, <2>6, <2>8 DEF TrueOf
    <2> QED BY <2>9 DEF new, tasks, failure
  <1> QED BY <1>3, <1>4

JobFields ==
  /\ cloud = [execs |-> cloud.execs]
  /\ cloud.execs \in Seq(Execution)
  /\ \A e \in DOMAIN cloud.execs : ExecutionSound(cloud.execs[e])

TrueViews(views) == \A e \in DOMAIN views : e \in DOMAIN cloud.execs /\ TrueOf(views[e], cloud.execs[e])

ReadOfJob(at, method, x) ==
  /\ at = "tasks" => method \in {"Status", "StatusOverview"} /\ TrueViews(x)
  /\ at = "wait" => x \in DOMAIN cloud.execs

ShownOfJob(method, view) ==
  /\ method = "Status" => TrueViews(view)
  /\ method = "cancel-execution" => view \in DOMAIN cloud.execs /\ cloud.execs[view].ended

JobCall(c) ==
  /\ ReadOfJob(pc[c], asked[c], read[c])
  /\ result[c] = "ok" => ShownOfJob(asked[c], shown[c])

JobInv == IsCloudRunJob => JobFields /\ \A c \in Calls : JobCall(c)

JobGoesOn ==
  \A e \in DOMAIN cloud.execs : e \in DOMAIN cloud'.execs /\ ExecutionLater(cloud.execs[e], cloud'.execs[e])

LEMMA TrueViewsLater ==
  ASSUME JobGoesOn, NEW views, TrueViews(views)
  PROVE  \A e \in DOMAIN views : e \in DOMAIN cloud'.execs /\ TrueOf(views[e], cloud'.execs[e])
  BY TrueLater DEF TrueViews, JobGoesOn

LEMMA JobCallLater ==
  ASSUME JobGoesOn, NEW at, NEW method, NEW x
  PROVE  /\ ReadOfJob(at, method, x) =>
              /\ at = "tasks" => /\ method \in {"Status", "StatusOverview"}
                                 /\ \A e \in DOMAIN x : e \in DOMAIN cloud'.execs /\ TrueOf(x[e], cloud'.execs[e])
              /\ at = "wait" => x \in DOMAIN cloud'.execs
         /\ ShownOfJob(method, x) =>
              /\ method = "Status" => \A e \in DOMAIN x : e \in DOMAIN cloud'.execs /\ TrueOf(x[e], cloud'.execs[e])
              /\ method = "cancel-execution" => x \in DOMAIN cloud'.execs /\ cloud'.execs[x].ended
PROOF
  <1>1. TrueViews(x) => \A e \in DOMAIN x : e \in DOMAIN cloud'.execs /\ TrueOf(x[e], cloud'.execs[e])
    BY TrueViewsLater
  <1>2. x \in DOMAIN cloud.execs => x \in DOMAIN cloud'.execs /\ (cloud.execs[x].ended => cloud'.execs[x].ended)
    BY DEF JobGoesOn, ExecutionLater
  <1> QED BY <1>1, <1>2 DEF ReadOfJob, ShownOfJob

LEMMA JobOthers ==
  ASSUME JobGoesOn, NEW S, OnlyBy(S), NEW d \in Calls \ S, JobCall(d)
  PROVE  JobCall(d)'
PROOF
  <1>1. pc'[d] = pc[d] /\ asked'[d] = asked[d] /\ read'[d] = read[d] /\ result'[d] = result[d] /\ shown'[d] = shown[d]
    BY DEF OnlyBy
  <1>2. ReadOfJob(pc[d], asked[d], read[d])'
    BY <1>1, JobCallLater DEF JobCall, ReadOfJob, TrueViews
  <1>3. ASSUME result'[d] = "ok" PROVE ShownOfJob(asked[d], shown[d])'
    <2>1. ShownOfJob(asked[d], shown[d])
      BY <1>1, <1>3 DEF JobCall
    <2> QED BY <2>1, <1>1, JobCallLater DEF ShownOfJob, TrueViews
  <1> QED BY <1>2, <1>3 DEF JobCall

LEMMA JobUnchanged == IsCloudRunJob /\ JobInv /\ cloud' = cloud => JobFields /\ JobFields' /\ JobGoesOn
  BY DEF JobInv, JobFields, JobGoesOn, ExecutionLater

LEMMA JobProceeds ==
  ASSUME JobInv, IsCloudRunJob, JobFields', JobGoesOn, NEW c \in Calls, NEW to, NEW x, Proceeds(c, to, x),
         to = "tasks" => asked[c] \in {"Status", "StatusOverview"} /\ UNCHANGED cloud /\ TrueViews(x),
         to = "wait" => x \in DOMAIN cloud.execs
  PROVE  JobInv'
PROOF
  <1>1. OnlyBy({c}) /\ asked' = asked /\ app' = app /\ pc'[c] = to /\ read'[c] = x /\ result'[c] = result[c] /\ shown'[c] = shown[c]
    BY DEF Proceeds, OnlyBy
  <1>2. ReadOfJob(pc[c], asked[c], read[c])'
    BY <1>1 DEF ReadOfJob, TrueViews, JobGoesOn
  <1>3. ASSUME result'[c] = "ok" PROVE ShownOfJob(asked[c], shown[c])'
    <2>1. ShownOfJob(asked[c], shown[c])
      BY <1>1, <1>3 DEF JobInv, JobCall
    <2> QED BY <2>1, <1>1, JobCallLater DEF ShownOfJob, TrueViews
  <1>4. \A d \in Calls \ {c} : JobCall(d)'
    BY <1>1, JobOthers DEF JobInv
  <1> QED BY <1>2, <1>3, <1>4 DEF JobInv, JobCall

LEMMA JobFinishes ==
  ASSUME JobInv, IsCloudRunJob, JobFields', JobGoesOn, NEW c \in Calls, NEW res, NEW view, Finishes(c, res, view),
         res = "ok" => ShownOfJob(asked[c], view)
  PROVE  JobInv'
PROOF
  <1>1. OnlyBy({c}) /\ asked' = asked /\ app' = app /\ pc'[c] = "returned" /\ result'[c] = res /\ shown'[c] = view
    BY DEF Finishes, OnlyBy
  <1>2. ReadOfJob(pc[c], asked[c], read[c])'
    BY <1>1 DEF ReadOfJob
  <1>3. ASSUME result'[c] = "ok" PROVE ShownOfJob(asked[c], shown[c])'
    <2>1. ShownOfJob(asked[c], view)
      BY <1>1, <1>3
    <2> QED BY <2>1, <1>1, JobCallLater DEF ShownOfJob, TrueViews
  <1>4. \A d \in Calls \ {c} : JobCall(d)'
    BY <1>1, JobOthers DEF JobInv
  <1> QED BY <1>2, <1>3, <1>4 DEF JobInv, JobCall

LEMMA JobFails ==
  ASSUME JobInv, IsCloudRunJob, UNCHANGED cloud, NEW c \in Calls, Fails(c)
  PROVE  JobInv'
  BY JobUnchanged, JobFinishes DEF Fails

(* One execution changes.                                                  *)
LEMMA OneExecutionChanges ==
  ASSUME JobFields, NEW e \in DOMAIN cloud.execs, NEW y, ExecutionSound(y), ExecutionLater(cloud.execs[e], y),
         cloud' = [cloud EXCEPT !.execs[e] = y]
  PROVE  JobFields' /\ JobGoesOn
PROOF
  <1> DEFINE execs == [cloud.execs EXCEPT ![e] = y]
  <1>1. cloud' = [execs |-> execs]
    BY DEF JobFields
  <1>2. execs \in Seq(Execution) /\ DOMAIN execs = DOMAIN cloud.execs /\ execs[e] = y
        /\ \A d \in DOMAIN cloud.execs : d # e => execs[d] = cloud.execs[d]
    BY DEF JobFields, ExecutionSound
  <1> HIDE DEF execs
  <1>3. JobFields'
    BY <1>1, <1>2 DEF JobFields
  <1>4. JobGoesOn
    BY <1>1, <1>2 DEF JobGoesOn, ExecutionLater
  <1> QED BY <1>3, <1>4

LEMMA JobMoves ==
  ASSUME JobInv, IsCloudRunJob, Functional, TaskGoesOn \/ ExecutionEnds
  PROVE  JobInv' /\ OnlyBy({})
PROOF
  <1>1. JobFields
    BY DEF JobInv
  <1>2. SUFFICES \E e \in DOMAIN cloud.execs : \E y : /\ OnlyBy({}) /\ cloud' = [cloud EXCEPT !.execs[e] = y]
                                               /\ ExecutionSound(y) /\ ExecutionLater(cloud.execs[e], y)
    <2>1. OnlyBy({}) /\ JobFields' /\ JobGoesOn
      BY <1>1, <1>2, OneExecutionChanges
    <2>2. \A d \in Calls : JobCall(d)'
      BY <2>1, JobOthers DEF JobInv
    <2> QED BY <2>1, <2>2 DEF JobInv
  <1>3. CASE TaskGoesOn
    <2>0. PICK e \in DOMAIN cloud.execs, i \in 1..TaskCount :
            \E to \in NextStates(cloud.execs[e], cloud.execs[e].tasks[i]) : Moves([cloud EXCEPT !.execs[e] = [@ EXCEPT !.tasks[i] = to]])
      BY <1>3 DEF TaskGoesOn
    <2>1. PICK to \in NextStates(cloud.execs[e], cloud.execs[e].tasks[i]) :
            Moves([cloud EXCEPT !.execs[e] = [@ EXCEPT !.tasks[i] = to]])
      BY <2>0
    <2> DEFINE x == cloud.execs[e]
               tasks == [x.tasks EXCEPT ![i] = to]
               y == [tasks |-> tasks, cancelling |-> x.cancelling, ended |-> x.ended, condition |-> x.condition]
    <2>2. ExecutionSound(x) /\ x \in Execution
      BY <1>1 DEF JobFields, ExecutionSound
    <2>3. [x EXCEPT !.tasks[i] = to] = y
      BY <2>2 DEF Execution
    <2>4. OnlyBy({}) /\ cloud' = [cloud EXCEPT !.execs[e] = y]
      <3>1. OnlyBy({}) /\ cloud' = [cloud EXCEPT !.execs[e] = [@ EXCEPT !.tasks[i] = to]]
        BY <2>1, MovesAlone
      <3>2. [cloud EXCEPT !.execs[e] = [@ EXCEPT !.tasks[i] = to]] = [cloud EXCEPT !.execs[e] = [x EXCEPT !.tasks[i] = to]]
        BY <1>1 DEF JobFields
      <3> QED BY <3>1, <3>2, <2>3
    <2>5. /\ ~TaskOver(x.tasks[i]) /\ to \in TaskStates \ {"queued"}
          /\ to = "cancelled" => x.cancelling
      <3>1. x.tasks[i] \in TaskStates
        BY <2>2 DEF Execution
      <3> HIDE DEF x
      <3> QED BY <2>1, <3>1 DEF NextStates, TaskStates, Exits, TaskFailures, CodedFailures, TaskOver, x
    <2>6. /\ tasks \in [1..TaskCount -> TaskStates]
          /\ tasks[i] = to /\ \A j \in 1..TaskCount : j # i => tasks[j] = x.tasks[j]
      BY <2>2, <2>5 DEF Execution
    <2>7. ~x.ended /\ x.condition = "none"
      BY <2>2, <2>5 DEF ExecutionSound, Execution
    <2> HIDE DEF x, tasks
    <2>8. ExecutionSound(y)
      BY <2>2, <2>5, <2>6, <2>7 DEF ExecutionSound, Execution
    <2>9. ExecutionLater(x, y)
      BY <2>2, <2>5, <2>6, <2>7 DEF ExecutionLater
    <2> QED BY <2>4, <2>8, <2>9 DEF x
  <1>4. CASE ExecutionEnds
    <2>1. PICK e \in DOMAIN cloud.execs, told \in BOOLEAN :
            LET x == cloud.execs[e] IN
            /\ \A i \in 1..TaskCount : TaskOver(x.tasks[i])
            /\ x.condition = "none"
            /\ x.ended => told
            /\ Moves([cloud EXCEPT !.execs[e] = [x EXCEPT
                 !.ended = TRUE,
                 !.condition = IF ~told THEN "none" ELSE IF CountOf(x, {"exit-0"}) = TaskCount THEN "SUCCEEDED" ELSE "FAILED"]])
      BY <1>4 DEF ExecutionEnds
    <2> DEFINE x == cloud.execs[e]
               condition == IF ~told THEN "none" ELSE IF CountOf(x, {"exit-0"}) = TaskCount THEN "SUCCEEDED" ELSE "FAILED"
               y == [x EXCEPT !.ended = TRUE, !.condition = condition]
    <2>2. ExecutionSound(x) /\ x \in Execution
      BY <1>1 DEF JobFields, ExecutionSound
    <2>3. OnlyBy({}) /\ cloud' = [cloud EXCEPT !.execs[e] = y]
      BY <2>1, MovesAlone
    <2>4. /\ condition \in {"none", "SUCCEEDED", "FAILED"}
          /\ condition = "SUCCEEDED" => AllAre(x, {"exit-0"})
          /\ condition = "FAILED" => ~AllAre(x, {"exit-0"})
      BY CountsTasks DEF AllAre
    <2> HIDE DEF condition
    <2>5. y \in Execution /\ y.tasks = x.tasks /\ y.cancelling = x.cancelling /\ y.ended = TRUE /\ y.condition = condition
      BY <2>2, <2>4 DEF Execution
    <2> HIDE DEF y
    <2>6. ExecutionSound(y)
      BY <2>1, <2>2, <2>4, <2>5 DEF ExecutionSound, AllAre
    <2>7. ExecutionLater(x, y)
      BY <2>5 DEF ExecutionLater
    <2> QED BY <2>3, <2>6, <2>7
  <1> QED BY <1>3, <1>4

LEMMA JobInit == JobStatusInit => JobInv
PROOF
  <1> SUFFICES ASSUME JobStatusInit PROVE JobInv
    OBVIOUS
  <1>1. PICK t \in {"queued", "running"} : cloud = [execs |-> <<[NewExecution EXCEPT !.tasks = [i \in 1..TaskCount |-> t]]>>]
    BY DEF JobStatusInit
  <1> DEFINE tasks == [i \in 1..TaskCount |-> t]
             x == [NewExecution EXCEPT !.tasks = tasks]
  <1>2. tasks \in [1..TaskCount -> TaskStates] /\ \A i \in 1..TaskCount : tasks[i] # "cancelled"
    BY DEF TaskStates
  <1>3. NewExecution \in Execution /\ NewExecution.ended = FALSE /\ NewExecution.condition = "none"
    BY DEF NewExecution, Execution, TaskStates
  <1> HIDE DEF tasks
  <1>4. x \in Execution /\ x.tasks = tasks /\ x.ended = FALSE /\ x.condition = "none"
    BY <1>2, <1>3 DEF Execution
  <1> HIDE DEF x
  <1>8. ExecutionSound(x)
    BY <1>2, <1>4 DEF ExecutionSound
  <1>5. cloud = [execs |-> <<x>>]
    BY <1>1 DEF x, tasks
  <1>6. JobFields
    BY <1>4, <1>5, <1>8 DEF JobFields
  <1>7. \A c \in Calls : pc[c] = "start" /\ result[c] = "none"
    BY DEF JobStatusInit, CallsInit
  <1> QED BY <1>6, <1>7 DEF JobInv, JobCall, ReadOfJob

LEMMA JobViews ==
  ASSUME JobInv, IsCloudRunJob, Functional, NEW c \in Calls,
         ListExecutions(c) \/ ListExecutionTasks(c) \/ JobShown(c) \/ NotSupported(c) \/ JobRequestFails(c)
  PROVE  JobInv' /\ \E S : OnlyBy(S)
PROOF
  <1>1. JobFields /\ ReadOfJob(pc[c], asked[c], read[c])
    BY DEF JobInv, JobCall
  <1>2. CASE ListExecutions(c)
    <2> DEFINE all == DOMAIN cloud.execs
               listed == {e \in all : Cardinality({f \in all : f > e}) < MaxExecutions}
               due(e) == Cardinality({f \in all : f > e}) < MaxExecutionsWithTasks
               view(e) == [phase |-> ExecutionPhase(cloud.execs[e]), failure |-> NoDiagnosis, tasks |-> <<>>, due |-> due(e)]
               views == [e \in listed |-> view(e)]
    <2>1. Goes(c, "tasks", views) /\ cloud' = cloud /\ asked[c] \in {"Status", "StatusOverview"}
      BY <1>2 DEF ListExecutions, Starting
    <2>2. listed \subseteq all
      OBVIOUS
    <2>3. \A e \in listed : TrueOf(view(e), cloud.execs[e])
      <3>1. TAKE e \in listed
      <3>2. ExecutionSound(cloud.execs[e])
        BY <1>1, <2>2 DEF JobFields
      <3> HIDE DEF due, listed
      <3> QED BY <3>2, PhaseIsTrue
    <2> HIDE DEF view, listed
    <2>4. TrueViews(views)
      BY <2>2, <2>3 DEF TrueViews
    <2> HIDE DEF views
    <2>5. Proceeds(c, "tasks", views)
      BY <2>1, GoesProceeds
    <2> QED BY <2>1, <2>4, <2>5, JobProceeds, JobUnchanged DEF Proceeds
  <1>3. CASE ListExecutionTasks(c)
    <2>1. PICK e \in DOMAIN read[c] :
            Goes(c, "tasks", [read[c] EXCEPT ![e] =
              [phase |-> @.phase, failure |-> DeriveExecutionFailure(@.phase, cloud.execs[e].tasks),
               tasks |-> [i \in 1..TaskCount |-> TaskState(cloud.execs[e].tasks[i])], due |-> FALSE]])
      BY <1>3 DEF ListExecutionTasks
    <2>2. pc[c] = "tasks" /\ cloud' = cloud
      BY <1>3 DEF ListExecutionTasks
    <2>3. TrueViews(read[c]) /\ asked[c] \in {"Status", "StatusOverview"}
      BY <1>1, <2>2 DEF ReadOfJob
    <2> DEFINE x == cloud.execs[e]
               view == [phase |-> read[c][e].phase, failure |-> DeriveExecutionFailure(read[c][e].phase, x.tasks),
                        tasks |-> [i \in 1..TaskCount |-> TaskState(x.tasks[i])], due |-> FALSE]
               views == [read[c] EXCEPT ![e] = view]
    <2>4. Proceeds(c, "tasks", views)
      BY <2>1, GoesProceeds
    <2>5. e \in DOMAIN cloud.execs /\ ExecutionSound(x) /\ TrueOf(read[c][e], x)
      BY <1>1, <2>3 DEF TrueViews, JobFields
    <2>6. TrueOf(view, x)
      <3> HIDE DEF x
      <3> QED BY <2>5, TasksAreTrue
    <2> HIDE DEF view
    <2>7. TrueViews(views)
      BY <2>3, <2>5, <2>6 DEF TrueViews
    <2> HIDE DEF views
    <2> QED BY <2>2, <2>3, <2>4, <2>7, JobProceeds, JobUnchanged DEF Proceeds
  <1>4. CASE JobShown(c)
    <2>1. Finishes(c, "ok", read[c]) /\ cloud' = cloud /\ pc[c] = "tasks"
      BY <1>4, ReturnsFinishes DEF JobShown
    <2>2. ShownOfJob(asked[c], read[c])
      BY <1>1, <2>1 DEF ReadOfJob, ShownOfJob
    <2> QED BY <2>1, <2>2, JobFinishes, JobUnchanged DEF Finishes
  <1>5. CASE NotSupported(c) \/ JobRequestFails(c)
    <2>1. Fails(c) /\ cloud' = cloud
      BY <1>5, RefusesFails DEF NotSupported, JobRequestFails, CallFails
    <2> QED BY <2>1, JobFails DEF Fails, Finishes
  <1> QED BY <1>2, <1>3, <1>4, <1>5

LEMMA JobActions ==
  ASSUME JobInv, IsCloudRunJob, Functional, NEW c \in Calls, CancelExecution(c) \/ Cancelled(c) \/ RunJob(c)
  PROVE  JobInv' /\ \E S : OnlyBy(S)
PROOF
  <1>1. JobFields /\ ReadOfJob(pc[c], asked[c], read[c])
    BY DEF JobInv, JobCall
  <1>2. CASE CancelExecution(c)
    <2>1. PICK e \in DOMAIN cloud.execs :
            IF cloud.execs[e].ended
            THEN Refuses(c) /\ UNCHANGED cloud
            ELSE Goes(c, "wait", e) /\ cloud' = [cloud EXCEPT !.execs[e] = [@ EXCEPT !.cancelling = TRUE]]
      BY <1>2 DEF CancelExecution
    <2>2. CASE cloud.execs[e].ended
      <3>1. Fails(c) /\ cloud' = cloud
        BY <2>1, <2>2, RefusesFails
      <3> QED BY <3>1, JobFails DEF Fails, Finishes
    <2>3. CASE ~cloud.execs[e].ended
      <3> DEFINE x == cloud.execs[e]
                 y == [x EXCEPT !.cancelling = TRUE]
      <3>1. ExecutionSound(x) /\ x \in Execution
        BY <1>1 DEF JobFields, ExecutionSound
      <3>2. y \in Execution /\ y.tasks = x.tasks /\ y.cancelling = TRUE /\ y.ended = x.ended /\ y.condition = x.condition
        BY <3>1 DEF Execution
      <3>3. Proceeds(c, "wait", e)
        BY <2>1, <2>3, GoesProceeds
      <3>4. cloud' = [cloud EXCEPT !.execs[e] = y]
        BY <1>1, <2>1, <2>3 DEF JobFields
      <3> HIDE DEF y
      <3>5. ExecutionSound(y)
        BY <3>1, <3>2 DEF ExecutionSound, AllAre
      <3>6. ExecutionLater(x, y)
        BY <2>3, <3>2 DEF ExecutionLater
      <3>7. JobFields' /\ JobGoesOn
        BY <1>1, <3>4, <3>5, <3>6, OneExecutionChanges
      <3> QED BY <3>3, <3>7, JobProceeds DEF Proceeds
    <2> QED BY <2>2, <2>3
  <1>3. CASE Cancelled(c)
    <2>1. Finishes(c, "ok", read[c]) /\ cloud' = cloud /\ pc[c] = "wait" /\ asked[c] = "cancel-execution" /\ cloud.execs[read[c]].ended
      BY <1>3, ReturnsFinishes DEF Cancelled
    <2>2. ShownOfJob(asked[c], read[c])
      BY <1>1, <2>1 DEF ReadOfJob, ShownOfJob
    <2> QED BY <2>1, <2>2, JobFinishes, JobUnchanged DEF Finishes
  <1>4. CASE RunJob(c)
    <2>1. Finishes(c, "ok", Nothing) /\ asked[c] = "rerun-job" /\ cloud' = [cloud EXCEPT !.execs = Append(@, NewExecution)]
      BY <1>4, ReturnsFinishes DEF RunJob, Starting
    <2> DEFINE execs == Append(cloud.execs, NewExecution)
    <2>2. cloud' = [execs |-> execs]
      BY <1>1, <2>1 DEF JobFields
    <2>3. ExecutionSound(NewExecution) /\ NewExecution \in Execution
      BY DEF NewExecution, ExecutionSound, Execution, TaskStates
    <2>4. /\ execs \in Seq(Execution)
          /\ \A e \in DOMAIN execs : (e \in DOMAIN cloud.execs /\ execs[e] = cloud.execs[e]) \/ execs[e] = NewExecution
          /\ \A e \in DOMAIN cloud.execs : e \in DOMAIN execs /\ execs[e] = cloud.execs[e]
      <3> HIDE DEF NewExecution
      <3> QED BY <1>1, <2>3 DEF JobFields
    <2> HIDE DEF execs
    <2>5. JobFields'
      BY <1>1, <2>2, <2>3, <2>4 DEF JobFields
    <2>6. JobGoesOn
      BY <2>2, <2>4 DEF JobGoesOn, ExecutionLater
    <2>7. ShownOfJob(asked[c], Nothing)
      BY <2>1 DEF ShownOfJob
    <2> QED BY <2>1, <2>5, <2>6, <2>7, JobFinishes DEF Finishes
  <1> QED BY <1>2, <1>3, <1>4

LEMMA JobStep ==
  ASSUME JobInv, Functional, JobStatusNext
  PROVE  JobInv' /\ \E S : OnlyBy(S)
  BY JobMoves, JobViews, JobActions DEF JobStatusNext

(* What a view says in its words, and what became of the execution.        *)
LEMMA TrueOfFate ==
  ASSUME NEW view, NEW x, ExecutionSound(x), TrueOf(view, x)
  PROVE  LET fate == Fate(x) IN
         /\ Rank(view.phase) <= Rank(fate)
         /\ Rank(view.phase) = 2 => view.phase = fate \/ (view.phase = "Failed" /\ fate = "Cancelled")
                                                      \/ (view.phase = "Cancelled" /\ fate = "Failed" /\ x.cancelling)
         /\ view.phase = "Succeeded" => \A i \in DOMAIN view.tasks : x.tasks[i] = "exit-0" /\ view.tasks[i] = "Succeeded"
         /\ \A i \in DOMAIN view.tasks :
              /\ view.tasks[i] = "Failed" => x.tasks[i] \in CodedFailures \cup {"cancelled"}
              /\ view.tasks[i] = "Succeeded" => x.tasks[i] \in {"exit-0", "no-exit"}
         /\ view.failure.code = "OOMKilled" => "exit-137" \in ToSet(x.tasks)
         /\ view.failure.exit # "none" => view.failure.exit \in CodedFailures \cap ToSet(x.tasks)
         /\ view.tasks # <<>> /\ view.phase = "Failed" /\ CodedFailures \cap ToSet(x.tasks) # {} => view.failure.exit # "none"
PROOF
  <1> DEFINE fate == Fate(x)
  <1>1. CountOf(x, {"exit-0"}) = TaskCount <=> AllAre(x, {"exit-0"})
    BY CountsTasks DEF AllAre
  <1>2. CountOf(x, {"queued"}) = TaskCount <=> AllAre(x, {"queued"})
    BY CountsTasks DEF AllAre
  <1>3. CountOf(x, TaskFailures) = 0 <=> \A i \in 1..TaskCount : x.tasks[i] \notin TaskFailures
    BY CountsTasks
  <1>6. \A i \in DOMAIN view.tasks :
          /\ view.tasks[i] = "Failed" => x.tasks[i] \in CodedFailures \cup {"cancelled"}
          /\ view.tasks[i] = "Succeeded" => x.tasks[i] \in {"exit-0", "no-exit"}
    BY DEF TrueOf, TasksTrue
  <1>8. ToSet(x.tasks) = {x.tasks[i] : i \in 1..TaskCount}
    BY DEF ToSet, ExecutionSound, Execution
  <1>7. view.tasks # <<>> /\ view.phase = "Failed" /\ CodedFailures \cap ToSet(x.tasks) # {} => view.failure.exit # "none"
    BY <1>8 DEF TrueOf
  <1>4. CASE x.ended
    <2>1. fate = IF AllAre(x, {"exit-0"}) THEN "Succeeded"
                 ELSE IF x.cancelling /\ CountOf(x, TaskFailures) = 0 THEN "Cancelled" ELSE "Failed"
      BY <1>1, <1>4 DEF Fate
    <2>2. Rank(fate) = 2
      BY <2>1 DEF Rank
    <2>3. Rank(view.phase) \in 0..2 /\ (Rank(view.phase) = 2 <=> view.phase \in FinalPhases)
      BY DEF TrueOf, PhaseTrue, FinalPhases, Rank
    <2>4. view.phase \in FinalPhases => view.phase = fate \/ (view.phase = "Failed" /\ fate = "Cancelled")
                                                      \/ (view.phase = "Cancelled" /\ fate = "Failed" /\ x.cancelling)
      BY <2>1 DEF TrueOf, PhaseTrue, FinalPhases
    <2>6. /\ view.failure.code = "OOMKilled" => "exit-137" \in ToSet(x.tasks)
          /\ view.failure.exit # "none" => view.failure.exit \in CodedFailures \cap ToSet(x.tasks)
      BY <1>8 DEF TrueOf
    <2>8. view.phase = "Succeeded" => \A i \in DOMAIN view.tasks : x.tasks[i] = "exit-0" /\ view.tasks[i] = "Succeeded"
      BY DEF TrueOf, TasksTrue, PhaseTrue, AllAre
    <2> HIDE DEF fate
    <2> QED BY <1>6, <1>7, <2>2, <2>3, <2>4, <2>6, <2>8 DEF fate
  <1>5. CASE ~x.ended
    <2>1. fate = IF AllAre(x, {"queued"}) THEN "Queued" ELSE "Running"
      BY <1>2, <1>5 DEF Fate
    <2>2. view.phase \in {"Queued", "Running"} /\ (view.phase = "Running" => fate = "Running")
      BY <1>5, <2>1 DEF TrueOf, PhaseTrue, FinalPhases
    <2>3. Rank(view.phase) <= Rank(fate) /\ Rank(view.phase) # 2
      BY <2>1, <2>2 DEF Rank
    <2>4. view.failure.code # "OOMKilled" /\ view.failure.exit = "none"
      BY <2>2 DEF TrueOf
    <2> HIDE DEF fate
    <2> QED BY <1>6, <1>7, <2>2, <2>3, <2>4 DEF fate
  <1> QED BY <1>4, <1>5

LEMMA JobClaims == JobInv => JobPhaseWasTrue /\ CancelledIsOver
PROOF
  <1> SUFFICES ASSUME JobInv PROVE JobPhaseWasTrue /\ CancelledIsOver
    OBVIOUS
  <1>1. ASSUME NEW c \in Calls, IsCloudRunJob, Shows(c, "cancel-execution") PROVE cloud.execs[shown[c]].ended
    BY <1>1 DEF JobInv, JobCall, ShownOfJob, Shows
  <1>2. ASSUME NEW c \in Calls, IsCloudRunJob, Shows(c, "Status"), NEW e \in DOMAIN shown[c]
        PROVE  ExecutionSound(cloud.execs[e]) /\ TrueOf(shown[c][e], cloud.execs[e])
    BY <1>2 DEF JobInv, JobCall, ShownOfJob, Shows, TrueViews, JobFields
  <1>3. JobPhaseWasTrue
    BY <1>2, TrueOfFate DEF JobPhaseWasTrue
  <1> QED BY <1>1, <1>3 DEF CancelledIsOver

LEMMA ServiceClaims == ServiceInv => ServiceStateHasReason /\ ServiceChangesKept
  BY DEF ServiceInv, ServiceCall, ServiceStateHasReason, ServiceChangesKept, ReasonOf, SomeFailed

-----------------------------------------------------------------------------
(* ECS.  A task goes one way: once it is not wanted it never is again, and *)
(* once it is over, what it ended with does not change.                    *)
Stops == {"none", "TaskFailedToStart", "UserInitiated", "EssentialContainerExited", "SpotInterruption"}
EcsTask ==
  [status : {"PROVISIONING", "RUNNING", "STOPPING", "STOPPED", "GONE"}, wanted : BOOLEAN, killed : BOOLEAN,
   def : Nat, stop : Stops, exits : SUBSET {0, 1}]

Over(t) == t.status \in {"STOPPED", "GONE"}

EcsTaskSound(t) == t \in EcsTask /\ (t.status \in {"STOPPING", "STOPPED", "GONE"} => ~t.wanted)

EcsTaskLater(t, u) ==
  /\ u.def = t.def
  /\ ~t.wanted => ~u.wanted
  /\ t.status # "PROVISIONING" => u.status # "PROVISIONING"
  /\ Over(t) => Over(u) /\ u.stop = t.stop /\ u.exits = t.exits
  /\ t.status = "GONE" => u.status = "GONE"

EcsFields ==
  /\ cloud = [tasks |-> cloud.tasks, deployments |-> cloud.deployments, healthy |-> cloud.healthy]
  /\ cloud.tasks \in Seq(EcsTask)
  /\ \A i \in DOMAIN cloud.tasks : EcsTaskSound(cloud.tasks[i])
  /\ cloud.deployments \in Seq(Nat) /\ cloud.deployments # <<>>

EcsGoesOn ==
  /\ \A i \in DOMAIN cloud.tasks : i \in DOMAIN cloud'.tasks /\ EcsTaskLater(cloud.tasks[i], cloud'.tasks[i])
  /\ \A i \in DOMAIN cloud.deployments : i \in DOMAIN cloud'.deployments /\ cloud'.deployments[i] = cloud.deployments[i]

(* What the phase of an execution says of task t is so.                    *)
PhaseOf(phase, t) ==
  /\ phase = "Running" => t.status # "PROVISIONING"
  /\ phase \in {"Succeeded", "Failed"} => Over(t)
  /\ phase = "Succeeded" => 1 \notin t.exits /\ t.stop # "TaskFailedToStart"
  /\ phase = "Failed" => ~(t.stop = "EssentialContainerExited" /\ t.exits = {0})

ViewFields == {"status", "phase", "def", "image", "health", "version"}

ViewOfTask(view, t) == view.def = t.def /\ PhaseOf(view.phase, t)

ViewsOfTasks(tasks, views) ==
  \A i \in DOMAIN views : i \in DOMAIN tasks /\ ViewOfTask(views[i], tasks[i]) /\ DOMAIN views[i] = ViewFields

(* Of the tasks in since, those that are still known are in known, unless  *)
(* a list was cut, which takes more tasks than a page.                     *)
CutSound(tasks, cut) == cut => PageSize + 1 \in DOMAIN tasks

NoneMissing(tasks, since, known, cut) ==
  /\ since \subseteq DOMAIN tasks
  /\ CutSound(tasks, cut)
  /\ ~cut => \A i \in since : tasks[i].status # "GONE" => i \in known

Describing == {"service", "health", "definitions"}

ReadOfEcs(svc, at, method, x) ==
  /\ at \in {"stopped", "describe"} \cup Describing => method = "Status"
  /\ at = "tags" => method = "StatusOverview"
  /\ at \in {"service", "health"} => IsEcsService
  /\ at = "stopped" =>
       /\ x.since \subseteq DOMAIN svc.tasks
       /\ CutSound(svc.tasks, x.cut)
       /\ ~x.lost /\ ~x.cut => \A i \in x.since : svc.tasks[i].status # "GONE" => i \in x.found \/ ~svc.tasks[i].wanted
  /\ at = "describe" => NoneMissing(svc.tasks, x.since, x.found, x.cut)
  /\ at \in Describing =>
       /\ DOMAIN x = {"tasks", "since", "cut"}
       /\ ViewsOfTasks(svc.tasks, x.tasks)
       /\ NoneMissing(svc.tasks, x.since, DOMAIN x.tasks, x.cut)
  /\ at = "tags" => \A i \in DOMAIN x : i \in DOMAIN svc.deployments /\ x[i] = svc.deployments[i]
  /\ at = "run" => method = "rerun-job" /\ x.def \in Nat

ShownOfEcs(svc, method, view) ==
  /\ method = "Status" /\ IsEcsJob =>
       /\ ViewsOfTasks(svc.tasks, view.tasks)
       /\ NoneMissing(svc.tasks, view.since, DOMAIN view.tasks, view.cut)
       /\ \A i \in DOMAIN view.tasks : view.tasks[i].version \in {NoVersion, view.tasks[i].def}
  /\ method = "StatusOverview" /\ IsEcsService =>
       \A i \in DOMAIN view : i \in DOMAIN svc.deployments /\ view[i].version \in {NoVersion, svc.deployments[i]}

EcsCall(c) ==
  /\ ReadOfEcs(cloud, pc[c], asked[c], read[c])
  /\ result[c] = "ok" => ShownOfEcs(cloud, asked[c], shown[c])

EcsInv == IsEcs => EcsFields /\ \A c \in Calls : EcsCall(c)

LEMMA ViewsLater ==
  ASSUME EcsGoesOn, NEW views, ViewsOfTasks(cloud.tasks, views)
  PROVE  ViewsOfTasks(cloud'.tasks, views)
PROOF
  <1>1. ASSUME NEW i \in DOMAIN views
        PROVE  i \in DOMAIN cloud'.tasks /\ ViewOfTask(views[i], cloud'.tasks[i]) /\ DOMAIN views[i] = ViewFields
    <2>1. ViewOfTask(views[i], cloud.tasks[i]) /\ EcsTaskLater(cloud.tasks[i], cloud'.tasks[i]) /\ i \in DOMAIN cloud'.tasks
      BY DEF ViewsOfTasks, EcsGoesOn
    <2>2. ViewOfTask(views[i], cloud'.tasks[i])
      BY <2>1 DEF ViewOfTask, PhaseOf, EcsTaskLater
    <2> QED BY <2>1, <2>2 DEF ViewsOfTasks
  <1> QED BY <1>1 DEF ViewsOfTasks

LEMMA MissingLater ==
  ASSUME EcsGoesOn, NEW since, NEW known, NEW cut, NoneMissing(cloud.tasks, since, known, cut)
  PROVE  NoneMissing(cloud'.tasks, since, known, cut)
  BY DEF NoneMissing, CutSound, EcsGoesOn, EcsTaskLater

LEMMA ReadLater ==
  ASSUME EcsGoesOn, NEW at, NEW method, NEW x, ReadOfEcs(cloud, at, method, x)
  PROVE  ReadOfEcs(cloud', at, method, x)
PROOF
  <1>1. at = "stopped" =>
          /\ x.since \subseteq DOMAIN cloud'.tasks
          /\ CutSound(cloud'.tasks, x.cut)
          /\ ~x.lost /\ ~x.cut => \A i \in x.since : cloud'.tasks[i].status # "GONE" => i \in x.found \/ ~cloud'.tasks[i].wanted
    BY DEF ReadOfEcs, CutSound, EcsGoesOn, EcsTaskLater
  <1>2. at = "tags" => \A i \in DOMAIN x : i \in DOMAIN cloud'.deployments /\ x[i] = cloud'.deployments[i]
    BY DEF ReadOfEcs, EcsGoesOn
  <1>3. at = "describe" => NoneMissing(cloud'.tasks, x.since, x.found, x.cut)
    BY MissingLater DEF ReadOfEcs
  <1>4. at \in Describing => ViewsOfTasks(cloud'.tasks, x.tasks) /\ NoneMissing(cloud'.tasks, x.since, DOMAIN x.tasks, x.cut)
    BY MissingLater, ViewsLater DEF ReadOfEcs
  <1> QED BY <1>1, <1>2, <1>3, <1>4 DEF ReadOfEcs

LEMMA ShownLater ==
  ASSUME EcsGoesOn, NEW method, NEW view, ShownOfEcs(cloud, method, view)
  PROVE  ShownOfEcs(cloud', method, view)
PROOF
  <1>1. method = "StatusOverview" /\ IsEcsService =>
          \A i \in DOMAIN view : i \in DOMAIN cloud'.deployments /\ view[i].version \in {NoVersion, cloud'.deployments[i]}
    BY DEF ShownOfEcs, EcsGoesOn
  <1>2. method = "Status" /\ IsEcsJob => ViewsOfTasks(cloud'.tasks, view.tasks) /\ NoneMissing(cloud'.tasks, view.since, DOMAIN view.tasks, view.cut)
    BY MissingLater, ViewsLater DEF ShownOfEcs
  <1> QED BY <1>1, <1>2 DEF ShownOfEcs

LEMMA EcsOthers ==
  ASSUME EcsGoesOn, NEW S, OnlyBy(S), NEW d \in Calls \ S, EcsCall(d)
  PROVE  EcsCall(d)'
PROOF
  <1>1. pc'[d] = pc[d] /\ asked' = asked /\ app' = app /\ read'[d] = read[d] /\ result'[d] = result[d] /\ shown'[d] = shown[d]
    BY DEF OnlyBy
  <1>2. ReadOfEcs(cloud', pc[d], asked[d], read[d])
    BY ReadLater DEF EcsCall
  <1>3. result[d] = "ok" => ShownOfEcs(cloud', asked[d], shown[d])
    BY ShownLater DEF EcsCall
  <1> QED BY <1>1, <1>2, <1>3 DEF EcsCall, ReadOfEcs, ShownOfEcs, IsEcsJob, IsEcsService

LEMMA EcsUnchanged == IsEcs /\ EcsInv /\ cloud' = cloud => EcsFields /\ EcsFields' /\ EcsGoesOn
  BY DEF EcsInv, EcsFields, EcsGoesOn, EcsTaskLater

LEMMA EcsProceeds ==
  ASSUME EcsInv, IsEcs, EcsFields', EcsGoesOn, NEW c \in Calls, NEW to, NEW x, Proceeds(c, to, x),
         ReadOfEcs(cloud', to, asked[c], x)
  PROVE  EcsInv'
PROOF
  <1>1. OnlyBy({c}) /\ asked' = asked /\ app' = app /\ pc'[c] = to /\ read'[c] = x /\ result'[c] = result[c] /\ shown'[c] = shown[c]
    BY DEF Proceeds, OnlyBy
  <1>2. result[c] = "ok" => ShownOfEcs(cloud', asked[c], shown[c])
    BY ShownLater DEF EcsInv, EcsCall
  <1>3. EcsCall(c)'
    BY <1>1, <1>2 DEF EcsCall, ReadOfEcs, ShownOfEcs, IsEcsJob, IsEcsService
  <1>4. \A d \in Calls \ {c} : EcsCall(d)'
    BY <1>1, EcsOthers DEF EcsInv
  <1> QED BY <1>3, <1>4 DEF EcsInv

LEMMA EcsFinishes ==
  ASSUME EcsInv, IsEcs, EcsFields', EcsGoesOn, NEW c \in Calls, NEW res, NEW view, Finishes(c, res, view),
         res = "ok" => ShownOfEcs(cloud', asked[c], view)
  PROVE  EcsInv'
PROOF
  <1>1. OnlyBy({c}) /\ asked' = asked /\ app' = app /\ pc'[c] = "returned" /\ result'[c] = res /\ shown'[c] = view
    BY DEF Finishes, OnlyBy
  <1>2. ReadOfEcs(cloud, pc[c], asked[c], read[c])'
    BY <1>1 DEF ReadOfEcs, Describing
  <1>3. EcsCall(c)'
    BY <1>1, <1>2 DEF EcsCall, ShownOfEcs, IsEcsJob, IsEcsService
  <1>4. \A d \in Calls \ {c} : EcsCall(d)'
    BY <1>1, EcsOthers DEF EcsInv
  <1> QED BY <1>3, <1>4 DEF EcsInv

LEMMA EcsFails ==
  ASSUME EcsInv, IsEcs, UNCHANGED cloud, NEW c \in Calls, Fails(c)
  PROVE  EcsInv'
  BY EcsUnchanged, EcsFinishes DEF Fails

LEMMA EcsInit == EcsStatusInit => EcsInv
PROOF
  <1> SUFFICES ASSUME EcsStatusInit PROVE EcsInv
    OBVIOUS
  <1>1. cloud = [tasks |-> <<NewTask(1)>>, deployments |-> <<1>>, healthy |-> {}]
    BY DEF EcsStatusInit
  <1>2. EcsTaskSound(NewTask(1)) /\ NewTask(1) \in EcsTask
    BY DEF NewTask, EcsTask, EcsTaskSound, Stops
  <1> HIDE DEF NewTask
  <1>5. cloud.tasks \in Seq(EcsTask) /\ \A i \in DOMAIN cloud.tasks : EcsTaskSound(cloud.tasks[i])
    BY <1>1, <1>2
  <1>6. cloud.deployments \in Seq(Nat) /\ cloud.deployments # <<>>
    BY <1>1
  <1>3. EcsFields
    BY <1>1, <1>5, <1>6 DEF EcsFields
  <1>4. \A c \in Calls : pc[c] = "start" /\ result[c] = "none"
    BY DEF EcsStatusInit, CallsInit
  <1> QED BY <1>3, <1>4 DEF EcsInv, EcsCall, ReadOfEcs, Describing

-----------------------------------------------------------------------------
(* The steps of ECS itself.                                                *)
LEMMA OneTaskChanges ==
  ASSUME EcsFields, NEW i \in DOMAIN cloud.tasks, NEW u, EcsTaskSound(u), EcsTaskLater(cloud.tasks[i], u),
         cloud' = [cloud EXCEPT !.tasks[i] = u]
  PROVE  EcsFields' /\ EcsGoesOn
PROOF
  <1> DEFINE tasks == [cloud.tasks EXCEPT ![i] = u]
  <1>1. cloud' = [tasks |-> tasks, deployments |-> cloud.deployments, healthy |-> cloud.healthy]
    BY DEF EcsFields
  <1>2. tasks \in Seq(EcsTask) /\ DOMAIN tasks = DOMAIN cloud.tasks /\ tasks[i] = u
        /\ \A j \in DOMAIN cloud.tasks : j # i => tasks[j] = cloud.tasks[j]
    BY DEF EcsFields, EcsTaskSound
  <1> HIDE DEF tasks
  <1>5. cloud'.tasks = tasks /\ cloud'.deployments = cloud.deployments /\ \A j \in DOMAIN tasks : EcsTaskSound(tasks[j])
    BY <1>1, <1>2 DEF EcsFields
  <1>3. EcsFields'
    BY <1>1, <1>2, <1>5 DEF EcsFields
  <1>4. EcsGoesOn
    BY <1>1, <1>2 DEF EcsGoesOn, EcsTaskLater
  <1> QED BY <1>3, <1>4

LEMMA TaskAdded ==
  ASSUME EcsFields, NEW def \in Nat, cloud' = [cloud EXCEPT !.tasks = Append(@, NewTask(def))]
  PROVE  EcsFields' /\ EcsGoesOn
PROOF
  <1> DEFINE tasks == Append(cloud.tasks, NewTask(def))
  <1>1. cloud' = [tasks |-> tasks, deployments |-> cloud.deployments, healthy |-> cloud.healthy]
    BY DEF EcsFields
  <1>2. EcsTaskSound(NewTask(def)) /\ NewTask(def) \in EcsTask
    BY DEF NewTask, EcsTask, EcsTaskSound, Stops
  <1>3. /\ tasks \in Seq(EcsTask)
        /\ \A i \in DOMAIN tasks : (i \in DOMAIN cloud.tasks /\ tasks[i] = cloud.tasks[i]) \/ tasks[i] = NewTask(def)
        /\ \A i \in DOMAIN cloud.tasks : i \in DOMAIN tasks /\ tasks[i] = cloud.tasks[i]
    <2> HIDE DEF NewTask
    <2> QED BY <1>2 DEF EcsFields
  <1> HIDE DEF tasks
  <1>6. cloud'.tasks = tasks /\ cloud'.deployments = cloud.deployments /\ \A i \in DOMAIN tasks : EcsTaskSound(tasks[i])
    <2>1. \A i \in DOMAIN cloud.tasks : EcsTaskSound(cloud.tasks[i])
      BY DEF EcsFields
    <2> HIDE DEF NewTask
    <2> QED BY <1>1, <1>2, <1>3, <2>1
  <1>4. EcsFields'
    BY <1>1, <1>3, <1>6 DEF EcsFields
  <1>5. EcsGoesOn
    BY <1>1, <1>3 DEF EcsGoesOn, EcsTaskLater
  <1> QED BY <1>4, <1>5

LEMMA EcsMoves ==
  ASSUME EcsInv, IsEcs, Functional, TaskStarts \/ TaskEnding \/ TaskStops \/ TaskForgotten \/ TaskRuns \/ HealthChanges
  PROVE  EcsInv' /\ OnlyBy({})
PROOF
  <1>1. EcsFields
    BY DEF EcsInv
  <1>2. SUFFICES OnlyBy({}) /\ EcsFields' /\ EcsGoesOn
    BY EcsOthers DEF EcsInv, OnlyBy
  <1>3. ASSUME NEW i \in DOMAIN cloud.tasks, NEW u, TaskIs(i, u), EcsTaskSound(u), EcsTaskLater(cloud.tasks[i], u)
        PROVE  OnlyBy({}) /\ EcsFields' /\ EcsGoesOn
    BY <1>1, <1>3, MovesAlone, OneTaskChanges DEF TaskIs
  <1>4. \A i \in DOMAIN cloud.tasks : EcsTaskSound(cloud.tasks[i])
    BY <1>1 DEF EcsFields
  <1>5. CASE TaskStarts
    <2>1. PICK i \in DOMAIN cloud.tasks : cloud.tasks[i].status = "PROVISIONING" /\ TaskIs(i, [cloud.tasks[i] EXCEPT !.status = "RUNNING"])
      BY <1>5 DEF TaskStarts
    <2> DEFINE t == cloud.tasks[i]
               u == [t EXCEPT !.status = "RUNNING"]
    <2>2. EcsTaskSound(u) /\ EcsTaskLater(t, u)
      BY <1>4, <2>1 DEF EcsTaskSound, EcsTaskLater, EcsTask, Over
    <2> HIDE DEF u
    <2> QED BY <1>3, <2>1, <2>2 DEF u
  <1>6. CASE TaskEnding
    <2>1. PICK i \in DOMAIN cloud.tasks :
            cloud.tasks[i].status = "RUNNING" /\ TaskIs(i, [cloud.tasks[i] EXCEPT !.status = "STOPPING", !.wanted = FALSE])
      BY <1>6 DEF TaskEnding
    <2> DEFINE t == cloud.tasks[i]
               u == [t EXCEPT !.status = "STOPPING", !.wanted = FALSE]
    <2>2. EcsTaskSound(u) /\ EcsTaskLater(t, u)
      BY <1>4, <2>1 DEF EcsTaskSound, EcsTaskLater, EcsTask, Over
    <2> HIDE DEF u
    <2> QED BY <1>3, <2>1, <2>2 DEF u
  <1>7. CASE TaskStops
    <2>1. PICK i \in DOMAIN cloud.tasks, exits \in SUBSET {0, 1} : LET t == cloud.tasks[i] IN
            \/ /\ t.status = "PROVISIONING" /\ exits = {}
               /\ TaskIs(i, [t EXCEPT !.status = "STOPPED", !.wanted = FALSE, !.stop = "TaskFailedToStart"])
            \/ /\ t.status = "STOPPING"
               /\ \E code \in IF t.killed THEN {"UserInitiated"} ELSE {"EssentialContainerExited", "SpotInterruption"} :
                    TaskIs(i, [t EXCEPT !.status = "STOPPED", !.stop = code, !.exits = exits])
      BY <1>7 DEF TaskStops
    <2> DEFINE t == cloud.tasks[i]
    <2>2. CASE t.status = "PROVISIONING" /\ TaskIs(i, [t EXCEPT !.status = "STOPPED", !.wanted = FALSE, !.stop = "TaskFailedToStart"])
      <3> DEFINE u == [t EXCEPT !.status = "STOPPED", !.wanted = FALSE, !.stop = "TaskFailedToStart"]
      <3>1. EcsTaskSound(u) /\ EcsTaskLater(t, u)
        BY <1>4, <2>2 DEF EcsTaskSound, EcsTaskLater, EcsTask, Over, Stops
      <3> HIDE DEF u
      <3> QED BY <1>3, <2>2, <3>1 DEF u
    <2>3. CASE t.status = "STOPPING" /\ \E code \in {"UserInitiated", "EssentialContainerExited", "SpotInterruption"} :
                                           TaskIs(i, [t EXCEPT !.status = "STOPPED", !.stop = code, !.exits = exits])
      <3>1. PICK code \in {"UserInitiated", "EssentialContainerExited", "SpotInterruption"} :
                  TaskIs(i, [t EXCEPT !.status = "STOPPED", !.stop = code, !.exits = exits])
        BY <2>3
      <3> DEFINE u == [t EXCEPT !.status = "STOPPED", !.stop = code, !.exits = exits]
      <3>2. ~t.wanted
        BY <1>4, <2>3 DEF EcsTaskSound
      <3>3. EcsTaskSound(u) /\ EcsTaskLater(t, u)
        BY <1>4, <2>3, <3>2 DEF EcsTaskSound, EcsTaskLater, EcsTask, Over, Stops
      <3> HIDE DEF u
      <3> QED BY <1>3, <3>1, <3>3 DEF u
    <2> QED BY <2>1, <2>2, <2>3
  <1>8. CASE TaskForgotten
    <2>1. PICK i \in DOMAIN cloud.tasks : cloud.tasks[i].status = "STOPPED" /\ TaskIs(i, [cloud.tasks[i] EXCEPT !.status = "GONE"])
      BY <1>8 DEF TaskForgotten
    <2> DEFINE t == cloud.tasks[i]
               u == [t EXCEPT !.status = "GONE"]
    <2>2. EcsTaskSound(u) /\ EcsTaskLater(t, u)
      BY <1>4, <2>1 DEF EcsTaskSound, EcsTaskLater, EcsTask, Over
    <2> HIDE DEF u
    <2> QED BY <1>3, <2>1, <2>2 DEF u
  <1>9. CASE TaskRuns
    <2>1. OnlyBy({}) /\ cloud' = [cloud EXCEPT !.tasks = Append(@, NewTask(2))]
      BY <1>9, MovesAlone DEF TaskRuns
    <2> QED BY <1>1, <2>1, TaskAdded
  <1>10. CASE HealthChanges
    <2>1. PICK i \in DOMAIN cloud.tasks : Moves([cloud EXCEPT !.healthy = IF i \in @ THEN @ \ {i} ELSE @ \cup {i}])
      BY <1>10 DEF HealthChanges
    <2>2. OnlyBy({}) /\ cloud' = [cloud EXCEPT !.healthy = IF i \in @ THEN @ \ {i} ELSE @ \cup {i}]
      BY <2>1, MovesAlone
    <2>3. PICK healthy : cloud' = [tasks |-> cloud.tasks, deployments |-> cloud.deployments, healthy |-> healthy]
      BY <1>1, <2>2 DEF EcsFields
    <2> QED BY <1>1, <2>2, <2>3 DEF EcsFields, EcsGoesOn, EcsTaskLater
  <1> QED BY <1>5, <1>6, <1>7, <1>8, <1>9, <1>10

-----------------------------------------------------------------------------
(* The status of a job or a service.                                       *)
LEMMA PhaseIsOf ==
  ASSUME NEW t \in EcsTask
  PROVE  PhaseOf(DeriveEcsJobPhase(t), t)
PROOF
  <1>1. CASE t.status = "PROVISIONING"
    BY <1>1 DEF PhaseOf, DeriveEcsJobPhase
  <1>2. CASE t.status = "STOPPED"
    <2>1. DeriveEcsJobPhase(t) = ClassifyStoppedPhase(t)
      BY <1>2 DEF DeriveEcsJobPhase
    <2> QED BY <1>2, <2>1 DEF PhaseOf, ClassifyStoppedPhase, Over
  <1>3. CASE t.status \notin {"PROVISIONING", "STOPPED"}
    BY <1>3 DEF PhaseOf, DeriveEcsJobPhase
  <1> QED BY <1>1, <1>2, <1>3

LEMMA DescribedView ==
  ASSUME NEW t \in EcsTask
  PROVE  ViewOfTask(StatusTaskFromEcsTask(t), t) /\ DOMAIN StatusTaskFromEcsTask(t) = ViewFields
PROOF
  <1>1. StatusTaskFromEcsTask(t).phase = DeriveEcsJobPhase(t) /\ StatusTaskFromEcsTask(t).def = t.def
    BY DEF StatusTaskFromEcsTask
  <1>2. DOMAIN StatusTaskFromEcsTask(t) = ViewFields
    BY DEF StatusTaskFromEcsTask, ViewFields
  <1> QED BY <1>1, <1>2, PhaseIsOf DEF ViewOfTask

LEMMA EcsStays ==
  ASSUME EcsInv, IsEcs, UNCHANGED cloud
  PROVE  /\ EcsFields /\ EcsFields' /\ EcsGoesOn
         /\ \A c \in Calls : ReadOfEcs(cloud, pc[c], asked[c], read[c])
         /\ \A at, method, x : ReadOfEcs(cloud, at, method, x) => ReadOfEcs(cloud', at, method, x)
         /\ \A method, view : ShownOfEcs(cloud, method, view) => ShownOfEcs(cloud', method, view)
PROOF
  <1>1. EcsFields /\ EcsFields' /\ EcsGoesOn
    BY EcsUnchanged
  <1>2. \A c \in Calls : ReadOfEcs(cloud, pc[c], asked[c], read[c])
    BY DEF EcsInv, EcsCall
  <1> QED BY <1>1, <1>2

(* A request that only reads.                                              *)
LEMMA EcsReads ==
  ASSUME EcsInv, IsEcs, UNCHANGED cloud, NEW c \in Calls, NEW to, NEW x, Proceeds(c, to, x), ReadOfEcs(cloud, to, asked[c], x)
  PROVE  EcsInv' /\ \E S : OnlyBy(S)
  BY EcsStays, EcsProceeds DEF Proceeds

LEMMA EcsShows ==
  ASSUME EcsInv, IsEcs, UNCHANGED cloud, NEW c \in Calls, NEW view, Finishes(c, "ok", view), ShownOfEcs(cloud, asked[c], view)
  PROVE  EcsInv' /\ \E S : OnlyBy(S)
  BY EcsStays, EcsFinishes DEF Finishes

LEMMA EcsRefuses ==
  ASSUME EcsInv, IsEcs, UNCHANGED cloud, Functional, NEW c \in Calls, Refuses(c) \/ Panics(c) \/ CallFails(c)
  PROVE  EcsInv' /\ \E S : OnlyBy(S)
  BY RefusesFails, EcsFails DEF Fails, Finishes

(* A page is a part of its list, and all of it unless there are more tasks *)
(* than a page takes.                                                      *)
LEMMA PageOf ==
  ASSUME EcsFields, NEW tasks, tasks \subseteq DOMAIN cloud.tasks, NEW page \in Pages(tasks)
  PROVE  page \subseteq tasks /\ CutSound(cloud.tasks, page # tasks)
PROOF
  <1>1. PageSize \in Nat /\ Len(cloud.tasks) \in Nat /\ DOMAIN cloud.tasks = 1..Len(cloud.tasks)
    BY EcsStatusAssumption DEF EcsFields
  <1>2. IsFiniteSet(tasks) /\ Cardinality(tasks) <= Len(cloud.tasks) /\ Cardinality(tasks) \in Nat
    <2>1. IsFiniteSet(1..Len(cloud.tasks)) /\ Cardinality(1..Len(cloud.tasks)) = Len(cloud.tasks)
      BY <1>1, FS_Interval
    <2>2. IsFiniteSet(tasks) /\ Cardinality(tasks) <= Cardinality(1..Len(cloud.tasks))
      BY <1>1, <2>1, FS_Subset
    <2> QED BY <2>1, <2>2, FS_CardinalityType
  <1>3. page \subseteq tasks
    BY DEF Pages
  <1>4. page # tasks => ~(Cardinality(tasks) <= PageSize)
    BY DEF Pages
  <1>5. page # tasks => PageSize + 1 \in 1..Len(cloud.tasks)
    BY <1>1, <1>2, <1>4
  <1> QED BY <1>1, <1>3, <1>5 DEF CutSound

LEMMA EcsLists ==
  ASSUME EcsInv, IsEcs, Functional, NEW c \in Calls,
         ListFamilyTasks(c) \/ FirstListFails(c) \/ ListStoppedTasks(c) \/ ListServiceTasks(c)
  PROVE  EcsInv' /\ \E S : OnlyBy(S)
PROOF
  <1>0. cloud' = cloud
    BY DEF ListFamilyTasks, FirstListFails, ListStoppedTasks, ListServiceTasks, GoesWithout
  <1>1. EcsFields /\ ReadOfEcs(cloud, pc[c], asked[c], read[c])
    BY <1>0, EcsStays
  <1>2. Existing \subseteq DOMAIN cloud.tasks /\ \A i \in DOMAIN cloud.tasks : cloud.tasks[i].wanted \in BOOLEAN
    BY <1>1 DEF Existing, EcsFields, EcsTaskSound, EcsTask
  <1>7. FamilyTasks("first") \subseteq DOMAIN cloud.tasks /\ FamilyTasks("second") \subseteq DOMAIN cloud.tasks
    BY <1>2 DEF FamilyTasks, Wanted
  <1>3. CASE ListFamilyTasks(c)
    <2>0. PICK page \in Pages(FamilyTasks("first")) :
            Goes(c, "stopped", [found |-> page, since |-> Existing, lost |-> FALSE, cut |-> page # FamilyTasks("first")])
      BY <1>3 DEF ListFamilyTasks
    <2> DEFINE cut == page # FamilyTasks("first")
               x == [found |-> page, since |-> Existing, lost |-> FALSE, cut |-> cut]
    <2>1. Proceeds(c, "stopped", x) /\ asked[c] = "Status"
      BY <1>3, <2>0, GoesProceeds DEF ListFamilyTasks, Starting
    <2>2. \A i \in Existing : i \in FamilyTasks("first") \/ ~cloud.tasks[i].wanted
      BY <1>2 DEF FamilyTasks, Wanted
    <2>4. CutSound(cloud.tasks, cut)
      BY <1>1, <1>7, <2>0, PageOf
    <2>5. ~cut => \A i \in Existing : i \in page \/ ~cloud.tasks[i].wanted
      BY <2>2
    <2>6. x.since = Existing /\ x.found = page /\ x.cut = cut
      OBVIOUS
    <2> HIDE DEF x, cut
    <2>3. ReadOfEcs(cloud, "stopped", "Status", x)
      BY <1>2, <2>4, <2>5, <2>6 DEF ReadOfEcs, Describing
    <2> QED BY <1>0, <2>1, <2>3, EcsReads
  <1>4. CASE FirstListFails(c)
    <2> DEFINE x == [found |-> {}, since |-> Existing, lost |-> TRUE, cut |-> FALSE]
    <2>1. Proceeds(c, "stopped", x) /\ asked[c] = "Status"
      BY <1>4, GoesProceeds DEF FirstListFails, Starting
    <2>2. ReadOfEcs(cloud, "stopped", "Status", x)
      BY <1>2 DEF ReadOfEcs, Describing, CutSound
    <2> HIDE DEF x
    <2> QED BY <1>0, <2>1, <2>2, EcsReads
  <1>5. CASE ListStoppedTasks(c)
    <2>0. PICK page \in Pages(FamilyTasks("second")) :
            LET found == read[c].found \cup page
                cut == read[c].cut \/ page # FamilyTasks("second")
            IN
            IF read[c].lost THEN Panics(c)
            ELSE IF found = {} THEN Returns(c, EmptyView(read[c].since, cut))
            ELSE Goes(c, "describe", [found |-> found, since |-> read[c].since, cut |-> cut,
                                      arns |-> Cardinality(read[c].found) + Cardinality(page)])
      BY <1>5 DEF ListStoppedTasks
    <2> DEFINE found == read[c].found \cup page
               since == read[c].since
               cut == read[c].cut \/ page # FamilyTasks("second")
    <2>1. pc[c] = "stopped"
      BY <1>5 DEF ListStoppedTasks
    <2>2. asked[c] = "Status"
      BY <1>1, <2>1 DEF ReadOfEcs
    <2>3. ~read[c].lost => NoneMissing(cloud.tasks, since, found, cut)
      <3>1. CutSound(cloud.tasks, page # FamilyTasks("second"))
        BY <1>1, <1>7, PageOf
      <3>2. CutSound(cloud.tasks, cut)
        BY <1>1, <2>1, <3>1 DEF ReadOfEcs, CutSound
      <3>3. since \subseteq DOMAIN cloud.tasks
        BY <1>1, <2>1 DEF ReadOfEcs
      <3>4. ~read[c].lost /\ ~cut => \A i \in since : cloud.tasks[i].status # "GONE" => i \in found
        BY <1>1, <1>2, <2>1, <3>3 DEF ReadOfEcs, FamilyTasks, Wanted, Existing
      <3> QED BY <3>2, <3>3, <3>4 DEF NoneMissing
    <2>4. CASE read[c].lost
      <3>1. Panics(c)
        BY <2>0, <2>4
      <3> QED BY <1>0, <3>1, EcsRefuses
    <2>5. CASE ~read[c].lost /\ found = {}
      <3>1. Finishes(c, "ok", EmptyView(since, cut))
        BY <2>0, <2>5, ReturnsFinishes
      <3>2. EmptyView(since, cut).tasks = <<>> /\ EmptyView(since, cut).since = since /\ EmptyView(since, cut).cut = cut /\ DOMAIN <<>> = {}
        BY DEF EmptyView
      <3>3. NoneMissing(cloud.tasks, since, {}, cut)
        BY <2>3, <2>5
      <3> HIDE DEF found, since, cut
      <3>4. ShownOfEcs(cloud, "Status", EmptyView(since, cut))
        BY <3>2, <3>3 DEF ShownOfEcs, ViewsOfTasks
      <3> QED BY <1>0, <2>2, <3>1, <3>4, EcsShows
    <2>6. CASE ~read[c].lost /\ found # {}
      <3> DEFINE x == [found |-> found, since |-> since, cut |-> cut, arns |-> Cardinality(read[c].found) + Cardinality(page)]
      <3>1. Proceeds(c, "describe", x)
        BY <2>0, <2>6, GoesProceeds
      <3>2. x.found = found /\ x.since = since /\ x.cut = cut
        OBVIOUS
      <3> HIDE DEF x, found, since, cut
      <3>3. ReadOfEcs(cloud, "describe", "Status", x)
        BY <2>3, <2>6, <3>2 DEF ReadOfEcs, Describing
      <3> QED BY <1>0, <2>2, <3>1, <3>3, EcsReads
    <2> QED BY <2>4, <2>5, <2>6
  <1>6. CASE ListServiceTasks(c)
    <2>1. asked[c] = "Status" /\ IsEcsService
      BY <1>6 DEF ListServiceTasks, Starting
    <2>4. PICK found \in Pages(Wanted(TRUE)) :
            IF found = {}
            THEN Goes(c, "service", EmptyView({}, FALSE))
            ELSE Goes(c, "describe", [found |-> found, since |-> {}, cut |-> FALSE, arns |-> Cardinality(found)])
      BY <1>6 DEF ListServiceTasks
    <2>2. CASE found = {}
      <3> DEFINE x == EmptyView({}, FALSE)
      <3>1. Proceeds(c, "service", x)
        BY <2>2, <2>4, GoesProceeds
      <3>2. DOMAIN x = {"tasks", "since", "cut"} /\ x.tasks = <<>> /\ x.since = {} /\ x.cut = FALSE /\ DOMAIN <<>> = {}
        BY DEF EmptyView
      <3> HIDE DEF x
      <3>3. ReadOfEcs(cloud, "service", "Status", x)
        BY <2>1, <3>2 DEF ReadOfEcs, Describing, ViewsOfTasks, NoneMissing, CutSound
      <3> QED BY <1>0, <2>1, <3>1, <3>3, EcsReads
    <2>3. CASE found # {}
      <3> DEFINE x == [found |-> found, since |-> {}, cut |-> FALSE, arns |-> Cardinality(found)]
      <3>1. Proceeds(c, "describe", x)
        BY <2>3, <2>4, GoesProceeds
      <3>2. ReadOfEcs(cloud, "describe", "Status", x)
        BY DEF ReadOfEcs, Describing, NoneMissing, CutSound
      <3> HIDE DEF x
      <3> QED BY <1>0, <2>1, <3>1, <3>2, EcsReads
    <2> QED BY <2>2, <2>3
  <1> QED BY <1>3, <1>4, <1>5, <1>6

LEMMA EcsDescribes ==
  ASSUME EcsInv, IsEcs, Functional, NEW c \in Calls, DescribeTasks(c) \/ GetServiceOf(c) \/ RefreshHealth(c) \/ EnrichTasks(c)
  PROVE  EcsInv' /\ \E S : OnlyBy(S)
PROOF
  <1>0. cloud' = cloud
    BY DEF DescribeTasks, GetServiceOf, RefreshHealth, EnrichTasks
  <1>1. EcsFields /\ ReadOfEcs(cloud, pc[c], asked[c], read[c])
    BY <1>0, EcsStays
  <1>2. CASE DescribeTasks(c)
    <2> DEFINE known == read[c].found \cap Existing
               views == [i \in known |-> StatusTaskFromEcsTask(cloud.tasks[i])]
               x == [tasks |-> views, since |-> read[c].since, cut |-> read[c].cut]
               to == IF IsEcsService THEN "service" ELSE "definitions"
    <2>8. CASE read[c].arns > PageSize
      <3>1. Refuses(c)
        BY <1>2, <2>8 DEF DescribeTasks
      <3> QED BY <1>0, <3>1, EcsRefuses
    <2>9. SUFFICES ASSUME ~(read[c].arns > PageSize) PROVE EcsInv' /\ \E S : OnlyBy(S)
      BY <2>8
    <2>1. pc[c] = "describe" /\ Proceeds(c, to, x)
      BY <1>2, <2>9, GoesProceeds DEF DescribeTasks
    <2>2. asked[c] = "Status" /\ NoneMissing(cloud.tasks, read[c].since, read[c].found, read[c].cut)
      BY <1>1, <2>1 DEF ReadOfEcs
    <2>3. ASSUME NEW i \in known
          PROVE  i \in DOMAIN cloud.tasks /\ ViewOfTask(views[i], cloud.tasks[i]) /\ DOMAIN views[i] = ViewFields
      <3>1. i \in DOMAIN cloud.tasks /\ cloud.tasks[i] \in EcsTask
        BY <1>1 DEF Existing, EcsFields, EcsTaskSound
      <3> QED BY <3>1, DescribedView
    <2>4. ViewsOfTasks(cloud.tasks, views)
      BY <2>3 DEF ViewsOfTasks
    <2>5. NoneMissing(cloud.tasks, read[c].since, DOMAIN views, read[c].cut)
      BY <2>2 DEF NoneMissing, Existing
    <2> HIDE DEF views
    <2>6. DOMAIN x = {"tasks", "since", "cut"} /\ x.tasks = views /\ x.since = read[c].since /\ x.cut = read[c].cut
      OBVIOUS
    <2> HIDE DEF x
    <2>7. ReadOfEcs(cloud, to, "Status", x)
      BY <2>4, <2>5, <2>6 DEF ReadOfEcs, Describing
    <2> HIDE DEF to
    <2> QED BY <1>0, <2>1, <2>2, <2>7, EcsReads
  <1>3. CASE GetServiceOf(c)
    <2>1. pc[c] = "service" /\ Proceeds(c, "health", read[c])
      BY <1>3, GoesProceeds DEF GetServiceOf
    <2>2. ReadOfEcs(cloud, "health", asked[c], read[c])
      BY <1>1, <2>1 DEF ReadOfEcs, Describing
    <2> QED BY <1>0, <2>1, <2>2, EcsReads
  <1>4. CASE RefreshHealth(c)
    <2> DEFINE old == read[c].tasks
               views == [i \in DOMAIN old |-> [old[i] EXCEPT !.health = IF i \in cloud.healthy THEN "healthy" ELSE "unhealthy"]]
               x == [read[c] EXCEPT !.tasks = views]
    <2>1. pc[c] = "health" /\ Goes(c, "definitions", [read[c] EXCEPT !.tasks =
       [i \in DOMAIN @ |-> [@[i] EXCEPT !.health = IF i \in cloud.healthy THEN "healthy" ELSE "unhealthy"]]])
      BY <1>4 DEF RefreshHealth
    <2>2. Proceeds(c, "definitions", x)
      BY <2>1, GoesProceeds
    <2>3. /\ asked[c] = "Status" /\ DOMAIN read[c] = {"tasks", "since", "cut"}
          /\ ViewsOfTasks(cloud.tasks, old) /\ NoneMissing(cloud.tasks, read[c].since, DOMAIN old, read[c].cut)
      BY <1>1, <2>1 DEF ReadOfEcs, Describing
    <2>4. \A i \in DOMAIN old : views[i].def = old[i].def /\ views[i].phase = old[i].phase /\ DOMAIN views[i] = ViewFields
      BY <2>3 DEF ViewsOfTasks, ViewFields
    <2>5. DOMAIN views = DOMAIN old
      OBVIOUS
    <2>6. x.tasks = views /\ x.since = read[c].since /\ x.cut = read[c].cut /\ DOMAIN x = {"tasks", "since", "cut"}
      BY <2>3
    <2> HIDE DEF views, x
    <2>7. ViewsOfTasks(cloud.tasks, views) /\ NoneMissing(cloud.tasks, read[c].since, DOMAIN views, read[c].cut)
      BY <2>3, <2>4, <2>5 DEF ViewsOfTasks, ViewOfTask
    <2>8. ReadOfEcs(cloud, "definitions", "Status", x)
      BY <2>6, <2>7 DEF ReadOfEcs, Describing
    <2> QED BY <1>0, <2>2, <2>3, <2>8, EcsReads
  <1>5. CASE EnrichTasks(c)
    <2> DEFINE old == read[c].tasks
    <2>1. PICK untagged \in SUBSET DOMAIN old :
       Ends(c, "ok", [read[c] EXCEPT !.tasks =
            [i \in DOMAIN @ |-> LET t == read[c].tasks[i] IN
               [t EXCEPT !.image = OutputsDefinition,
                         !.version = IF IsEcsService \/ i \in untagged THEN NoVersion ELSE VersionTag(t.def)]]])
      BY <1>5 DEF EnrichTasks
    <2> DEFINE version(i) == IF IsEcsService \/ i \in untagged THEN NoVersion ELSE VersionTag(old[i].def)
               views == [i \in DOMAIN old |-> [old[i] EXCEPT !.image = OutputsDefinition, !.version = version(i)]]
               x == [read[c] EXCEPT !.tasks = views]
    <2>2. Finishes(c, "ok", x) /\ pc[c] = "definitions"
      BY <1>5, <2>1, EndsFinishes DEF EnrichTasks
    <2>3. /\ asked[c] = "Status" /\ DOMAIN read[c] = {"tasks", "since", "cut"}
          /\ ViewsOfTasks(cloud.tasks, old) /\ NoneMissing(cloud.tasks, read[c].since, DOMAIN old, read[c].cut)
      BY <1>1, <2>2 DEF ReadOfEcs, Describing
    <2>4. \A i : version(i) \in {NoVersion, old[i].def}
      BY DEF VersionTag
    <2> HIDE DEF version
    <2>5. \A i \in DOMAIN old : /\ views[i].def = old[i].def /\ views[i].phase = old[i].phase /\ DOMAIN views[i] = ViewFields
                                /\ views[i].version = version(i)
      BY <2>3 DEF ViewsOfTasks, ViewFields
    <2>6. DOMAIN views = DOMAIN old
      OBVIOUS
    <2>7. x.tasks = views /\ x.since = read[c].since /\ x.cut = read[c].cut
      BY <2>3
    <2> HIDE DEF views, x
    <2>8. ViewsOfTasks(cloud.tasks, views) /\ NoneMissing(cloud.tasks, read[c].since, DOMAIN views, read[c].cut)
          /\ \A i \in DOMAIN views : views[i].version \in {NoVersion, views[i].def}
      BY <2>3, <2>4, <2>5, <2>6 DEF ViewsOfTasks, ViewOfTask
    <2>9. ShownOfEcs(cloud, "Status", x)
      BY <2>7, <2>8 DEF ShownOfEcs
    <2> QED BY <1>0, <2>2, <2>3, <2>9, EcsShows
  <1> QED BY <1>2, <1>3, <1>4, <1>5

-----------------------------------------------------------------------------
(* The overview of a job or a service, and the actions.                    *)
LEMMA EcsOverviews ==
  ASSUME EcsInv, IsEcs, Functional, NEW c \in Calls, OverviewOfJob(c) \/ GetDeployments(c) \/ TagDeployments(c)
  PROVE  EcsInv' /\ \E S : OnlyBy(S)
PROOF
  <1>0. cloud' = cloud
    BY DEF OverviewOfJob, GetDeployments, TagDeployments
  <1>1. EcsFields /\ ReadOfEcs(cloud, pc[c], asked[c], read[c])
    BY <1>0, EcsStays
  <1>2. CASE OverviewOfJob(c)
    <2>1. Finishes(c, "ok", <<>>) /\ asked[c] = "StatusOverview" /\ IsEcsJob
      BY <1>2, ReturnsFinishes DEF OverviewOfJob, Starting
    <2>2. ~IsEcsService
      BY <2>1 DEF IsEcsJob, IsEcsService
    <2>3. ShownOfEcs(cloud, "StatusOverview", <<>>)
      BY <2>2 DEF ShownOfEcs
    <2> QED BY <1>0, <2>1, <2>3, EcsShows
  <1>3. CASE GetDeployments(c)
    <2>1. Proceeds(c, "tags", cloud.deployments) /\ asked[c] = "StatusOverview"
      BY <1>3, GoesProceeds DEF GetDeployments, Starting
    <2>2. ReadOfEcs(cloud, "tags", "StatusOverview", cloud.deployments)
      BY DEF ReadOfEcs, Describing
    <2> QED BY <1>0, <2>1, <2>2, EcsReads
  <1>4. CASE TagDeployments(c)
    <2>1. PICK untagged \in SUBSET DOMAIN read[c] :
       Ends(c, "ok", [i \in DOMAIN read[c] |->
            [def |-> read[c][i], version |-> IF i \in untagged THEN NoVersion ELSE VersionTag(read[c][i])]])
      BY <1>4 DEF TagDeployments
    <2> DEFINE view == [i \in DOMAIN read[c] |->
            [def |-> read[c][i], version |-> IF i \in untagged THEN NoVersion ELSE VersionTag(read[c][i])]]
    <2>2. Finishes(c, "ok", view) /\ pc[c] = "tags"
      BY <1>4, <2>1, EndsFinishes DEF TagDeployments
    <2>3. asked[c] = "StatusOverview"
          /\ \A i \in DOMAIN read[c] : i \in DOMAIN cloud.deployments /\ read[c][i] = cloud.deployments[i]
      BY <1>1, <2>2 DEF ReadOfEcs
    <2>4. \A i \in DOMAIN view : i \in DOMAIN cloud.deployments /\ view[i].version \in {NoVersion, cloud.deployments[i]}
      BY <2>3 DEF VersionTag
    <2> HIDE DEF view
    <2>5. ShownOfEcs(cloud, "StatusOverview", view)
      BY <2>4 DEF ShownOfEcs
    <2> QED BY <1>0, <2>2, <2>3, <2>5, EcsShows
  <1> QED BY <1>2, <1>3, <1>4

(* What an action returns is not a view.                                   *)
LEMMA EcsActionShows ==
  ASSUME NEW svc, NEW method, method \notin {"Status", "StatusOverview"}, NEW view
  PROVE  ShownOfEcs(svc, method, view)
  BY DEF ShownOfEcs

LEMMA EcsRestarts ==
  ASSUME EcsInv, IsEcs, Functional, NEW c \in Calls, RestartDeployment(c)
  PROVE  EcsInv' /\ \E S : OnlyBy(S)
PROOF
  <1>1. EcsFields
    BY DEF EcsInv
  <1>2. CASE IsEcsJob
    <2>1. Refuses(c) /\ cloud' = cloud
      BY <1>2 DEF RestartDeployment
    <2> QED BY <2>1, EcsRefuses
  <1>3. CASE ~IsEcsJob
    <2> DEFINE old == cloud.deployments
               new == Append(old, old[Len(old)])
    <2>1. Finishes(c, "ok", Nothing) /\ asked[c] = "restart-deployment"
          /\ cloud' = [cloud EXCEPT !.deployments = Append(@, @[Len(@)])]
      BY <1>3, ReturnsFinishes DEF RestartDeployment, Starting
    <2>2. cloud' = [tasks |-> cloud.tasks, deployments |-> new, healthy |-> cloud.healthy]
      BY <1>1, <2>1 DEF EcsFields
    <2>3. new \in Seq(Nat) /\ new # <<>> /\ \A i \in DOMAIN old : i \in DOMAIN new /\ new[i] = old[i]
      BY <1>1 DEF EcsFields
    <2> HIDE DEF new
    <2>4. EcsFields' /\ EcsGoesOn
      BY <1>1, <2>2, <2>3 DEF EcsFields, EcsGoesOn, EcsTaskLater
    <2>5. ShownOfEcs(cloud', asked[c], Nothing)
      BY <2>1, EcsActionShows
    <2> QED BY <2>1, <2>4, <2>5, EcsFinishes DEF Finishes
  <1> QED BY <1>2, <1>3

LEMMA EcsKills ==
  ASSUME EcsInv, IsEcs, Functional, NEW c \in Calls, KillTask(c)
  PROVE  EcsInv' /\ \E S : OnlyBy(S)
PROOF
  <1>1. EcsFields /\ asked[c] = "kill-task"
    BY DEF EcsInv, KillTask, Starting
  <1>2. PICK i \in DOMAIN cloud.tasks : LET t == cloud.tasks[i] IN
       IF t.status = "GONE"
       THEN Refuses(c) /\ UNCHANGED cloud
       ELSE /\ Returns(c, i)
            /\ cloud' = IF t.wanted
                        THEN [cloud EXCEPT !.tasks[i] = [t EXCEPT !.wanted = FALSE, !.killed = TRUE, !.status = "STOPPING"]]
                        ELSE cloud
    BY DEF KillTask
  <1> DEFINE t == cloud.tasks[i]
             u == [t EXCEPT !.wanted = FALSE, !.killed = TRUE, !.status = "STOPPING"]
  <1>3. CASE t.status = "GONE"
    <2>1. Refuses(c) /\ cloud' = cloud
      BY <1>2, <1>3
    <2> QED BY <2>1, EcsRefuses
  <1>4. CASE t.status # "GONE"
    <2>1. Finishes(c, "ok", i) /\ cloud' = IF t.wanted THEN [cloud EXCEPT !.tasks[i] = u] ELSE cloud
      BY <1>2, <1>4, ReturnsFinishes
    <2>2. EcsTaskSound(t)
      BY <1>1 DEF EcsFields
    <2>3. EcsFields' /\ EcsGoesOn
      <3>1. CASE ~t.wanted
        <4>1. cloud' = cloud
          BY <2>1, <3>1
        <4> QED BY <4>1, EcsUnchanged
      <3>2. CASE t.wanted
        <4>1. EcsTaskSound(u) /\ EcsTaskLater(t, u)
          BY <2>2, <3>2 DEF EcsTaskSound, EcsTaskLater, EcsTask, Over
        <4>2. cloud' = [cloud EXCEPT !.tasks[i] = u]
          BY <2>1, <3>2
        <4> HIDE DEF u
        <4> QED BY <1>1, <4>1, <4>2, OneTaskChanges
      <3> QED BY <3>1, <3>2
    <2>4. ShownOfEcs(cloud', asked[c], i)
      BY <1>1, EcsActionShows
    <2> QED BY <2>1, <2>3, <2>4, EcsFinishes DEF Finishes
  <1> QED BY <1>3, <1>4

LEMMA EcsRuns ==
  ASSUME EcsInv, IsEcs, Functional, NEW c \in Calls, DescribeSourceTask(c) \/ RunTask(c) \/ EcsRequestFails(c)
  PROVE  EcsInv' /\ \E S : OnlyBy(S)
PROOF
  <1>1. EcsFields /\ ReadOfEcs(cloud, pc[c], asked[c], read[c])
    BY DEF EcsInv, EcsCall
  <1>2. CASE DescribeSourceTask(c)
    <2>1. PICK i \in DOMAIN cloud.tasks : IF i \in Existing THEN Goes(c, "run", [def |-> cloud.tasks[i].def]) ELSE Refuses(c)
      BY <1>2 DEF DescribeSourceTask
    <2>2. cloud' = cloud
      BY <1>2 DEF DescribeSourceTask
    <2>3. CASE i \in Existing
      <3>1. Proceeds(c, "run", [def |-> cloud.tasks[i].def])
        BY <2>1, <2>3, GoesProceeds
      <3>2. cloud.tasks[i].def \in Nat
        BY <1>1 DEF EcsFields, EcsTaskSound, EcsTask
      <3>3. asked[c] = "rerun-job"
        BY <1>2 DEF DescribeSourceTask, Starting
      <3>4. ReadOfEcs(cloud, "run", asked[c], [def |-> cloud.tasks[i].def])
        BY <3>2, <3>3 DEF ReadOfEcs, Describing
      <3> QED BY <2>2, <3>1, <3>4, EcsReads
    <2>4. CASE i \notin Existing
      <3>1. Refuses(c)
        BY <2>1, <2>4
      <3> QED BY <2>2, <3>1, EcsRefuses
    <2> QED BY <2>3, <2>4
  <1>3. CASE RunTask(c)
    <2>1. pc[c] = "run" /\ Finishes(c, "ok", read[c]) /\ cloud' = [cloud EXCEPT !.tasks = Append(@, NewTask(read[c].def))]
      BY <1>3, ReturnsFinishes DEF RunTask
    <2>2. read[c].def \in Nat /\ asked[c] = "rerun-job"
      BY <1>1, <2>1 DEF ReadOfEcs
    <2>3. EcsFields' /\ EcsGoesOn
      BY <1>1, <2>1, <2>2, TaskAdded
    <2>4. ShownOfEcs(cloud', asked[c], read[c])
      BY <2>2, EcsActionShows
    <2> QED BY <2>1, <2>3, <2>4, EcsFinishes DEF Finishes
  <1>4. CASE EcsRequestFails(c)
    <2>1. CallFails(c) /\ cloud' = cloud
      BY <1>4 DEF EcsRequestFails, CallFails
    <2> QED BY <2>1, EcsRefuses
  <1> QED BY <1>2, <1>3, <1>4

LEMMA EcsStep ==
  ASSUME EcsInv, Functional, EcsStatusNext
  PROVE  EcsInv' /\ \E S : OnlyBy(S)
PROOF
  <1>1. IsEcs
    BY DEF EcsStatusNext
  <1>2. CASE TaskStarts \/ TaskEnding \/ TaskStops \/ TaskForgotten \/ TaskRuns \/ HealthChanges
    BY <1>1, <1>2, EcsMoves
  <1>3. ASSUME NEW c \in Calls,
               \/ ListFamilyTasks(c) \/ FirstListFails(c) \/ ListStoppedTasks(c) \/ ListServiceTasks(c) \/ DescribeTasks(c)
               \/ GetServiceOf(c) \/ RefreshHealth(c) \/ EnrichTasks(c)
               \/ OverviewOfJob(c) \/ GetDeployments(c) \/ TagDeployments(c)
               \/ RestartDeployment(c) \/ KillTask(c) \/ DescribeSourceTask(c) \/ RunTask(c) \/ EcsRequestFails(c)
        PROVE  EcsInv' /\ \E S : OnlyBy(S)
    BY <1>1, <1>3, EcsLists, EcsDescribes, EcsOverviews, EcsRestarts, EcsKills, EcsRuns
  <1> QED BY <1>2, <1>3 DEF EcsStatusNext

LEMMA EcsClaims == EcsInv => EcsPhaseWasTrue /\ EcsMissesNothing /\ EcsVersionsAreOwn
PROOF
  <1> SUFFICES ASSUME EcsInv PROVE EcsPhaseWasTrue /\ EcsMissesNothing /\ EcsVersionsAreOwn
    OBVIOUS
  <1>1. ASSUME NEW c \in Calls, Shows(c, "Status"), IsEcsJob
        PROVE  /\ ViewsOfTasks(cloud.tasks, shown[c].tasks)
               /\ NoneMissing(cloud.tasks, shown[c].since, DOMAIN shown[c].tasks, shown[c].cut)
               /\ \A i \in DOMAIN shown[c].tasks : shown[c].tasks[i].version \in {NoVersion, shown[c].tasks[i].def}
    BY <1>1 DEF EcsInv, IsEcs, EcsCall, Shows, ShownOfEcs
  <1>2. ASSUME NEW c \in Calls, Shows(c, "StatusOverview"), IsEcsService
        PROVE  \A i \in DOMAIN shown[c] : shown[c][i].version \in {NoVersion, cloud.deployments[i]}
    BY <1>2 DEF EcsInv, IsEcs, EcsCall, Shows, ShownOfEcs
  <1>3. EcsPhaseWasTrue
    BY <1>1 DEF EcsPhaseWasTrue, ViewsOfTasks, ViewOfTask, PhaseOf, Over
  <1>4. EcsMissesNothing
    <2>1. ASSUME NEW c \in Calls, IsEcsJob, Shows(c, "Status")
          PROVE  \/ shown[c].since \cap Existing \subseteq DOMAIN shown[c].tasks
                 \/ shown[c].cut /\ PageSize + 1 \in DOMAIN cloud.tasks
      BY <1>1, <2>1 DEF NoneMissing, CutSound, Existing
    <2>2. IsEcsJob => cloud.tasks \in Seq(EcsTask)
      BY DEF EcsInv, IsEcs, EcsFields
    <2>3. IsEcsJob /\ PageSize + 1 \in DOMAIN cloud.tasks => Len(cloud.tasks) > PageSize
      <3>1. IsEcsJob => DOMAIN cloud.tasks = 1..Len(cloud.tasks) /\ Len(cloud.tasks) \in Nat
        BY <2>2
      <3> QED BY <3>1, EcsStatusAssumption
    <2> QED BY <2>1, <2>3 DEF EcsMissesNothing
  <1>5. EcsVersionsAreOwn
    BY <1>1, <1>2 DEF EcsVersionsAreOwn, ViewsOfTasks, ViewOfTask
  <1> QED BY <1>3, <1>4, <1>5

-----------------------------------------------------------------------------
(* Kubernetes.  A job goes one way as well.  Of the calls that share the   *)
(* Statuser one alone lists, and what it listed is never listed again.     *)
K8sJobLater(old, new) ==
  /\ old.started => new.started
  /\ old.condition # "none" => new.condition = old.condition
  /\ old.exit # NoExit => new.exit = old.exit

K8sJobSound(j, job) ==
  /\ DOMAIN job = {"started", "condition", "exit"}
  /\ job.exit \in {NoExit, j}

ListsSound(lists, jobs) ==
  /\ \A j \in DOMAIN lists.jobs : j \in DOMAIN jobs /\ K8sJobLater(lists.jobs[j], jobs[j])
  /\ \A j \in DOMAIN lists.exits : j \in DOMAIN jobs /\ (lists.exits[j] # NoExit => lists.exits[j] = jobs[j].exit)

K8sFields ==
  /\ DOMAIN cloud = {"sets", "pod", "jobs", "deployment", "once", "lists"}
  /\ DOMAIN cloud.lists = {"sets", "pods", "jobs", "exits"}
  /\ DOMAIN cloud.jobs = 1..Len(cloud.jobs) /\ Len(cloud.jobs) \in Nat
  /\ \A j \in DOMAIN cloud.jobs : K8sJobSound(j, cloud.jobs[j])
  /\ ListsSound(cloud.lists, cloud.jobs)

K8sGoesOn ==
  /\ \A j \in DOMAIN cloud.jobs : j \in DOMAIN cloud'.jobs /\ K8sJobLater(cloud.jobs[j], cloud'.jobs[j])
  /\ cloud.once = "done" => cloud'.once = "done" /\ cloud'.lists = cloud.lists

Listing == {"sets", "services", "pods", "jobs"}

ReadOfK8s(svc, at, method) ==
  /\ at \in Listing => svc.once = "loading"
  /\ at = "view" => svc.once = "done"
  /\ at \in Listing \cup {"view"} => method \in Views /\ app.aspect # "unnamed"
  /\ at = "create" => method = "rerun-job"

ShownOfK8s(svc, method, view) ==
  method \in Views =>
    IF app.aspect = "unnamed" THEN view = NoView
    ELSE /\ svc.once = "done"
         /\ view.sets = ExcludeOldReplicaSets(svc.lists.sets)
         /\ method = "Status" => view.jobs = [j \in DOMAIN svc.lists.jobs |-> JobExecution(j, svc.lists)]
         /\ method = "StatusOverview" => view.counts = JobSummary(svc.lists.jobs)

K8sCall(c) ==
  /\ ReadOfK8s(cloud, pc[c], asked[c])
  /\ result[c] = "ok" => ShownOfK8s(cloud, asked[c], shown[c])

OneLists == \A c, d \in Calls : pc[c] \in Listing /\ pc[d] \in Listing => c = d

K8sInv == IsK8s => K8sFields /\ OneLists /\ \A c \in Calls : K8sCall(c)

LEMMA K8sInit == K8sStatusInit => K8sInv
PROOF
  <1> SUFFICES ASSUME K8sStatusInit PROVE K8sInv
    OBVIOUS
  <1>1. PICK aspect \in {"pods", "rollout", "jobs", "unnamed"} :
          cloud = [sets |-> <<1>>, pod |-> NewPod, jobs |-> <<NewJob>>,
                deployment |-> NewDeployment(aspect # "jobs"), once |-> "idle", lists |-> NotListed]
    BY DEF K8sStatusInit
  <1>2. PICK pod, deployment : cloud = [sets |-> <<1>>, pod |-> pod, jobs |-> <<NewJob>>, deployment |-> deployment,
                                        once |-> "idle", lists |-> NotListed]
    BY <1>1
  <1>3. DOMAIN cloud = {"sets", "pod", "jobs", "deployment", "once", "lists"} /\ cloud.jobs = <<NewJob>> /\ cloud.lists = NotListed
    BY <1>2
  <1>4. /\ DOMAIN NotListed = {"sets", "pods", "jobs", "exits"} /\ NotListed.jobs = <<>> /\ NotListed.exits = <<>>
        /\ K8sJobSound(1, NewJob)
    BY DEF NotListed, NewJob, K8sJobSound, NoExit
  <1> HIDE DEF NewJob, NotListed
  <1>5. ListsSound(cloud.lists, cloud.jobs)
    BY <1>3, <1>4 DEF ListsSound
  <1>6. K8sFields
    BY <1>3, <1>4, <1>5 DEF K8sFields
  <1>7. \A c \in Calls : pc[c] = "start" /\ result[c] = "none"
    BY DEF K8sStatusInit, CallsInit
  <1>8. OneLists /\ \A c \in Calls : K8sCall(c)
    BY <1>7 DEF OneLists, K8sCall, ReadOfK8s, Listing
  <1> QED BY <1>6, <1>8 DEF K8sInv

(* A job that is later than one that is later.                             *)
LEMMA ListsLater ==
  ASSUME NEW lists, NEW jobs, NEW later, ListsSound(lists, jobs),
         \A j \in DOMAIN jobs : j \in DOMAIN later /\ K8sJobLater(jobs[j], later[j])
  PROVE  ListsSound(lists, later)
  BY DEF ListsSound, K8sJobLater

LEMMA K8sOthers ==
  ASSUME K8sGoesOn, NEW S, OnlyBy(S), NEW d \in Calls \ S, K8sCall(d), pc[d] \in Listing => cloud'.once = "loading"
  PROVE  K8sCall(d)'
PROOF
  <1>1. pc'[d] = pc[d] /\ asked' = asked /\ app' = app /\ result'[d] = result[d] /\ shown'[d] = shown[d]
    BY DEF OnlyBy
  <1>2. ReadOfK8s(cloud', pc[d], asked[d])
    BY DEF K8sCall, ReadOfK8s, K8sGoesOn
  <1>3. result[d] = "ok" => ShownOfK8s(cloud', asked[d], shown[d])
    BY DEF K8sCall, ShownOfK8s, K8sGoesOn
  <1> QED BY <1>1, <1>2, <1>3 DEF K8sCall, ReadOfK8s, ShownOfK8s

(* A step of the cluster, after which the jobs are as they were or later,  *)
(* and the lists are the same.                                             *)
LEMMA K8sSame ==
  ASSUME K8sFields, DOMAIN cloud' = DOMAIN cloud, cloud'.once = cloud.once, cloud'.lists = cloud.lists,
         DOMAIN cloud'.jobs = 1..Len(cloud'.jobs), Len(cloud'.jobs) \in Nat,
         \A j \in DOMAIN cloud'.jobs : K8sJobSound(j, cloud'.jobs[j]),
         \A j \in DOMAIN cloud.jobs : j \in DOMAIN cloud'.jobs /\ K8sJobLater(cloud.jobs[j], cloud'.jobs[j])
  PROVE  K8sFields' /\ K8sGoesOn /\ cloud'.once = cloud.once
PROOF
  <1>1. ListsSound(cloud'.lists, cloud'.jobs)
    BY ListsLater DEF K8sFields
  <1> QED BY <1>1 DEF K8sFields, K8sGoesOn

LEMMA K8sSameJobs ==
  ASSUME K8sFields, DOMAIN cloud' = DOMAIN cloud, cloud'.once = cloud.once, cloud'.lists = cloud.lists, cloud'.jobs = cloud.jobs
  PROVE  K8sFields' /\ K8sGoesOn /\ cloud'.once = cloud.once
  BY K8sSame DEF K8sFields, K8sJobLater

LEMMA K8sProceeds ==
  ASSUME K8sInv, IsK8s, K8sFields', K8sGoesOn, NEW c \in Calls, NEW to, NEW x, Proceeds(c, to, x),
         ReadOfK8s(cloud', to, asked[c]),
         to \in Listing => pc[c] \in Listing \/ cloud.once # "loading",
         cloud'.once = cloud.once \/ pc[c] \in Listing \/ cloud.once # "loading"
  PROVE  K8sInv' /\ \E S : OnlyBy(S)
PROOF
  <1>1. OnlyBy({c}) /\ asked' = asked /\ app' = app /\ pc'[c] = to /\ result'[c] = result[c] /\ shown'[c] = shown[c]
    BY DEF Proceeds, OnlyBy
  <1>2. OneLists /\ \A d \in Calls : K8sCall(d)
    BY DEF K8sInv
  <1>3. \A d \in Calls \ {c} : pc[d] \in Listing => cloud'.once = "loading" /\ to \notin Listing
    BY <1>2 DEF OneLists, K8sCall, ReadOfK8s
  <1>4. \A d \in Calls \ {c} : K8sCall(d)'
    BY <1>1, <1>2, <1>3, K8sOthers
  <1>5. result[c] = "ok" => ShownOfK8s(cloud', asked[c], shown[c])
    BY <1>2 DEF K8sCall, ShownOfK8s, K8sGoesOn
  <1>6. K8sCall(c)'
    BY <1>1, <1>5 DEF K8sCall, ReadOfK8s, ShownOfK8s
  <1>7. OneLists'
    BY <1>1, <1>2, <1>3 DEF OneLists, OnlyBy
  <1> QED BY <1>1, <1>4, <1>6, <1>7 DEF K8sInv

LEMMA K8sFinishes ==
  ASSUME K8sInv, IsK8s, K8sFields', K8sGoesOn, NEW c \in Calls, NEW res, NEW view, Finishes(c, res, view),
         res = "ok" => ShownOfK8s(cloud', asked[c], view),
         cloud'.once = cloud.once \/ pc[c] \in Listing
  PROVE  K8sInv' /\ \E S : OnlyBy(S)
PROOF
  <1>1. OnlyBy({c}) /\ asked' = asked /\ app' = app /\ pc'[c] = "returned" /\ result'[c] = res /\ shown'[c] = view
    BY DEF Finishes, OnlyBy
  <1>2. OneLists /\ \A d \in Calls : K8sCall(d)
    BY DEF K8sInv
  <1>3. \A d \in Calls \ {c} : pc[d] \in Listing => cloud'.once = "loading"
    BY <1>2 DEF OneLists, K8sCall, ReadOfK8s
  <1>4. \A d \in Calls \ {c} : K8sCall(d)'
    BY <1>1, <1>2, <1>3, K8sOthers
  <1>5. K8sCall(c)'
    BY <1>1 DEF K8sCall, ReadOfK8s, ShownOfK8s, Listing
  <1>6. OneLists'
    BY <1>1, <1>2 DEF OneLists, OnlyBy, Listing
  <1> QED BY <1>1, <1>4, <1>5, <1>6 DEF K8sInv

LEMMA K8sFails ==
  ASSUME K8sInv, IsK8s, UNCHANGED cloud, NEW c \in Calls, Fails(c)
  PROVE  K8sInv' /\ \E S : OnlyBy(S)
PROOF
  <1>1. K8sFields /\ K8sFields' /\ K8sGoesOn
    BY K8sSameJobs DEF K8sInv
  <1> QED BY <1>1, K8sFinishes DEF Fails

-----------------------------------------------------------------------------
(* The steps of the cluster.                                               *)
LEMMA K8sMoved ==
  ASSUME K8sInv, IsK8s, OnlyBy({}), K8sFields', K8sGoesOn, cloud'.once = cloud.once
  PROVE  K8sInv' /\ \E S : OnlyBy(S)
PROOF
  <1>1. OneLists /\ \A d \in Calls : K8sCall(d)
    BY DEF K8sInv
  <1>2. \A d \in Calls : K8sCall(d)'
    BY <1>1, K8sOthers DEF K8sCall, ReadOfK8s
  <1>3. OneLists'
    BY <1>1 DEF OneLists, OnlyBy
  <1> QED BY <1>2, <1>3 DEF K8sInv

LEMMA K8sPods ==
  ASSUME K8sInv, IsK8s, Functional,
         CannotBeScheduled \/ CannotStart \/ ContainerStarts \/ ContainerEnds \/ BacksOff \/ EndForgotten \/ PodEvicted \/ PodDisrupted
  PROVE  K8sInv' /\ \E S : OnlyBy(S)
PROOF
  <1>1. \E pod : PodIs(pod)
    BY Zenon DEF CannotBeScheduled, CannotStart, ContainerStarts, ContainerEnds, BacksOff, EndForgotten, PodEvicted, PodDisrupted
  <1>2. PICK pod : Moves([cloud EXCEPT !.pod = pod])
    BY <1>1 DEF PodIs
  <1>3. OnlyBy({}) /\ cloud' = [cloud EXCEPT !.pod = pod]
    BY <1>2, MovesAlone
  <1>4. K8sFields
    BY DEF K8sInv
  <1>5. DOMAIN cloud' = DOMAIN cloud /\ cloud'.once = cloud.once /\ cloud'.lists = cloud.lists /\ cloud'.jobs = cloud.jobs
    BY <1>3, <1>4 DEF K8sFields
  <1> QED BY <1>3, <1>4, <1>5, K8sSameJobs, K8sMoved

LEMMA K8sRollouts ==
  ASSUME K8sInv, IsK8s, Functional, RolloutMoves \/ RolloutSeen \/ RolloutLate \/ RolloutBlocked
  PROVE  K8sInv' /\ \E S : OnlyBy(S)
PROOF
  <1>1. K8sFields
    BY DEF K8sInv
  <1>2. OnlyBy({})
    BY MovesAlone DEF RolloutMoves, RolloutSeen, RolloutLate, RolloutBlocked, DeploymentIs
  <1>3. DOMAIN cloud' = DOMAIN cloud /\ cloud'.once = cloud.once /\ cloud'.lists = cloud.lists /\ cloud'.jobs = cloud.jobs
    <2>1. CASE RolloutMoves
      <3>1. PICK r : Moves([cloud EXCEPT !.sets[r] = IF @ = 0 THEN 1 ELSE 0])
        BY <2>1 DEF RolloutMoves
      <3> QED BY <1>1, <3>1 DEF Moves, K8sFields
    <2>2. CASE RolloutSeen \/ RolloutLate \/ RolloutBlocked
      <3>1. PICK d : DeploymentIs(d)
        BY <2>2, Zenon DEF RolloutSeen, RolloutLate, RolloutBlocked
      <3> QED BY <1>1, <3>1 DEF DeploymentIs, Moves, K8sFields
    <2> QED BY <2>1, <2>2
  <1> QED BY <1>1, <1>2, <1>3, K8sSameJobs, K8sMoved

(* One job changes, or one is added.                                       *)
LEMMA OneJobChanges ==
  ASSUME K8sFields, NEW j \in DOMAIN cloud.jobs, NEW job, K8sJobSound(j, job), K8sJobLater(cloud.jobs[j], job),
         cloud' = [cloud EXCEPT !.jobs[j] = job]
  PROVE  K8sFields' /\ K8sGoesOn /\ cloud'.once = cloud.once
PROOF
  <1> DEFINE jobs == [cloud.jobs EXCEPT ![j] = job]
  <1>1. /\ DOMAIN jobs = DOMAIN cloud.jobs /\ jobs[j] = job
        /\ \A i \in DOMAIN cloud.jobs : i # j => jobs[i] = cloud.jobs[i]
    OBVIOUS
  <1>2. Len(jobs) = Len(cloud.jobs)
    BY <1>1 DEF K8sFields
  <1>3. cloud' = [cloud EXCEPT !.jobs = jobs]
    OBVIOUS
  <1> HIDE DEF jobs
  <1>4. DOMAIN cloud' = DOMAIN cloud /\ cloud'.once = cloud.once /\ cloud'.lists = cloud.lists /\ cloud'.jobs = jobs
    BY <1>3 DEF K8sFields
  <1>5. DOMAIN jobs = 1..Len(jobs) /\ Len(jobs) \in Nat
    BY <1>1, <1>2 DEF K8sFields
  <1>6. \A i \in DOMAIN jobs : K8sJobSound(i, jobs[i]) /\ K8sJobLater(cloud.jobs[i], jobs[i])
    BY <1>1 DEF K8sFields, K8sJobLater
  <1> QED BY <1>1, <1>4, <1>5, <1>6, K8sSame

LEMMA K8sJobs ==
  ASSUME K8sInv, IsK8s, Functional, JobStarts \/ JobExits \/ JobEnds
  PROVE  K8sInv' /\ \E S : OnlyBy(S)
PROOF
  <1>1. K8sFields
    BY DEF K8sInv
  <1>2. \A j \in DOMAIN cloud.jobs : K8sJobSound(j, cloud.jobs[j])
    BY <1>1 DEF K8sFields
  <1>3. ASSUME NEW j \in DOMAIN cloud.jobs, NEW job, JobIs(j, job), K8sJobSound(j, job), K8sJobLater(cloud.jobs[j], job)
        PROVE  K8sInv' /\ \E S : OnlyBy(S)
    <2>1. OnlyBy({}) /\ cloud' = [cloud EXCEPT !.jobs[j] = job]
      BY <1>3, MovesAlone DEF JobIs
    <2> QED BY <1>1, <1>3, <2>1, OneJobChanges, K8sMoved
  <1>4. CASE JobStarts
    <2>1. PICK j \in DOMAIN cloud.jobs : ~cloud.jobs[j].started /\ JobIs(j, [cloud.jobs[j] EXCEPT !.started = TRUE])
      BY <1>4 DEF JobStarts
    <2> DEFINE job == [cloud.jobs[j] EXCEPT !.started = TRUE]
    <2>2. K8sJobSound(j, job) /\ K8sJobLater(cloud.jobs[j], job)
      BY <1>2, <2>1 DEF K8sJobSound, K8sJobLater
    <2> HIDE DEF job
    <2> QED BY <1>3, <2>1, <2>2 DEF job
  <1>5. CASE JobExits
    <2>1. PICK j \in DOMAIN cloud.jobs : JobIs(j, [cloud.jobs[j] EXCEPT !.exit = j])
      BY <1>5 DEF JobExits
    <2> DEFINE job == [cloud.jobs[j] EXCEPT !.exit = j]
    <2>2. K8sJobSound(j, job) /\ K8sJobLater(cloud.jobs[j], job)
      BY <1>2, <2>1 DEF K8sJobSound, K8sJobLater
    <2> HIDE DEF job
    <2> QED BY <1>3, <2>1, <2>2 DEF job
  <1>6. CASE JobEnds
    <2>1. PICK j \in DOMAIN cloud.jobs, told \in {"Complete", "Failed"} :
            cloud.jobs[j].condition = "none" /\ JobIs(j, [cloud.jobs[j] EXCEPT !.condition = told])
      BY <1>6 DEF JobEnds
    <2> DEFINE job == [cloud.jobs[j] EXCEPT !.condition = told]
    <2>2. K8sJobSound(j, job) /\ K8sJobLater(cloud.jobs[j], job)
      BY <1>2, <2>1 DEF K8sJobSound, K8sJobLater
    <2> HIDE DEF job
    <2> QED BY <1>3, <2>1, <2>2 DEF job
  <1> QED BY <1>4, <1>5, <1>6

-----------------------------------------------------------------------------
(* The lists.                                                              *)
(* What is listed now is so.                                               *)
LEMMA ListedIsSound ==
  ASSUME K8sFields
  PROVE  /\ \A j \in DOMAIN cloud.jobs : K8sJobLater(cloud.jobs[j], cloud.jobs[j])
         /\ \A lists : DOMAIN lists = DOMAIN cloud.lists /\ lists.jobs = cloud.lists.jobs /\ lists.exits = cloud.lists.exits =>
              ListsSound(lists, cloud.jobs)
  BY DEF K8sFields, ListsSound, K8sJobLater

LEMMA K8sInitializes ==
  ASSUME K8sInv, IsK8s, Functional, NEW c \in Calls, NoAppName(c) \/ Initialize(c)
  PROVE  K8sInv' /\ \E S : OnlyBy(S)
PROOF
  <1>1. K8sFields
    BY DEF K8sInv
  <1>2. CASE NoAppName(c)
    <2>1. Finishes(c, "ok", NoView) /\ asked[c] \in Views /\ app.aspect = "unnamed" /\ cloud' = cloud
      BY <1>2, ReturnsFinishes DEF NoAppName, Starting
    <2>2. ShownOfK8s(cloud', asked[c], NoView)
      BY <2>1 DEF ShownOfK8s
    <2>3. K8sFields' /\ K8sGoesOn
      BY <1>1, <2>1, K8sSameJobs
    <2> QED BY <2>1, <2>2, <2>3, K8sFinishes
  <1>3. CASE Initialize(c)
    <2>1. pc[c] = "start" /\ asked[c] \in Views /\ app.aspect # "unnamed"
      BY <1>3 DEF Initialize, Starting
    <2>2. CASE cloud.once = "idle"
      <3>1. Proceeds(c, "sets", Nothing) /\ cloud' = [cloud EXCEPT !.once = "loading"]
        BY <1>3, <2>2, GoesProceeds DEF Initialize
      <3>2. DOMAIN cloud' = DOMAIN cloud /\ cloud'.once = "loading" /\ cloud'.lists = cloud.lists /\ cloud'.jobs = cloud.jobs
        BY <1>1, <3>1 DEF K8sFields
      <3>3. K8sFields' /\ K8sGoesOn
        BY <1>1, <2>2, <3>2, ListedIsSound DEF K8sFields, K8sGoesOn
      <3>4. ReadOfK8s(cloud', "sets", asked[c])
        BY <2>1, <3>2 DEF ReadOfK8s
      <3> QED BY <2>2, <3>1, <3>3, <3>4, K8sProceeds
    <2>3. CASE cloud.once = "done"
      <3>1. Proceeds(c, "view", Nothing) /\ cloud' = cloud
        BY <1>3, <2>3, GoesProceeds DEF Initialize
      <3>2. K8sFields' /\ K8sGoesOn
        BY <1>1, <3>1, K8sSameJobs
      <3>3. ReadOfK8s(cloud', "view", asked[c])
        BY <2>1, <2>3, <3>1 DEF ReadOfK8s, Listing
      <3> QED BY <2>3, <3>1, <3>2, <3>3, K8sProceeds
    <2>4. CASE cloud.once = "failed"
      <3>1. Refuses(c) /\ cloud' = cloud
        BY <1>3, <2>4 DEF Initialize
      <3> QED BY <3>1, RefusesFails, K8sFails
    <2>5. CASE cloud.once \notin {"idle", "done", "failed"}
      BY <1>3, <2>5 DEF Initialize
    <2> QED BY <2>2, <2>3, <2>4, <2>5
  <1> QED BY <1>2, <1>3

(* A list, by the one call that lists.                                     *)
LEMMA K8sListsOne ==
  ASSUME K8sInv, IsK8s, Functional, NEW c \in Calls, NEW at \in Listing, NEW next \in Listing \cup {"view"}, NEW lists,
         Lists(c, at, next, lists), DOMAIN lists = DOMAIN cloud.lists, ListsSound(lists, cloud.jobs)
  PROVE  K8sInv' /\ \E S : OnlyBy(S)
PROOF
  <1>1. K8sFields /\ ReadOfK8s(cloud, pc[c], asked[c])
    BY DEF K8sInv, K8sCall
  <1>2. pc[c] = at /\ Proceeds(c, next, Nothing)
        /\ cloud' = [cloud EXCEPT !.lists = lists, !.once = IF next = "view" THEN "done" ELSE @]
    BY GoesProceeds DEF Lists, Listed
  <1>3. cloud.once = "loading" /\ asked[c] \in Views /\ app.aspect # "unnamed"
    BY <1>1, <1>2 DEF ReadOfK8s
  <1>4. /\ DOMAIN cloud' = DOMAIN cloud /\ cloud'.lists = lists /\ cloud'.jobs = cloud.jobs
        /\ cloud'.once = IF next = "view" THEN "done" ELSE "loading"
    BY <1>1, <1>2, <1>3 DEF K8sFields
  <1>5. K8sFields' /\ K8sGoesOn
    BY <1>1, <1>3, <1>4, ListedIsSound DEF K8sFields, K8sGoesOn
  <1>6. ReadOfK8s(cloud', next, asked[c])
    BY <1>3, <1>4 DEF ReadOfK8s, Listing
  <1> QED BY <1>2, <1>5, <1>6, K8sProceeds

LEMMA K8sLists ==
  ASSUME K8sInv, IsK8s, Functional, NEW c \in Calls,
         ListReplicaSets(c) \/ ListServices(c) \/ ListPods(c) \/ ListJobs(c) \/ LoadFails(c)
  PROVE  K8sInv' /\ \E S : OnlyBy(S)
PROOF
  <1>1. K8sFields /\ ReadOfK8s(cloud, pc[c], asked[c])
    BY DEF K8sInv, K8sCall
  <1>2. CASE ListReplicaSets(c)
    <2> DEFINE lists == [cloud.lists EXCEPT !.sets = cloud.sets]
    <2>1. Lists(c, "sets", "services", lists)
      BY <1>2 DEF ListReplicaSets
    <2>2. DOMAIN lists = DOMAIN cloud.lists /\ lists.jobs = cloud.lists.jobs /\ lists.exits = cloud.lists.exits
      BY <1>1 DEF K8sFields
    <2> HIDE DEF lists
    <2> QED BY <1>1, <2>1, <2>2, ListedIsSound, K8sListsOne DEF Listing
  <1>3. CASE ListServices(c)
    <2>1. Lists(c, "services", "pods", cloud.lists)
      BY <1>3 DEF ListServices
    <2> QED BY <1>1, <2>1, K8sListsOne DEF Listing, K8sFields
  <1>4. CASE ListPods(c)
    <2> DEFINE exits == [j \in DOMAIN cloud.jobs |-> cloud.jobs[j].exit]
               lists == [cloud.lists EXCEPT !.pods = {cloud.pod}, !.exits = exits]
    <2>1. Lists(c, "pods", "jobs", lists)
      BY <1>4 DEF ListPods
    <2>2. DOMAIN lists = DOMAIN cloud.lists /\ lists.jobs = cloud.lists.jobs /\ lists.exits = exits
      BY <1>1 DEF K8sFields
    <2> HIDE DEF lists
    <2>3. ListsSound(lists, cloud.jobs)
      BY <1>1, <2>2 DEF ListsSound, K8sFields
    <2> QED BY <2>1, <2>2, <2>3, K8sListsOne DEF Listing
  <1>5. CASE ListJobs(c)
    <2> DEFINE lists == [cloud.lists EXCEPT !.jobs = cloud.jobs]
    <2>1. Lists(c, "jobs", "view", lists)
      BY <1>5 DEF ListJobs
    <2>2. DOMAIN lists = DOMAIN cloud.lists /\ lists.jobs = cloud.jobs /\ lists.exits = cloud.lists.exits
      BY <1>1 DEF K8sFields
    <2> HIDE DEF lists
    <2>3. ListsSound(lists, cloud.jobs)
      BY <1>1, <2>2, ListedIsSound DEF ListsSound, K8sFields
    <2> QED BY <2>1, <2>2, <2>3, K8sListsOne DEF Listing
  <1>6. CASE LoadFails(c)
    <2>1. pc[c] \in Listing /\ Finishes(c, "error", Nothing) /\ cloud' = [cloud EXCEPT !.once = "failed"]
      BY <1>6, EndsFinishes DEF LoadFails, Listing, Listed
    <2>2. cloud.once = "loading"
      BY <1>1, <2>1 DEF ReadOfK8s
    <2>3. DOMAIN cloud' = DOMAIN cloud /\ cloud'.lists = cloud.lists /\ cloud'.jobs = cloud.jobs
      BY <1>1, <2>1 DEF K8sFields
    <2>4. K8sFields' /\ K8sGoesOn
      BY <1>1, <2>2, <2>3, ListedIsSound DEF K8sFields, K8sGoesOn
    <2> QED BY <2>1, <2>4, K8sFinishes
  <1> QED BY <1>2, <1>3, <1>4, <1>5, <1>6

-----------------------------------------------------------------------------
(* What is shown, and the actions.                                         *)
LEMMA K8sStays ==
  ASSUME K8sInv, IsK8s, UNCHANGED cloud
  PROVE  K8sFields /\ K8sFields' /\ K8sGoesOn
  BY K8sSameJobs DEF K8sInv

LEMMA K8sShows ==
  ASSUME K8sInv, IsK8s, Functional, NEW c \in Calls, ShowOverview(c) \/ ShowStatus(c)
  PROVE  K8sInv' /\ \E S : OnlyBy(S)
PROOF
  <1>1. cloud' = cloud /\ ReadOfK8s(cloud, pc[c], asked[c])
    BY DEF K8sInv, K8sCall, ShowOverview, ShowStatus
  <1>2. DOMAIN NoView = {"sets", "pod", "jobs", "rollout", "counts"}
    BY DEF NoView
  <1>3. ASSUME NEW view, Finishes(c, "ok", view), ShownOfK8s(cloud, asked[c], view)
        PROVE  K8sInv' /\ \E S : OnlyBy(S)
    <2>1. ShownOfK8s(cloud', asked[c], view)
      BY <1>1, <1>3
    <2> QED BY <1>1, <1>3, <2>1, K8sStays, K8sFinishes
  <1>4. CASE ShowOverview(c)
    <2> DEFINE sets == ExcludeOldReplicaSets(cloud.lists.sets)
               counts == JobSummary(cloud.lists.jobs)
               view == [NoView EXCEPT !.sets = sets, !.counts = counts]
    <2>1. pc[c] = "view" /\ asked[c] = "StatusOverview" /\ Finishes(c, "ok", view)
      BY <1>4, ReturnsFinishes DEF ShowOverview
    <2> HIDE DEF sets, counts
    <2>2. view.sets = sets /\ view.counts = counts
      BY <1>2
    <2> HIDE DEF view
    <2>3. cloud.once = "done" /\ app.aspect # "unnamed"
      BY <1>1, <2>1 DEF ReadOfK8s
    <2>4. ShownOfK8s(cloud, "StatusOverview", view)
      BY <2>2, <2>3 DEF ShownOfK8s, sets, counts
    <2> QED BY <1>3, <2>1, <2>4
  <1>5. CASE ShowStatus(c)
    <2> DEFINE sets == ExcludeOldReplicaSets(cloud.lists.sets)
               jobs == [j \in DOMAIN cloud.lists.jobs |-> JobExecution(j, cloud.lists)]
    <2>1. PICK pod, rollout : Returns(c, [NoView EXCEPT !.sets = sets, !.pod = pod, !.jobs = jobs, !.rollout = rollout])
      BY <1>5, Zenon DEF ShowStatus
    <2> DEFINE view == [NoView EXCEPT !.sets = sets, !.pod = pod, !.jobs = jobs, !.rollout = rollout]
    <2>2. pc[c] = "view" /\ asked[c] = "Status" /\ Finishes(c, "ok", view)
      BY <1>5, <2>1, ReturnsFinishes DEF ShowStatus
    <2> HIDE DEF sets, jobs
    <2>3. view.sets = sets /\ view.jobs = jobs
      BY <1>2
    <2> HIDE DEF view
    <2>4. cloud.once = "done" /\ app.aspect # "unnamed"
      BY <1>1, <2>2 DEF ReadOfK8s
    <2>5. ShownOfK8s(cloud, "Status", view)
      BY <2>3, <2>4 DEF ShownOfK8s, sets, jobs
    <2> QED BY <1>3, <2>2, <2>5
  <1> QED BY <1>4, <1>5

LEMMA K8sActions ==
  ASSUME K8sInv, IsK8s, Functional, NEW c \in Calls,
         RestartK8sDeployment(c) \/ GetJob(c) \/ CreateJob(c) \/ KillPod(c) \/ K8sRequestFails(c)
  PROVE  K8sInv' /\ \E S : OnlyBy(S)
PROOF
  <1>1. K8sFields /\ ReadOfK8s(cloud, pc[c], asked[c])
    BY DEF K8sInv, K8sCall
  <1>2. ASSUME NEW view, NEW method, method \notin Views, asked[c] = method, Finishes(c, "ok", view),
               K8sFields', K8sGoesOn, cloud'.once = cloud.once
        PROVE  K8sInv' /\ \E S : OnlyBy(S)
    BY <1>2, K8sFinishes DEF ShownOfK8s
  <1>3. ASSUME Refuses(c) \/ CallFails(c), cloud' = cloud
        PROVE  K8sInv' /\ \E S : OnlyBy(S)
    BY <1>3, RefusesFails, K8sFails
  <1>4. CASE RestartK8sDeployment(c)
    <2>1. Finishes(c, "ok", Nothing) /\ asked[c] = "restart-deployment" /\ (cloud' = cloud \/ cloud' = NewRevision(cloud))
      BY <1>4, ReturnsFinishes DEF RestartK8sDeployment, Starting
    <2>2. DOMAIN cloud' = DOMAIN cloud /\ cloud'.once = cloud.once /\ cloud'.lists = cloud.lists /\ cloud'.jobs = cloud.jobs
      <3>1. CASE cloud' = NewRevision(cloud)
        <4>1. PICK deployment : cloud' = [cloud EXCEPT !.sets = Append(@, 0), !.deployment = deployment]
          BY <3>1 DEF NewRevision
        <4> QED BY <1>1, <4>1 DEF K8sFields
      <3> QED BY <2>1, <3>1
    <2>3. K8sFields' /\ K8sGoesOn /\ cloud'.once = cloud.once
      BY <1>1, <2>2, K8sSameJobs
    <2> QED BY <1>2, <2>1, <2>3 DEF Views
  <1>5. CASE GetJob(c)
    <2>1. asked[c] = "rerun-job" /\ cloud' = cloud /\ \E j : Goes(c, "create", [job |-> j])
      BY <1>5 DEF GetJob, Starting
    <2>2. PICK x : Proceeds(c, "create", x)
      BY <2>1, GoesProceeds
    <2>3. ReadOfK8s(cloud', "create", asked[c])
      BY <2>1 DEF ReadOfK8s, Listing
    <2> QED BY <2>1, <2>2, <2>3, K8sStays, K8sProceeds DEF Listing
  <1>6. CASE CreateJob(c)
    <2>1. pc[c] = "create" /\ asked[c] = "rerun-job"
      BY <1>1, <1>6 DEF CreateJob, ReadOfK8s
    <2>2. CASE Refuses(c) /\ cloud' = cloud
      BY <1>3, <2>2
    <2>3. CASE Returns(c, Nothing) /\ cloud' = [cloud EXCEPT !.jobs = Append(@, NewJob)]
      <3>1. Finishes(c, "ok", Nothing)
        BY <2>3, ReturnsFinishes
      <3> DEFINE jobs == Append(cloud.jobs, NewJob)
      <3>2. /\ DOMAIN jobs = 1..Len(jobs) /\ Len(jobs) \in Nat
            /\ \A j \in DOMAIN jobs : (j \in DOMAIN cloud.jobs /\ jobs[j] = cloud.jobs[j]) \/ jobs[j] = NewJob
            /\ \A j \in DOMAIN cloud.jobs : j \in DOMAIN jobs /\ jobs[j] = cloud.jobs[j]
        <4> HIDE DEF NewJob
        <4> QED BY <1>1 DEF K8sFields
      <3>3. DOMAIN cloud' = DOMAIN cloud /\ cloud'.once = cloud.once /\ cloud'.lists = cloud.lists /\ cloud'.jobs = jobs
        BY <1>1, <2>3 DEF K8sFields
      <3> HIDE DEF jobs
      <3>4. \A j : K8sJobSound(j, NewJob)
        BY DEF K8sJobSound, NewJob
      <3> HIDE DEF NewJob
      <3>5. /\ \A j \in DOMAIN jobs : K8sJobSound(j, jobs[j])
            /\ \A j \in DOMAIN cloud.jobs : j \in DOMAIN jobs /\ K8sJobLater(cloud.jobs[j], jobs[j])
        BY <1>1, <3>2, <3>4 DEF K8sFields, K8sJobLater
      <3>6. K8sFields' /\ K8sGoesOn /\ cloud'.once = cloud.once
        BY <1>1, <3>2, <3>3, <3>5, K8sSame
      <3> QED BY <1>2, <2>1, <3>1, <3>6 DEF Views
    <2> QED BY <1>6, <2>2, <2>3 DEF CreateJob
  <1>7. CASE KillPod(c)
    <2>1. Finishes(c, "ok", Nothing) /\ asked[c] = "kill-pod" /\ cloud' = [cloud EXCEPT !.pod = NewPod]
      BY <1>7, ReturnsFinishes DEF KillPod, Starting
    <2> HIDE DEF NewPod
    <2>2. DOMAIN cloud' = DOMAIN cloud /\ cloud'.once = cloud.once /\ cloud'.lists = cloud.lists /\ cloud'.jobs = cloud.jobs
      BY <1>1, <2>1 DEF K8sFields
    <2>3. K8sFields' /\ K8sGoesOn /\ cloud'.once = cloud.once
      BY <1>1, <2>2, K8sSameJobs
    <2> QED BY <1>2, <2>1, <2>3 DEF Views
  <1>8. CASE K8sRequestFails(c)
    <2>1. CallFails(c) /\ cloud' = cloud
      BY <1>8 DEF K8sRequestFails, CallFails
    <2> QED BY <1>3, <2>1
  <1> QED BY <1>4, <1>5, <1>6, <1>7, <1>8

LEMMA K8sStep ==
  ASSUME K8sInv, Functional, K8sStatusNext
  PROVE  K8sInv' /\ \E S : OnlyBy(S)
PROOF
  <1>1. IsK8s
    BY DEF K8sStatusNext
  <1>2. CASE \/ CannotBeScheduled \/ CannotStart \/ ContainerStarts \/ ContainerEnds \/ BacksOff \/ EndForgotten \/ PodEvicted \/ PodDisrupted
             \/ RolloutMoves \/ RolloutSeen \/ RolloutLate \/ RolloutBlocked \/ JobStarts \/ JobExits \/ JobEnds
    BY <1>1, <1>2, K8sPods, K8sRollouts, K8sJobs
  <1>3. ASSUME NEW c \in Calls,
               \/ NoAppName(c) \/ Initialize(c) \/ ListReplicaSets(c) \/ ListServices(c) \/ ListPods(c) \/ ListJobs(c) \/ LoadFails(c)
               \/ ShowOverview(c) \/ ShowStatus(c)
               \/ RestartK8sDeployment(c) \/ GetJob(c) \/ CreateJob(c) \/ KillPod(c) \/ K8sRequestFails(c)
        PROVE  K8sInv' /\ \E S : OnlyBy(S)
    BY <1>1, <1>3, K8sInitializes, K8sLists, K8sShows, K8sActions
  <1> QED BY <1>2, <1>3 DEF K8sStatusNext

LEMMA K8sClaims == K8sInv => K8sPhaseWasTrue /\ K8sViewsAgree
PROOF
  <1> SUFFICES ASSUME K8sInv PROVE K8sPhaseWasTrue /\ K8sViewsAgree
    OBVIOUS
  <1>1. ASSUME NEW c \in Calls, IsK8s, result[c] = "ok" PROVE ShownOfK8s(cloud, asked[c], shown[c])
    BY <1>1 DEF K8sInv, K8sCall
  <1>2. ASSUME NEW c \in Calls, IsK8s, Shows(c, "Status"), NEW j \in DOMAIN shown[c].jobs
        PROVE  LET view == shown[c].jobs[j] IN
               /\ Rank(view.phase) <= Rank(JobPhase(cloud.jobs[j]))
               /\ Rank(view.phase) = 2 => view.phase = JobPhase(cloud.jobs[j])
               /\ view.exit # NoExit => view.exit = cloud.jobs[j].exit
    <2> DEFINE lists == cloud.lists
    <2>1. ShownOfK8s(cloud, "Status", shown[c])
      BY <1>1, <1>2 DEF Shows
    <2>2. CASE app.aspect = "unnamed"
      <3>1. shown[c].jobs = <<>>
        BY <2>1, <2>2 DEF ShownOfK8s, Views, NoView
      <3> QED BY <1>2, <3>1
    <2>3. CASE app.aspect # "unnamed"
      <3>1. j \in DOMAIN lists.jobs /\ shown[c].jobs[j] = JobExecution(j, lists)
        BY <1>2, <2>1, <2>3 DEF ShownOfK8s, Views
      <3> DEFINE old == lists.jobs[j]
                 new == cloud.jobs[j]
                 exit == JobFailedExitCode(j, lists.exits)
      <3>2. K8sJobLater(old, new)
        BY <1>2, <3>1 DEF K8sInv, K8sFields, ListsSound
      <3>3. exit # NoExit => exit = new.exit
        BY <1>2 DEF K8sInv, K8sFields, ListsSound, JobFailedExitCode
      <3>4. Rank(JobPhase(old)) <= Rank(JobPhase(new)) /\ (Rank(JobPhase(old)) = 2 => JobPhase(old) = JobPhase(new))
        BY <3>2 DEF K8sJobLater, JobPhase, Rank
      <3>5. shown[c].jobs[j].phase = JobPhase(old) /\ shown[c].jobs[j].exit \in {exit, NoExit}
        BY <3>1 DEF JobExecution
      <3> HIDE DEF old, new, exit
      <3> QED BY <3>3, <3>4, <3>5 DEF new
    <2> QED BY <2>2, <2>3
  <1>3. ASSUME IsK8s, app.aspect # "unnamed", NEW c \in Calls, NEW d \in Calls, Shows(c, "Status"), Shows(d, "StatusOverview"),
               NEW phase \in {"Succeeded", "Failed"}
        PROVE  /\ shown[c].sets = shown[d].sets
               /\ Cardinality({j \in DOMAIN shown[c].jobs : shown[c].jobs[j].phase = phase})
                    = shown[d].counts[IF phase = "Succeeded" THEN 3 ELSE 4]
    <2> DEFINE jobs == cloud.lists.jobs
    <2>1. ShownOfK8s(cloud, "Status", shown[c]) /\ ShownOfK8s(cloud, "StatusOverview", shown[d])
      BY <1>1, <1>3 DEF Shows
    <2>2. /\ shown[c].sets = shown[d].sets
          /\ shown[c].jobs = [j \in DOMAIN jobs |-> JobExecution(j, cloud.lists)]
          /\ shown[d].counts = JobSummary(jobs)
      BY <1>3, <2>1 DEF ShownOfK8s, Views
    <2>3. \A j : JobExecution(j, cloud.lists).phase = JobPhase(jobs[j])
      BY DEF JobExecution
    <2>4. {j \in DOMAIN shown[c].jobs : shown[c].jobs[j].phase = phase} = {j \in DOMAIN jobs : JobPhase(jobs[j]) \in {phase}}
      BY <2>2, <2>3
    <2>5. JobSummary(jobs)[IF phase = "Succeeded" THEN 3 ELSE 4] = Cardinality({j \in DOMAIN jobs : JobPhase(jobs[j]) \in {phase}})
      <3>1. PICK all, going : JobSummary(jobs) = <<all, going, Cardinality({j \in DOMAIN jobs : JobPhase(jobs[j]) \in {"Succeeded"}}),
                                                   Cardinality({j \in DOMAIN jobs : JobPhase(jobs[j]) \in {"Failed"}})>>
        BY Zenon DEF JobSummary
      <3> HIDE DEF jobs
      <3> QED BY <3>1
    <2> QED BY <2>2, <2>4, <2>5
  <1>4. ASSUME IsK8s, app.aspect # "unnamed", cloud.once = "failed", NEW c \in Calls
        PROVE  ~Shows(c, "Status") /\ ~Shows(c, "StatusOverview")
    BY <1>1, <1>4 DEF Shows, ShownOfK8s, Views
  <1>5. K8sPhaseWasTrue
    BY <1>2 DEF K8sPhaseWasTrue
  <1>6. K8sViewsAgree
    BY <1>3, <1>4 DEF K8sViewsAgree
  <1> QED BY <1>5, <1>6

-----------------------------------------------------------------------------
(* The names of failures.  What the status of a pod tells is what it went  *)
(* through: of its container the last thing it did and how it ended, and   *)
(* of the pod what became of it.                                           *)
Endings == {"oom", "bad-format", "crash", "lost", "done"}

ContainerSound(status, did, ended) ==
  \/ did = "nothing" /\ status.state = "waiting" /\ status.reason = "ContainerCreating"
  \/ did = "unpullable" /\ status.state = "waiting" /\ status.reason \in {"ErrImagePull", "ImagePullBackOff"}
  \/ did = "misnamed" /\ status.state = "waiting" /\ status.reason = "InvalidImageName"
  \/ did = "misconfigured" /\ status.state = "waiting" /\ status.reason = "CreateContainerConfigError"
  \/ did = "started" /\ status.state = "running"
  \/ did = "ended" /\ status.state = "terminated" /\ ended \in Endings /\ status.now = Report(ended)
  \/ /\ did = "backed-off" /\ status.state = "waiting" /\ status.reason = "CrashLoopBackOff"
     /\ ended \in Endings \cup {"forgotten"} /\ status.last = Report(ended)

FateSound(p) ==
  \/ p.fate = "none" /\ p.phase \in {"Pending", "Running"} /\ p.unscheduled = "none" /\ ~p.evicted /\ ~p.disrupted
  \/ p.fate = "unschedulable" /\ p.phase = "Pending" /\ p.unscheduled = "Unschedulable" /\ ~p.evicted /\ ~p.disrupted
  \/ p.fate = "gated" /\ p.phase = "Pending" /\ p.unscheduled = "SchedulingGated" /\ ~p.evicted /\ ~p.disrupted
  \/ p.fate = "disrupted" /\ p.phase = "Running" /\ p.unscheduled = "none" /\ ~p.evicted /\ p.disrupted
  \/ p.fate = "evicted" /\ p.phase = "Failed" /\ p.evicted

PodSound(p) ==
  /\ DOMAIN p = {"set", "phase", "unscheduled", "evicted", "disrupted", "container", "did", "ended", "fate"}
  /\ ContainerSound(p.container, p.did, p.ended)
  /\ FateSound(p)

RolloutSound(d) ==
  /\ DOMAIN d = {"exists", "seen", "late", "blocked", "why", "before"}
  /\ ClassifyDeployment(d) = AilsSeen(d)
  /\ ~d.seen => d.why = {}

NamedCloud ==
  /\ PodSound(cloud.pod) /\ RolloutSound(cloud.deployment)
  /\ \A p \in cloud.lists.pods : PodSound(p)

ShownNamed(method, view) ==
  method = "Status" =>
    /\ \A p \in view.pod : p.name = CalledNow(p.of) /\ p.failures = FateOf(p.of)
    /\ \A d \in view.rollout : d.says = AilsSeen(d.of)

NamesInv == IsK8s => NamedCloud /\ \A c \in Calls : result[c] = "ok" => ShownNamed(asked[c], shown[c])

(* What kubelet reports of an end, and what that is called.                *)
LEMMA ReportIs ==
  /\ Report("oom") = Termination("OOMKilled", 137, FALSE)
  /\ Report("bad-format") = Termination("StartError", 128, TRUE)
  /\ Report("crash") = Termination("Error", 1, FALSE)
  /\ Report("lost") = Termination("ContainerStatusUnknown", 137, FALSE)
  /\ Report("done") = Termination("Completed", 0, FALSE)
  /\ Report("forgotten") = NeverEnded
  BY DEF Report

LEMMA TerminationIs ==
  ASSUME NEW t, NEW reason, NEW exit, NEW badFormat, t = Termination(reason, exit, badFormat)
  PROVE  t.reason = reason /\ t.exit = exit /\ t.badFormat = badFormat
  BY DEF Termination

LEMMA EndsCalled ==
  ASSUME NEW ended \in Endings
  PROVE  /\ Report(ended) # NeverEnded
         /\ EndedWell(Report(ended)) <=> ended = "done"
         /\ ended # "done" => TerminationFailure(Report(ended), FALSE) = CalledWhenEnded(ended)
         /\ TerminationFailure(Report(ended), TRUE) = CalledInLoop(ended)
PROOF
  <1> DEFINE t == Report(ended)
  <1>1. /\ ended = "oom" => t.reason = "OOMKilled" /\ t.exit = 137
        /\ ended = "bad-format" => t.reason = "StartError" /\ t.exit = 128 /\ t.badFormat
        /\ ended = "crash" => t.reason = "Error" /\ t.exit = 1 /\ ~t.badFormat
        /\ ended = "lost" => t.reason = "ContainerStatusUnknown" /\ t.exit = 137 /\ ~t.badFormat
        /\ ended = "done" => t.reason = "Completed" /\ t.exit = 0 /\ ~t.badFormat
    <2>1. /\ ended = "oom" => t = Termination("OOMKilled", 137, FALSE)
          /\ ended = "bad-format" => t = Termination("StartError", 128, TRUE)
          /\ ended = "crash" => t = Termination("Error", 1, FALSE)
          /\ ended = "lost" => t = Termination("ContainerStatusUnknown", 137, FALSE)
          /\ ended = "done" => t = Termination("Completed", 0, FALSE)
      BY ReportIs
    <2> HIDE DEF t
    <2> QED BY <2>1 DEF Termination
  <1>2. NeverEnded.reason = "none"
    BY DEF NeverEnded, Termination
  <1> HIDE DEF t
  <1>3. ended \in {"oom", "bad-format", "crash", "lost", "done"}
    BY DEF Endings
  <1>4. t # NeverEnded
    BY <1>1, <1>2, <1>3
  <1>5. EndedWell(t) <=> ended = "done"
    BY <1>1, <1>3 DEF EndedWell
  <1>6. ended # "done" => TerminationFailure(t, FALSE) = CalledWhenEnded(ended)
    BY <1>1, <1>3 DEF TerminationFailure, CalledWhenEnded
  <1>7. TerminationFailure(t, TRUE) = CalledInLoop(ended)
    BY <1>1, <1>3 DEF TerminationFailure, CalledInLoop
  <1> QED BY <1>4, <1>5, <1>6, <1>7 DEF t

LEMMA ContainerCalled ==
  ASSUME NEW p, ContainerSound(p.container, p.did, p.ended)
  PROVE  ClassifyContainer(p.container) = CalledNow(p)
PROOF
  <1> DEFINE status == p.container
  <1> HIDE DEF status
  <1>1. ClassifyImage(status) =
          CASE status.state = "waiting" /\ status.reason \in {"ImagePullBackOff", "ErrImagePull"} -> "ImagePullBackOff"
            [] status.state = "waiting" /\ status.reason \in {"InvalidImageName", "ErrImageNeverPull", "ImageInspectError"} -> status.reason
            [] OTHER -> "none"
    BY DEF ClassifyImage, PullReasons, ImageReasons, NoFailure
  <1>2. CASE p.did = "nothing" /\ status.state = "waiting" /\ status.reason = "ContainerCreating"
    <2>1. ClassifyImage(status) = NoFailure /\ ClassifyRuntime(status) = NoFailure
      BY <1>1, <1>2 DEF ClassifyRuntime, ConfigReasons, NoFailure
    <2> QED BY <1>2, <2>1 DEF ClassifyContainer, CalledNow, status
  <1>3. CASE p.did = "unpullable" /\ status.state = "waiting" /\ status.reason \in {"ErrImagePull", "ImagePullBackOff"}
    <2>1. ClassifyImage(status) = "ImagePullBackOff"
      BY <1>1, <1>3
    <2> QED BY <1>3, <2>1 DEF ClassifyContainer, CalledNow, NoFailure, status
  <1>4. CASE p.did = "misnamed" /\ status.state = "waiting" /\ status.reason = "InvalidImageName"
    <2>1. ClassifyImage(status) = "InvalidImageName"
      BY <1>1, <1>4
    <2> QED BY <1>4, <2>1 DEF ClassifyContainer, CalledNow, NoFailure, status
  <1>5. CASE p.did = "misconfigured" /\ status.state = "waiting" /\ status.reason = "CreateContainerConfigError"
    <2>1. ClassifyImage(status) = NoFailure /\ ClassifyRuntime(status) = "CreateContainerConfigError"
      BY <1>1, <1>5 DEF ClassifyRuntime, ConfigReasons, NoFailure
    <2> QED BY <1>5, <2>1 DEF ClassifyContainer, CalledNow, status
  <1>6. CASE p.did = "started" /\ status.state = "running"
    <2>1. ClassifyImage(status) = NoFailure /\ ClassifyRuntime(status) = NoFailure
      BY <1>1, <1>6 DEF ClassifyRuntime, NoFailure
    <2> QED BY <1>6, <2>1 DEF ClassifyContainer, CalledNow, status
  <1>7. CASE p.did = "ended" /\ status.state = "terminated" /\ p.ended \in Endings /\ status.now = Report(p.ended)
    <2>1. ClassifyImage(status) = NoFailure
      BY <1>1, <1>7 DEF NoFailure
    <2>2. ClassifyRuntime(status) = IF p.ended # "done" THEN TerminationFailure(status.now, FALSE) ELSE NoFailure
      BY <1>7, EndsCalled DEF ClassifyRuntime
    <2>3. CalledNow(p) = CalledWhenEnded(p.ended) /\ CalledWhenEnded("done") = NoFailure
      BY <1>7 DEF CalledNow, CalledWhenEnded
    <2> QED BY <1>7, <2>1, <2>2, <2>3, EndsCalled DEF ClassifyContainer, status
  <1>8. CASE /\ p.did = "backed-off" /\ status.state = "waiting" /\ status.reason = "CrashLoopBackOff"
             /\ p.ended \in Endings \cup {"forgotten"} /\ status.last = Report(p.ended)
    <2>1. ClassifyImage(status) = NoFailure
      BY <1>1, <1>8 DEF NoFailure
    <2>2. ClassifyRuntime(status) = CrashLoop(status)
      <3>1. ClassifyRuntime(status) =
              CASE status.state = "terminated" /\ ~EndedWell(status.now) -> TerminationFailure(status.now, FALSE)
                [] status.state = "waiting" /\ status.reason = "CrashLoopBackOff" -> CrashLoop(status)
                [] status.state = "waiting" /\ status.reason \in ConfigReasons -> status.reason
                [] OTHER -> NoFailure
        BY DEF ClassifyRuntime
      <3>2. status.state # "terminated" /\ status.state = "waiting" /\ status.reason = "CrashLoopBackOff"
        BY <1>8
      <3>3. status.reason \notin ConfigReasons
        BY <3>2 DEF ConfigReasons
      <3> QED BY <3>1, <3>2, <3>3
    <2>3. CrashLoop(status) = CalledInLoop(p.ended)
      <3>1. CASE p.ended \in Endings
        BY <1>8, <3>1, EndsCalled DEF CrashLoop
      <3>2. CASE p.ended = "forgotten"
        BY <1>8, <3>2, ReportIs DEF CrashLoop, CalledInLoop
      <3> QED BY <1>8, <3>1, <3>2
    <2>4. CalledNow(p) = CalledInLoop(p.ended)
      BY <1>8 DEF CalledNow
    <2> QED BY <2>1, <2>2, <2>3, <2>4 DEF ClassifyContainer, status
  <1> QED BY <1>2, <1>3, <1>4, <1>5, <1>6, <1>7, <1>8, Zenon DEF ContainerSound, status

LEMMA PodCalled ==
  ASSUME NEW p, PodSound(p)
  PROVE  ClassifyContainer(p.container) = CalledNow(p) /\ ClassifyPod(p) = FateOf(p)
PROOF
  <1>1. FateSound(p)
    BY DEF PodSound
  <1>2. ClassifyPending(p) = CASE p.fate = "unschedulable" -> "FailedScheduling" [] p.fate = "gated" -> "SchedulingGated" [] OTHER -> "none"
    BY <1>1 DEF FateSound, ClassifyPending, NoFailure
  <1>3. ClassifyNode(p) = CASE p.fate = "evicted" -> "Evicted" [] p.fate = "disrupted" -> "DisruptionTarget" [] OTHER -> "none"
    BY <1>1 DEF FateSound, ClassifyNode, NoFailure
  <1>4. p.fate \in {"none", "unschedulable", "gated", "disrupted", "evicted"}
    BY <1>1 DEF FateSound
  <1>5. ClassifyPod(p) = FateOf(p)
    BY <1>2, <1>3, <1>4 DEF ClassifyPod, FateOf, NoFailure
  <1> QED BY <1>5, ContainerCalled DEF PodSound

(* Every step of the pod leaves one that tells what it went through.       *)
LEMMA ContainerFields ==
  ASSUME NEW status, NEW state, NEW reason, NEW now, NEW last, status = Container(state, reason, now, last)
  PROVE  status.state = state /\ status.reason = reason /\ status.now = now /\ status.last = last
  BY DEF Container

LEMMA NewPodSound == PodSound(NewPod)
PROOF
  <1>1. Creating.state = "waiting" /\ Creating.reason = "ContainerCreating"
    BY ContainerFields DEF Creating
  <1> HIDE DEF Creating
  <1>2. ContainerSound(Creating, "nothing", "never")
    BY <1>1 DEF ContainerSound
  <1> QED BY <1>2 DEF NewPod, PodSound, FateSound

LEMMA ContainerBecomes ==
  ASSUME NEW p, PodSound(p), NEW status, NEW did, NEW ended, ContainerSound(status, did, ended)
  PROVE  PodSound([p EXCEPT !.did = did, !.ended = ended, !.container = status])
  BY DEF PodSound, FateSound

(* Scheduled at last, with another phase if it runs by then.               *)
LEMMA ScheduledBecomes ==
  ASSUME NEW p, PodSound(p), p.phase \in {"Pending", "Running"}, NEW phase \in {p.phase, "Running"},
         NEW status, NEW did, ContainerSound(status, did, p.ended)
  PROVE  PodSound([Scheduled(p) EXCEPT !.phase = phase, !.did = did, !.container = status])
PROOF
  <1> DEFINE fate == IF p.fate \in {"unschedulable", "gated"} THEN "none" ELSE p.fate
             q == [Scheduled(p) EXCEPT !.phase = phase, !.did = did, !.container = status]
  <1>1. /\ DOMAIN q = DOMAIN p /\ q.phase = phase /\ q.did = did /\ q.container = status /\ q.ended = p.ended
        /\ q.unscheduled = "none" /\ q.fate = fate /\ q.evicted = p.evicted /\ q.disrupted = p.disrupted
    BY DEF Scheduled, PodSound
  <1>2. FateSound(p)
    BY DEF PodSound
  <1>3. FateSound(q)
    <2> HIDE DEF q
    <2> QED BY <1>1, <1>2 DEF FateSound
  <1> HIDE DEF q
  <1>4. PodSound(q)
    BY <1>1, <1>3 DEF PodSound
  <1> QED BY <1>4 DEF q

LEMMA StartsSound ==
  ASSUME PodSound(cloud.pod), CannotBeScheduled \/ CannotStart \/ ContainerStarts
  PROVE  \E pod : PodSound(pod) /\ PodIs(pod)
PROOF
  <1> DEFINE p == cloud.pod
  <1>1. CASE CannotBeScheduled
    <2>1. p.phase = "Pending" /\ \/ PodIs([p EXCEPT !.unscheduled = "Unschedulable", !.fate = "unschedulable"])
                                 \/ PodIs([p EXCEPT !.unscheduled = "SchedulingGated", !.fate = "gated"])
      BY <1>1 DEF CannotBeScheduled
    <2>2. /\ PodSound([p EXCEPT !.unscheduled = "Unschedulable", !.fate = "unschedulable"])
          /\ PodSound([p EXCEPT !.unscheduled = "SchedulingGated", !.fate = "gated"])
      BY <2>1 DEF PodSound, FateSound
    <2> QED BY <2>1, <2>2, Zenon
  <1>2. CASE CannotStart
    <2>1. PICK obstacle, reason :
            /\ obstacle \in DOMAIN Obstacles /\ reason \in Obstacles[obstacle]
            /\ p.phase \in {"Pending", "Running"}
            /\ PodIs([Scheduled(p) EXCEPT !.did = obstacle, !.container = Container("waiting", reason, NeverEnded, LastOf(@))])
      BY <1>2, Zenon DEF CannotStart
    <2> DEFINE status == Container("waiting", reason, NeverEnded, LastOf(p.container))
    <2>2. status.state = "waiting" /\ status.reason = reason
      BY ContainerFields
    <2>3. Scheduled(p).container = p.container /\ Scheduled(p).phase = p.phase /\ DOMAIN Scheduled(p) = DOMAIN p
      BY DEF Scheduled, PodSound
    <2>4. \/ obstacle = "unpullable" /\ reason \in {"ErrImagePull", "ImagePullBackOff"}
          \/ obstacle = "misnamed" /\ reason = "InvalidImageName"
          \/ obstacle = "misconfigured" /\ reason = "CreateContainerConfigError"
      BY <2>1 DEF Obstacles
    <2> HIDE DEF status
    <2>5. ContainerSound(status, obstacle, p.ended)
      BY <2>2, <2>4 DEF ContainerSound
    <2>6. PodSound([Scheduled(p) EXCEPT !.phase = p.phase, !.did = obstacle, !.container = status])
      BY <2>1, <2>5, ScheduledBecomes
    <2>7. PodIs([Scheduled(p) EXCEPT !.did = obstacle, !.container = status])
      BY <2>1, <2>3 DEF status
    <2>8. [Scheduled(p) EXCEPT !.phase = p.phase, !.did = obstacle, !.container = status]
            = [Scheduled(p) EXCEPT !.did = obstacle, !.container = status]
      BY <2>3
    <2> QED BY <2>6, <2>7, <2>8
  <1>3. CASE ContainerStarts
    <2> DEFINE status == Container("running", "none", NeverEnded, LastOf(p.container))
    <2>1. /\ p.phase \in {"Pending", "Running"}
          /\ PodIs([Scheduled(p) EXCEPT !.phase = "Running", !.did = "started",
                                        !.container = Container("running", "none", NeverEnded, LastOf(@))])
      BY <1>3 DEF ContainerStarts
    <2>2. status.state = "running"
      BY ContainerFields
    <2>3. Scheduled(p).container = p.container /\ DOMAIN Scheduled(p) = DOMAIN p
      BY DEF Scheduled, PodSound
    <2>4. PodIs([Scheduled(p) EXCEPT !.phase = "Running", !.did = "started", !.container = status])
      BY <2>1, <2>3
    <2> HIDE DEF status
    <2>5. ContainerSound(status, "started", p.ended)
      BY <2>2 DEF ContainerSound
    <2>6. PodSound([Scheduled(p) EXCEPT !.phase = "Running", !.did = "started", !.container = status])
      BY <2>1, <2>5, ScheduledBecomes
    <2> QED BY <2>4, <2>6
  <1> QED BY <1>1, <1>2, <1>3

LEMMA EndsSound ==
  ASSUME PodSound(cloud.pod), ContainerEnds \/ BacksOff \/ EndForgotten
  PROVE  \E pod : PodSound(pod) /\ PodIs(pod)
PROOF
  <1> DEFINE p == cloud.pod
             loop(last) == Container("waiting", "CrashLoopBackOff", NeverEnded, last)
  <1>1. DOMAIN p = {"set", "phase", "unscheduled", "evicted", "disrupted", "container", "did", "ended", "fate"}
        /\ ContainerSound(p.container, p.did, p.ended)
    BY DEF PodSound
  <1>2. CASE ContainerEnds
    <2>1. PICK ended \in Endings :
            PodIs([p EXCEPT !.did = "ended", !.ended = ended, !.container = Container("terminated", "none", Report(ended), @.last)])
      BY <1>2, Zenon DEF ContainerEnds, Endings
    <2> DEFINE status == Container("terminated", "none", Report(ended), p.container.last)
    <2>2. status.state = "terminated" /\ status.now = Report(ended)
      BY ContainerFields
    <2>3. PodIs([p EXCEPT !.did = "ended", !.ended = ended, !.container = status])
      BY <2>1
    <2> HIDE DEF status
    <2>4. ContainerSound(status, "ended", ended)
      BY <2>2 DEF ContainerSound
    <2> QED BY <2>3, <2>4, ContainerBecomes
  <1>3. CASE BacksOff
    <2> DEFINE status == loop(p.container.now)
    <2>1. p.container.state = "terminated" /\ PodIs([p EXCEPT !.did = "backed-off", !.container = status])
      BY <1>3 DEF BacksOff
    <2>2. p.ended \in Endings /\ p.container.now = Report(p.ended)
      BY <1>1, <2>1 DEF ContainerSound
    <2>3. status.state = "waiting" /\ status.reason = "CrashLoopBackOff" /\ status.last = p.container.now
      BY ContainerFields
    <2> HIDE DEF status
    <2>4. ContainerSound(status, "backed-off", p.ended)
      BY <2>2, <2>3 DEF ContainerSound
    <2>5. PodSound([p EXCEPT !.did = "backed-off", !.ended = p.ended, !.container = status])
      BY <2>4, ContainerBecomes
    <2>6. [p EXCEPT !.did = "backed-off", !.ended = p.ended, !.container = status] = [p EXCEPT !.did = "backed-off", !.container = status]
      BY <1>1
    <2> QED BY <2>1, <2>5, <2>6
  <1>4. CASE EndForgotten
    <2> DEFINE status == loop(NeverEnded)
    <2>1. p.did = "backed-off" /\ PodIs([p EXCEPT !.ended = "forgotten", !.container = status])
      BY <1>4 DEF EndForgotten
    <2>2. status.state = "waiting" /\ status.reason = "CrashLoopBackOff" /\ status.last = NeverEnded
      BY ContainerFields
    <2> HIDE DEF status
    <2>3. ContainerSound(status, "backed-off", "forgotten")
      BY <2>2, ReportIs DEF ContainerSound
    <2>4. PodSound([p EXCEPT !.did = "backed-off", !.ended = "forgotten", !.container = status])
      BY <2>3, ContainerBecomes
    <2>5. [p EXCEPT !.did = "backed-off", !.ended = "forgotten", !.container = status] = [p EXCEPT !.ended = "forgotten", !.container = status]
      BY <1>1, <2>1
    <2> QED BY <2>1, <2>4, <2>5
  <1> QED BY <1>2, <1>3, <1>4

LEMMA LeavesSound ==
  ASSUME PodSound(cloud.pod), PodEvicted \/ PodDisrupted
  PROVE  \E pod : PodSound(pod) /\ PodIs(pod)
PROOF
  <1> DEFINE p == cloud.pod
             evicted == [p EXCEPT !.phase = "Failed", !.evicted = TRUE, !.disrupted = TRUE, !.fate = "evicted"]
             disrupted == [p EXCEPT !.disrupted = TRUE, !.fate = "disrupted"]
  <1>1. p.phase = "Running" /\ (PodIs(evicted) \/ PodIs(disrupted))
    BY DEF PodEvicted, PodDisrupted
  <1>2. PodSound(evicted)
    BY <1>1 DEF PodSound, FateSound
  <1>3. PodSound(disrupted)
    BY <1>1 DEF PodSound, FateSound
  <1> QED BY <1>1, <1>2, <1>3, Zenon

(* And every step of the rollout one whose conditions are those of the     *)
(* newest revision that its controller has seen.                           *)
LEMMA RolloutNamed ==
  ASSUME RolloutSound(cloud.deployment), RolloutSeen \/ RolloutLate \/ RolloutBlocked
  PROVE  \E d : RolloutSound(d) /\ DeploymentIs(d)
PROOF
  <1> DEFINE d == cloud.deployment
             seen == [d EXCEPT !.seen = TRUE, !.late = FALSE, !.blocked = FALSE, !.before = {}]
             late == [d EXCEPT !.late = TRUE, !.why = @ \cup {"ProgressDeadlineExceeded"}]
             blocked == [d EXCEPT !.blocked = TRUE, !.why = @ \cup {"ReplicaFailure"}]
  <1>1. CASE RolloutSeen
    <2>1. ~d.seen /\ DeploymentIs(seen)
      BY <1>1 DEF RolloutSeen
    <2>2. RolloutSound(seen)
      BY <2>1 DEF RolloutSound, ClassifyDeployment, AilsSeen
    <2> QED BY <2>1, <2>2
  <1>2. CASE RolloutLate
    <2>1. d.seen /\ ~d.late /\ DeploymentIs(late)
      BY <1>2 DEF RolloutLate
    <2>2. RolloutSound(late)
      BY <2>1 DEF RolloutSound, ClassifyDeployment, AilsSeen
    <2> QED BY <2>1, <2>2
  <1>3. CASE RolloutBlocked
    <2>1. d.seen /\ ~d.blocked /\ DeploymentIs(blocked)
      BY <1>3 DEF RolloutBlocked
    <2>2. RolloutSound(blocked)
      BY <2>1 DEF RolloutSound, ClassifyDeployment, AilsSeen
    <2> QED BY <2>1, <2>2
  <1> QED BY <1>1, <1>2, <1>3

LEMMA RevisionNamed ==
  ASSUME NEW d, RolloutSound(d)
  PROVE  RolloutSound([d EXCEPT !.seen = FALSE, !.before = AilsSeen(d), !.why = {}])
PROOF
  <1> DEFINE ails == AilsSeen(d)
             e == [d EXCEPT !.seen = FALSE, !.before = ails, !.why = {}]
  <1>1. ClassifyDeployment(d) = ails
    BY DEF RolloutSound
  <1> HIDE DEF ails
  <1>2. DOMAIN e = DOMAIN d /\ ~e.seen /\ e.before = ails /\ e.why = {} /\ e.late = d.late /\ e.blocked = d.blocked
    BY DEF RolloutSound
  <1> HIDE DEF e
  <1>3. ClassifyDeployment(e) = ClassifyDeployment(d) /\ AilsSeen(e) = ails
    BY <1>2 DEF ClassifyDeployment, AilsSeen
  <1> QED BY <1>1, <1>2, <1>3 DEF RolloutSound, e, ails

(* What the cluster is called after a step.                                *)
LEMMA PodBecomes ==
  ASSUME K8sFields, NamedCloud, Functional, NEW pod, PodSound(pod), PodIs(pod)
  PROVE  NamedCloud' /\ OnlyBy({})
PROOF
  <1>1. OnlyBy({}) /\ cloud' = [cloud EXCEPT !.pod = pod]
    BY MovesAlone DEF PodIs
  <1>2. cloud'.pod = pod /\ cloud'.deployment = cloud.deployment /\ cloud'.lists = cloud.lists
    BY <1>1 DEF K8sFields
  <1> QED BY <1>1, <1>2 DEF NamedCloud

LEMMA NamedSame ==
  ASSUME NamedCloud, cloud'.pod = cloud.pod, cloud'.deployment = cloud.deployment,
         cloud'.lists.pods \in {cloud.lists.pods, {cloud.pod}}
  PROVE  NamedCloud'
  BY DEF NamedCloud, PodSound

LEMMA RolloutBecomes ==
  ASSUME NamedCloud, cloud'.pod = cloud.pod, RolloutSound(cloud'.deployment), cloud'.lists = cloud.lists
  PROVE  NamedCloud'
  BY DEF NamedCloud

LEMMA K8sMovesNamed ==
  ASSUME K8sFields, NamedCloud, Functional,
         \/ CannotBeScheduled \/ CannotStart \/ ContainerStarts \/ ContainerEnds \/ BacksOff \/ EndForgotten \/ PodEvicted \/ PodDisrupted
         \/ RolloutMoves \/ RolloutSeen \/ RolloutLate \/ RolloutBlocked \/ JobStarts \/ JobExits \/ JobEnds
  PROVE  NamedCloud' /\ OnlyBy({})
PROOF
  <1>1. CASE CannotBeScheduled \/ CannotStart \/ ContainerStarts \/ ContainerEnds \/ BacksOff \/ EndForgotten \/ PodEvicted \/ PodDisrupted
    <2>1. PICK pod : PodSound(pod) /\ PodIs(pod)
      BY <1>1, StartsSound, EndsSound, LeavesSound DEF NamedCloud
    <2> QED BY <2>1, PodBecomes
  <1>2. CASE RolloutMoves
    <2>1. PICK r : Moves([cloud EXCEPT !.sets[r] = IF @ = 0 THEN 1 ELSE 0])
      BY <1>2 DEF RolloutMoves
    <2>2. OnlyBy({}) /\ cloud' = [cloud EXCEPT !.sets[r] = IF @ = 0 THEN 1 ELSE 0]
      BY <2>1, MovesAlone
    <2>3. cloud'.pod = cloud.pod /\ cloud'.deployment = cloud.deployment /\ cloud'.lists = cloud.lists
      BY <2>2 DEF K8sFields
    <2> QED BY <2>2, <2>3, NamedSame
  <1>3. CASE RolloutSeen \/ RolloutLate \/ RolloutBlocked
    <2>1. PICK d : RolloutSound(d) /\ DeploymentIs(d)
      BY <1>3, RolloutNamed DEF NamedCloud
    <2>2. OnlyBy({}) /\ cloud' = [cloud EXCEPT !.deployment = d]
      BY <2>1, MovesAlone DEF DeploymentIs
    <2>3. cloud'.pod = cloud.pod /\ cloud'.deployment = d /\ cloud'.lists = cloud.lists
      BY <2>2 DEF K8sFields
    <2> QED BY <2>1, <2>2, <2>3, RolloutBecomes
  <1>4. CASE JobStarts \/ JobExits \/ JobEnds
    <2>1. PICK j, job : JobIs(j, job)
      BY <1>4, Zenon DEF JobStarts, JobExits, JobEnds
    <2>2. OnlyBy({}) /\ cloud' = [cloud EXCEPT !.jobs[j] = job]
      BY <2>1, MovesAlone DEF JobIs
    <2>3. cloud'.pod = cloud.pod /\ cloud'.deployment = cloud.deployment /\ cloud'.lists = cloud.lists
      BY <2>2 DEF K8sFields
    <2> QED BY <2>2, <2>3, NamedSame
  <1> QED BY <1>1, <1>2, <1>3, <1>4

(* What the calls leave, and what they show.                               *)
LEMMA NamedMoved ==
  ASSUME NamesInv, NamedCloud', OnlyBy({})
  PROVE  NamesInv'
  BY DEF NamesInv, OnlyBy, IsK8s

LEMMA NamedProceeds ==
  ASSUME NamesInv, NamedCloud', NEW c \in Calls, NEW to, NEW x, Proceeds(c, to, x)
  PROVE  NamesInv'
  BY DEF NamesInv, OnlyBy, Proceeds, IsK8s

LEMMA NamedFinishes ==
  ASSUME NamesInv, NamedCloud', NEW c \in Calls, NEW res, NEW view, Finishes(c, res, view),
         res = "ok" => ShownNamed(asked[c], view)
  PROVE  NamesInv'
  BY DEF NamesInv, OnlyBy, Finishes, IsK8s
LEMMA NamesStay ==
  ASSUME NamesInv, IsK8s, UNCHANGED cloud
  PROVE  NamedCloud /\ NamedCloud'
  BY DEF NamesInv, NamedCloud

LEMMA NamesOfRest ==
  ASSUME NamesInv, IsK8s, Functional, UNCHANGED cloud, NEW c \in Calls,
         \/ \E to, x : Goes(c, to, x)
         \/ Refuses(c) \/ CallFails(c)
         \/ \E view : Returns(c, view) /\ asked[c] # "Status"
         \/ Returns(c, NoView) /\ asked[c] = "Status"
  PROVE  NamesInv'
PROOF
  <1>1. NamedCloud'
    BY NamesStay
  <1>2. CASE \E to, x : Goes(c, to, x)
    BY <1>1, <1>2, GoesProceeds, NamedProceeds
  <1>3. CASE Refuses(c) \/ CallFails(c)
    BY <1>1, <1>3, RefusesFails, NamedFinishes DEF Fails
  <1>4. CASE \E view : Returns(c, view) /\ asked[c] # "Status"
    BY <1>1, <1>4, ReturnsFinishes, NamedFinishes DEF ShownNamed
  <1>5. CASE Returns(c, NoView) /\ asked[c] = "Status"
    <2>1. ShownNamed(asked[c], NoView)
      BY <1>5 DEF ShownNamed, NoView
    <2> QED BY <1>1, <1>5, <2>1, ReturnsFinishes, NamedFinishes
  <1> QED BY <1>2, <1>3, <1>4, <1>5
LEMMA NamesListed ==
  ASSUME NamesInv, IsK8s, K8sFields, Functional, NEW c \in Calls,
         Initialize(c) \/ ListReplicaSets(c) \/ ListServices(c) \/ ListPods(c) \/ ListJobs(c) \/ LoadFails(c)
  PROVE  NamesInv'
PROOF
  <1>1. ASSUME cloud'.pod = cloud.pod, cloud'.deployment = cloud.deployment, cloud'.lists.pods \in {cloud.lists.pods, {cloud.pod}}
        PROVE  NamedCloud'
    BY <1>1, NamedSame DEF NamesInv
  <1>2. CASE Initialize(c)
    <2>1. CASE cloud.once = "idle"
      <3>1. Goes(c, "sets", Nothing) /\ cloud' = [cloud EXCEPT !.once = "loading"]
        BY <1>2, <2>1 DEF Initialize
      <3>2. NamedCloud'
        BY <1>1, <3>1 DEF K8sFields
      <3> QED BY <3>1, <3>2, GoesProceeds, NamedProceeds
    <2>2. CASE cloud.once = "done"
      BY <1>2, <2>2, NamesOfRest DEF Initialize
    <2>3. CASE cloud.once = "failed"
      BY <1>2, <2>3, NamesOfRest DEF Initialize
    <2>4. CASE cloud.once \notin {"idle", "done", "failed"}
      BY <1>2, <2>4 DEF Initialize
    <2> QED BY <2>1, <2>2, <2>3, <2>4
  <1>3. ASSUME NEW at, NEW next, NEW lists, Lists(c, at, next, lists), lists.pods \in {cloud.lists.pods, {cloud.pod}}
        PROVE  NamesInv'
    <2>1. Goes(c, next, Nothing) /\ \E once : cloud' = [cloud EXCEPT !.lists = lists, !.once = once]
      BY <1>3 DEF Lists
    <2>2. cloud'.pod = cloud.pod /\ cloud'.deployment = cloud.deployment /\ cloud'.lists = lists
      BY <2>1 DEF K8sFields
    <2>3. NamedCloud'
      BY <1>1, <1>3, <2>2
    <2> QED BY <2>1, <2>3, GoesProceeds, NamedProceeds
  <1>4. CASE ListReplicaSets(c)
    <2> DEFINE lists == [cloud.lists EXCEPT !.sets = cloud.sets]
    <2>1. Lists(c, "sets", "services", lists) /\ lists.pods = cloud.lists.pods
      BY <1>4 DEF ListReplicaSets, K8sFields
    <2> QED BY <1>3, <2>1
  <1>5. CASE ListServices(c)
    BY <1>3, <1>5 DEF ListServices
  <1>6. CASE ListPods(c)
    <2> DEFINE exits == [j \in DOMAIN cloud.jobs |-> cloud.jobs[j].exit]
               lists == [cloud.lists EXCEPT !.pods = {cloud.pod}, !.exits = exits]
    <2>1. Lists(c, "pods", "jobs", lists)
      BY <1>6 DEF ListPods
    <2> HIDE DEF exits
    <2>2. lists.pods = {cloud.pod}
      BY DEF K8sFields
    <2> QED BY <1>3, <2>1, <2>2
  <1>7. CASE ListJobs(c)
    <2> DEFINE lists == [cloud.lists EXCEPT !.jobs = cloud.jobs]
    <2>1. Lists(c, "jobs", "view", lists) /\ lists.pods = cloud.lists.pods
      BY <1>7 DEF ListJobs, K8sFields
    <2> QED BY <1>3, <2>1
  <1>8. CASE LoadFails(c)
    <2>1. Ends(c, "error", Nothing) /\ cloud' = [cloud EXCEPT !.once = Listed("failed")]
      BY <1>8 DEF LoadFails
    <2>2. NamedCloud'
      BY <1>1, <2>1 DEF K8sFields
    <2> QED BY <2>1, <2>2, EndsFinishes, NamedFinishes
  <1> QED BY <1>2, <1>4, <1>5, <1>6, <1>7, <1>8

LEMMA NamesShown ==
  ASSUME NamesInv, IsK8s, Functional, NEW c \in Calls, NoAppName(c) \/ ShowOverview(c) \/ ShowStatus(c)
  PROVE  NamesInv'
PROOF
  <1>1. NamedCloud /\ NamedCloud' /\ UNCHANGED cloud
    BY NamesStay DEF NoAppName, ShowOverview, ShowStatus
  <1>2. CASE NoAppName(c)
    <2>1. Returns(c, NoView) /\ asked[c] \in {"Status", "StatusOverview"}
      BY <1>2 DEF NoAppName, Starting, Views
    <2> QED BY <1>1, <2>1, NamesOfRest
  <1>3. CASE ShowOverview(c)
    <2>1. asked[c] = "StatusOverview" /\ \E view : Returns(c, view)
      BY <1>3, Zenon DEF ShowOverview
    <2> QED BY <1>1, <2>1, NamesOfRest
  <1>4. CASE ShowStatus(c)
    <2> DEFINE pods(sets) == {PodView(p) : p \in {q \in cloud.lists.pods : q.set \in sets}}
               d == cloud.deployment
               rollout == IF d.exists THEN {[says |-> ClassifyDeployment(d), of |-> d]} ELSE {}
    <2>1. asked[c] = "Status" /\ \E sets, jobs : Returns(c, [NoView EXCEPT !.sets = sets, !.pod = pods(sets), !.jobs = jobs, !.rollout = rollout])
      BY <1>4, Zenon DEF ShowStatus
    <2>2. PICK sets, jobs : Returns(c, [NoView EXCEPT !.sets = sets, !.pod = pods(sets), !.jobs = jobs, !.rollout = rollout])
      BY <2>1
    <2>3. \A p \in pods(sets) : p.name = CalledNow(p.of) /\ p.failures = FateOf(p.of)
      BY <1>1, PodCalled DEF NamedCloud, PodView
    <2>4. \A e \in rollout : e.says = AilsSeen(e.of)
      BY <1>1 DEF NamedCloud, RolloutSound
    <2> DEFINE shownPods == pods(sets)
               view == [NoView EXCEPT !.sets = sets, !.pod = shownPods, !.jobs = jobs, !.rollout = rollout]
    <2> HIDE DEF rollout, shownPods
    <2>5. view.pod = shownPods /\ view.rollout = rollout
      BY DEF NoView
    <2>6. ShownNamed("Status", view)
      BY <2>3, <2>4, <2>5 DEF ShownNamed, shownPods
    <2>7. Finishes(c, "ok", view)
      BY <2>2, ReturnsFinishes DEF shownPods
    <2> QED BY <1>1, <2>1, <2>6, <2>7, NamedFinishes
  <1> QED BY <1>2, <1>3, <1>4

LEMMA NamesActed ==
  ASSUME NamesInv, IsK8s, K8sFields, Functional, NEW c \in Calls, K8sCall(c),
         RestartK8sDeployment(c) \/ GetJob(c) \/ CreateJob(c) \/ KillPod(c) \/ K8sRequestFails(c)
  PROVE  NamesInv'
PROOF
  <1>1. NamedCloud
    BY DEF NamesInv
  <1>2. ASSUME Returns(c, Nothing), asked[c] # "Status", NamedCloud'
        PROVE  NamesInv'
    BY <1>2, ReturnsFinishes, NamedFinishes DEF ShownNamed
  <1>3. CASE RestartK8sDeployment(c)
    <2>1. Returns(c, Nothing) /\ asked[c] = "restart-deployment" /\ (cloud' = cloud \/ cloud' = NewRevision(cloud))
      BY <1>3 DEF RestartK8sDeployment, Starting
    <2>2. CASE cloud' = NewRevision(cloud)
      <3> DEFINE d == cloud.deployment
                 e == [d EXCEPT !.seen = FALSE, !.before = AilsSeen(d), !.why = {}]
      <3>1. RolloutSound(e)
        BY <1>1, RevisionNamed DEF NamedCloud
      <3>2. cloud' = [cloud EXCEPT !.sets = Append(@, 0), !.deployment = e]
        BY <2>2 DEF NewRevision
      <3> HIDE DEF e
      <3>3. cloud'.pod = cloud.pod /\ cloud'.deployment = e /\ cloud'.lists = cloud.lists
        BY <3>2 DEF K8sFields
      <3>4. NamedCloud'
        BY <1>1, <3>1, <3>3, RolloutBecomes
      <3> QED BY <1>2, <2>1, <3>4
    <2> QED BY <2>1, <2>2, NamesOfRest
  <1>4. CASE GetJob(c)
    BY <1>4, NamesOfRest DEF GetJob
  <1>5. CASE CreateJob(c)
    <2>1. asked[c] = "rerun-job"
      BY <1>5 DEF CreateJob, K8sCall, ReadOfK8s
    <2>2. CASE Refuses(c) /\ cloud' = cloud
      BY <2>2, NamesOfRest
    <2>3. CASE Returns(c, Nothing) /\ cloud' = [cloud EXCEPT !.jobs = Append(@, NewJob)]
      <3> HIDE DEF NewJob
      <3>1. cloud'.pod = cloud.pod /\ cloud'.deployment = cloud.deployment /\ cloud'.lists = cloud.lists
        BY <2>3 DEF K8sFields
      <3>2. NamedCloud'
        BY <1>1, <3>1, NamedSame
      <3> QED BY <1>2, <2>1, <2>3, <3>2
    <2> QED BY <1>5, <2>2, <2>3 DEF CreateJob
  <1>6. CASE KillPod(c)
    <2>1. Returns(c, Nothing) /\ asked[c] = "kill-pod" /\ cloud' = [cloud EXCEPT !.pod = NewPod]
      BY <1>6 DEF KillPod, Starting
    <2> HIDE DEF NewPod
    <2>2. cloud'.pod = NewPod /\ cloud'.deployment = cloud.deployment /\ cloud'.lists = cloud.lists
      BY <2>1 DEF K8sFields
    <2>3. NamedCloud'
      BY <1>1, <2>2, NewPodSound DEF NamedCloud
    <2> QED BY <1>2, <2>1, <2>3
  <1>7. CASE K8sRequestFails(c)
    <2>1. CallFails(c) /\ cloud' = cloud
      BY <1>7 DEF K8sRequestFails, CallFails
    <2> QED BY <2>1, NamesOfRest
  <1> QED BY <1>3, <1>4, <1>5, <1>6, <1>7

-----------------------------------------------------------------------------
(* All providers.                                                          *)
StatusInv == Functional /\ JobInv /\ ServiceInv /\ EcsInv /\ K8sInv

(* An app is of one provider, and the others have nothing to say of it.    *)
LEMMA OfOneProvider ==
  /\ IsCloudRunJob => ~IsCloudRunService /\ ~IsEcs /\ ~IsK8s
  /\ IsCloudRunService => ~IsCloudRunJob /\ ~IsEcs /\ ~IsK8s
  /\ IsEcs => ~IsCloudRunJob /\ ~IsCloudRunService /\ ~IsK8s
  /\ IsK8s => ~IsCloudRunJob /\ ~IsCloudRunService /\ ~IsEcs
  BY DEF IsCloudRunJob, IsCloudRunService, IsEcs, IsEcsJob, IsEcsService, IsK8s

LEMMA StatusInit == Init => StatusInv
PROOF
  <1>1. ASSUME Init PROVE Functional
    <2>1. JobStatusInit => \E methods : CallsInit(methods)
      BY Zenon DEF JobStatusInit
    <2>2. ServiceStatusInit => \E methods : CallsInit(methods)
      BY Zenon DEF ServiceStatusInit
    <2>3. EcsStatusInit => \E methods : CallsInit(methods)
      BY Zenon DEF EcsStatusInit
    <2>4. K8sStatusInit => \E methods : CallsInit(methods)
      BY Zenon DEF K8sStatusInit
    <2>5. PICK methods : CallsInit(methods)
      BY <1>1, <2>1, <2>2, <2>3, <2>4 DEF Init
    <2> QED BY <2>5 DEF CallsInit, Functional
  <1>2. JobStatusInit => JobInv /\ IsCloudRunJob
    <2>1. JobStatusInit => app = [kind |-> "cloudrunjob"]
      BY Zenon DEF JobStatusInit
    <2> QED BY <2>1, JobInit DEF IsCloudRunJob
  <1>3. ServiceStatusInit => ServiceInv /\ IsCloudRunService
    BY ServiceInit DEF ServiceStatusInit, IsCloudRunService
  <1>4. EcsStatusInit => EcsInv /\ IsEcs
    <2>1. EcsStatusInit => app.kind \in {"ecsjob", "ecsservice"}
      BY DEF EcsStatusInit
    <2> QED BY <2>1, EcsInit DEF IsEcs, IsEcsJob, IsEcsService
  <1>5. K8sStatusInit => K8sInv /\ IsK8s
    <2>1. K8sStatusInit => \E aspect : app = [kind |-> "k8s", aspect |-> aspect]
      BY Zenon DEF K8sStatusInit
    <2> QED BY <2>1, K8sInit DEF IsK8s
  <1>6. /\ ~IsCloudRunJob => JobInv
        /\ ~IsCloudRunService => ServiceInv
        /\ ~IsEcs => EcsInv
        /\ ~IsK8s => K8sInv
    BY DEF JobInv, ServiceInv, EcsInv, K8sInv
  <1> QED BY <1>1, <1>2, <1>3, <1>4, <1>5, <1>6, OfOneProvider DEF Init, StatusInv

LEMMA StatusStep == StatusInv /\ [Next]_statusVars => StatusInv'
PROOF
  <1> SUFFICES ASSUME StatusInv, [Next]_statusVars PROVE StatusInv'
    OBVIOUS
  <1>1. /\ (~IsCloudRunJob)' => JobInv'
        /\ (~IsCloudRunService)' => ServiceInv'
        /\ (~IsEcs)' => EcsInv'
        /\ (~IsK8s)' => K8sInv'
    BY DEF JobInv, ServiceInv, EcsInv, K8sInv
  <1>2. ASSUME NEW S, OnlyBy(S)
        PROVE  /\ Functional'
               /\ IsCloudRunJob' = IsCloudRunJob /\ IsCloudRunService' = IsCloudRunService /\ IsEcs' = IsEcs /\ IsK8s' = IsK8s
    BY <1>2 DEF OnlyBy, IsCloudRunJob, IsCloudRunService, IsEcs, IsEcsJob, IsEcsService, IsK8s
  <1>3. CASE JobStatusNext
    <2>1. IsCloudRunJob /\ JobInv' /\ \E S : OnlyBy(S)
      BY <1>3, JobStep DEF JobStatusNext, StatusInv
    <2> QED BY <1>1, <1>2, <2>1, OfOneProvider DEF StatusInv
  <1>4. CASE ServiceStatusNext
    <2>1. IsCloudRunService /\ ServiceInv' /\ \E S : OnlyBy(S)
      BY <1>4, ServiceStep DEF ServiceStatusNext, StatusInv
    <2> QED BY <1>1, <1>2, <2>1, OfOneProvider DEF StatusInv
  <1>5. CASE EcsStatusNext
    <2>1. IsEcs /\ EcsInv' /\ \E S : OnlyBy(S)
      BY <1>5, EcsStep DEF EcsStatusNext, StatusInv
    <2> QED BY <1>1, <1>2, <2>1, OfOneProvider DEF StatusInv
  <1>6. CASE K8sStatusNext
    <2>1. IsK8s /\ K8sInv' /\ \E S : OnlyBy(S)
      BY <1>6, K8sStep DEF K8sStatusNext, StatusInv
    <2> QED BY <1>1, <1>2, <2>1, OfOneProvider DEF StatusInv
  <1>7. CASE UNCHANGED statusVars
    <2>1. app' = app /\ asked' = asked /\ pc' = pc /\ read' = read /\ result' = result /\ shown' = shown /\ cloud' = cloud
      BY <1>7 DEF statusVars
    <2>2. Functional'
      BY <2>1 DEF StatusInv, Functional
    <2>3. EcsInv' /\ K8sInv'
      BY <2>1 DEF StatusInv, EcsInv, IsEcs, IsEcsJob, IsEcsService, EcsFields, EcsCall, ReadOfEcs, ShownOfEcs,
                  K8sInv, IsK8s, K8sFields, OneLists, K8sCall, ReadOfK8s, ShownOfK8s
    <2>4. JobInv'
      BY <2>1 DEF StatusInv, JobInv, IsCloudRunJob, JobFields, JobCall, ReadOfJob, ShownOfJob, TrueViews, Shows
    <2>5. ServiceInv'
      BY <2>1 DEF StatusInv, ServiceInv, IsCloudRunService, ServiceFields, ServiceCall, ReadOfService, ReasonOf, SomeFailed, Shows
    <2> QED BY <2>2, <2>3, <2>4, <2>5 DEF StatusInv
  <1> QED BY <1>3, <1>4, <1>5, <1>6, <1>7 DEF Next, AllReturned

LEMMA StatusAlways == Spec => []StatusInv
  BY StatusInit, StatusStep, PTL DEF Spec

LEMMA NamesStep == StatusInv /\ NamesInv /\ [Next]_statusVars => NamesInv'
PROOF
  <1> SUFFICES ASSUME StatusInv, NamesInv, [Next]_statusVars PROVE NamesInv'
    OBVIOUS
  <1>1. CASE K8sStatusNext
    <2>1. IsK8s /\ K8sFields /\ NamedCloud /\ Functional /\ \A c \in Calls : K8sCall(c)
      BY <1>1 DEF K8sStatusNext, StatusInv, K8sInv, NamesInv
    <2>2. CASE \/ CannotBeScheduled \/ CannotStart \/ ContainerStarts \/ ContainerEnds \/ BacksOff \/ EndForgotten \/ PodEvicted \/ PodDisrupted
               \/ RolloutMoves \/ RolloutSeen \/ RolloutLate \/ RolloutBlocked \/ JobStarts \/ JobExits \/ JobEnds
      BY <2>1, <2>2, K8sMovesNamed, NamedMoved
    <2>3. ASSUME NEW c \in Calls,
                 \/ NoAppName(c) \/ Initialize(c) \/ ListReplicaSets(c) \/ ListServices(c) \/ ListPods(c) \/ ListJobs(c) \/ LoadFails(c)
                 \/ ShowOverview(c) \/ ShowStatus(c)
                 \/ RestartK8sDeployment(c) \/ GetJob(c) \/ CreateJob(c) \/ KillPod(c) \/ K8sRequestFails(c)
          PROVE  NamesInv'
      BY <2>1, <2>3, NamesListed, NamesShown, NamesActed
    <2> QED BY <1>1, <2>2, <2>3 DEF K8sStatusNext
  <1>2. CASE JobStatusNext \/ ServiceStatusNext \/ EcsStatusNext
    <2>1. ~IsK8s /\ \E S : OnlyBy(S)
      BY <1>2, JobStep, ServiceStep, EcsStep, OfOneProvider DEF JobStatusNext, ServiceStatusNext, EcsStatusNext, StatusInv
    <2>2. ~IsK8s'
      BY <2>1 DEF OnlyBy, IsK8s
    <2> QED BY <2>2 DEF NamesInv
  <1>3. CASE UNCHANGED statusVars
    <2>1. app' = app /\ asked' = asked /\ result' = result /\ shown' = shown /\ cloud' = cloud
      BY <1>3 DEF statusVars
    <2>2. IsK8s => NamedCloud'
      BY <2>1, NamesStay
    <2> QED BY <2>1, <2>2 DEF NamesInv, IsK8s
  <1> QED BY <1>1, <1>2, <1>3 DEF Next, AllReturned

LEMMA NamesInit == Init => NamesInv
PROOF
  <1> SUFFICES ASSUME Init, IsK8s PROVE NamedCloud /\ \A c \in Calls : result[c] # "ok"
    BY DEF NamesInv
  <1>1. JobStatusInit => app.kind = "cloudrunjob"
    <2>1. JobStatusInit => app = [kind |-> "cloudrunjob"]
      BY Zenon DEF JobStatusInit
    <2> QED BY <2>1
  <1>2. ServiceStatusInit => IsCloudRunService
    BY DEF ServiceStatusInit, IsCloudRunService
  <1>3. EcsStatusInit => app.kind \in {"ecsjob", "ecsservice"}
    BY DEF EcsStatusInit
  <1>4. K8sStatusInit
    BY <1>1, <1>2, <1>3 DEF Init, IsK8s, IsCloudRunService
  <1>5. \A c \in Calls : result[c] # "ok"
    BY <1>4 DEF K8sStatusInit, CallsInit
  <1>6. PICK aspect \in {"pods", "rollout", "jobs", "unnamed"} :
          cloud = [sets |-> <<1>>, pod |-> NewPod, jobs |-> <<NewJob>>,
                   deployment |-> NewDeployment(aspect # "jobs"), once |-> "idle", lists |-> NotListed]
    BY <1>4 DEF K8sStatusInit
  <1> DEFINE d == NewDeployment(aspect # "jobs")
  <1>7. RolloutSound(d)
    BY DEF NewDeployment, RolloutSound, ClassifyDeployment, AilsSeen
  <1> HIDE DEF d
  <1>8. NotListed.pods = {}
    BY DEF NotListed
  <1>9. cloud.pod = NewPod /\ cloud.deployment = d /\ cloud.lists = NotListed
    <2> HIDE DEF NewPod, NewJob, NotListed
    <2>1. PICK jobs : cloud = [sets |-> <<1>>, pod |-> NewPod, jobs |-> jobs, deployment |-> d, once |-> "idle", lists |-> NotListed]
      BY <1>6 DEF d
    <2> QED BY <2>1
  <1>10. NamedCloud
    BY <1>7, <1>8, <1>9, NewPodSound DEF NamedCloud
  <1> QED BY <1>5, <1>10

LEMMA NamesAlways == Spec => []NamesInv
  BY StatusInit, StatusStep, NamesInit, NamesStep, PTL DEF Spec

(* However many calls look at an app, whatever fails, and however its      *)
(* provider goes on between the requests of one of them: a phase that is   *)
(* shown is never ahead of the job, a final one is what became of it, with *)
(* an exit code of its own, and a service is shown Failing, Degraded or    *)
(* Cold for a reason (Statuser.Status and StatusOverview, Status.Overview  *)
(* and the phases and states that they derive).                            *)
THEOREM ShownPhaseWasTrue == Spec => []PhaseWasTrue
PROOF
  <1>1. StatusInv => PhaseWasTrue
    BY JobClaims, ServiceClaims, EcsClaims, K8sClaims DEF StatusInv, PhaseWasTrue
  <1> QED BY StatusAlways, <1>1, PTL

(* No task of an ECS job that was there all the time is missing from its   *)
(* status, though the tasks are listed twice, by the status that they are  *)
(* wanted in, and one may stop between the two, unless a list had more     *)
(* than its first page (GetTaskFamilyTasks).                               *)
THEOREM NoTaskIsMissed == Spec => []NothingMissed
PROOF
  <1>1. StatusInv => NothingMissed
    BY EcsClaims DEF StatusInv, NothingMissed
  <1> QED BY StatusAlways, <1>1, PTL

(* What an action reported done stays done: a cancelled execution has      *)
(* ended, and a new revision or another traffic is not undone by a call    *)
(* that writes back the service that it read before (the etag).            *)
THEOREM DoneActionsAreKept == Spec => []ActionsKept
PROOF
  <1>1. StatusInv => ActionsKept
    BY JobClaims, ServiceClaims DEF StatusInv, ActionsKept
  <1> QED BY StatusAlways, <1>1, PTL

(* All calls of one Kubernetes Statuser show the same revisions and count  *)
(* the same jobs, for its sync.Once lets one call list, and none shows     *)
(* anything when that failed; and a version shown with a task or a         *)
(* deployment of ECS is that of its own definition.                        *)
THEOREM ViewsAlwaysAgree == Spec => []ViewsAgree
PROOF
  <1>1. StatusInv => ViewsAgree
    BY K8sClaims, EcsClaims DEF StatusInv, ViewsAgree
  <1> QED BY StatusAlways, <1>1, PTL

(* A pod is shown with the failure of what it went through, whatever it    *)
(* went through before: in a crash loop how its container ended the last   *)
(* time, on a restart that fails why, and an eviction rather than the      *)
(* disruption that comes with it; and a rollout with what ails the newest  *)
(* revision that its controller has seen (ClassifyContainer, ClassifyPod   *)
(* and ClassifyDeployment, on what the Statuser lists).                    *)
THEOREM ShownFailuresWereReal == Spec => []FailureWasReal
PROOF
  <1>1. NamesInv => FailureWasReal
    BY DEF NamesInv, ShownNamed, FailureWasReal, FailuresWereReal, Shows
  <1> QED BY NamesAlways, <1>1, PTL
=================================================================================
