------------------------- MODULE CloudRunServiceStatus -------------------------
(***************************************************************************)
(* gcp/cloudrun: the status view and the actions of a service.  A status   *)
(* reads the service, then its revisions, then Cloud Monitoring; an action *)
(* reads the whole service and writes it back.                             *)
(***************************************************************************)
EXTENDS StatusCalls, FiniteSetsExt

CONSTANT MaxRevisions   \* bound on the revisions of a service

IsCloudRunService == app.kind = "cloudrunservice"

NoRevision == 0
LatestReady(revs) == Max({NoRevision} \cup {r \in DOMAIN revs : revs[r].ready = "ready"})

(* A traffic target is a revision, or Latest, with its percent; at least   *)
(* one of the parts of 100 is 50 here.                                     *)
Latest == MaxRevisions + 1
Target(rev, percent) == [rev |-> rev, percent |-> percent]

(* The status of the traffic tells the revision that Latest stands for.    *)
TrafficStatuses(svc) ==
  [i \in DOMAIN svc.traffic |->
    IF svc.traffic[i].rev = Latest THEN Target(LatestReady(svc.revs), svc.traffic[i].percent) ELSE svc.traffic[i]]

(* A service is its revisions, the traffic targets, the stamp of the last  *)
(* restart in its template, and its etag.  Of what Cloud Monitoring would  *)
(* say, the load is kept: whether requests come, and whether they fail.    *)
ServiceStatusInit ==
  /\ app \in [kind : {"cloudrunservice"}, load : {"none", "good", "failing"}]
  /\ cloud = [revs |-> <<[ready |-> "ready", instances |-> app.load # "none"]>>,
              traffic |-> <<Target(Latest, 100)>>, stamp |-> 0, etag |-> 0,
              stamped |-> 0, routed |-> <<Target(Latest, 100)>>]   \* what actions asked for last
  /\ CallsInit({"Status", "StatusOverview", "restart-revision", "route-traffic"})

(* The newest revision becomes ready, or does not.                         *)
RevisionSettles ==
  \E r \in DOMAIN cloud.revs, to \in {"ready", "failed"} :
    /\ cloud.revs[r].ready = "unknown"
    /\ Moves([cloud EXCEPT !.revs[r] = [ready |-> to, instances |-> (to = "ready")]])

RevisionScales ==
  \E r \in DOMAIN cloud.revs :
    /\ cloud.revs[r].ready = "ready" /\ app.load = "none"
    /\ Moves([cloud EXCEPT !.revs[r] = [ready |-> "ready", instances |-> ~@.instances]])

-----------------------------------------------------------------------------
(* The status of the service.                                              *)
GetService(c) ==
  /\ Starting(c, {"Status", "StatusOverview"})
  /\ Goes(c, "revisions", [traffic |-> TrafficStatuses(cloud), latest |-> Len(cloud.revs), view |-> {}])
  /\ UNCHANGED cloud

(* trafficByRev: of two targets with the same revision, the last counts.   *)
TrafficOf(traffic, r) ==
  LET of == {i \in DOMAIN traffic : traffic[i].rev = r}
  IN IF of = {} THEN 0 ELSE traffic[Max(of)].percent

DeriveRevisionRole(ready, isLatest, percent) ==
  IF ready = "failed" THEN "Failed"
  ELSE IF isLatest THEN IF percent = 0 THEN "Stuck" ELSE "Latest"
  ELSE IF percent > 0 THEN "Prior" ELSE "Idle"

MapRevision(r, got) ==
  LET percent == TrafficOf(got.traffic, r) IN
  [name |-> r, percent |-> percent, role |-> DeriveRevisionRole(cloud.revs[r].ready, r = got.latest, percent)]

StateOf(revisions) == IF \E v \in revisions : v.role = "Failed" THEN "Failing" ELSE "Healthy"

(* The traffic is what the service had, the revisions are those of now.    *)
MapRevisions(c) ==
  {MapRevision(r, read[c]) : r \in DOMAIN cloud.revs}

ListRevisions(c) ==
  /\ pc[c] = "revisions"
  /\ LET view == MapRevisions(c) IN
     IF asked[c] = "StatusOverview"
        THEN Returns(c, [revisions |-> {v \in view : v.percent > 0 \/ v.role = "Latest"}, state |-> "none"])
        ELSE Goes(c, "instances", [revisions |-> view, state |-> StateOf(view), counted |-> FALSE, warm |-> FALSE])
  /\ UNCHANGED cloud

(* A revision that Monitoring has no count of keeps the minimum that it    *)
(* was asked to have: none.                                                *)
ApplyInstanceCounts(c) ==
  /\ pc[c] = "instances"
  /\ LET r == [read[c] EXCEPT !.counted = TRUE,
                              !.warm = \E v \in read[c].revisions : cloud.revs[v.name].instances]
     IN Goes(c, "requests", r) /\ UNCHANGED cloud

RefineServiceState(view, load) ==
  IF view.state = "Failing" THEN "Failing"
  ELSE IF load = "failing" THEN "Degraded"
  ELSE IF load = "none" /\ ~view.warm THEN "Cold" ELSE view.state

ApplyRequestMetrics(c) ==
  /\ pc[c] = "requests"
  /\ Returns(c, [read[c] EXCEPT !.state = RefineServiceState(read[c], app.load)])
  /\ UNCHANGED cloud

(* A query that fails is logged.  The request rates then count as zero.    *)
MetricsFail(c) ==
  \/ /\ pc[c] = "instances"
     /\ GoesWithout(c, "requests", read[c])
  \/ /\ pc[c] = "requests"
     /\ RequestFails
     /\ Ends(c, "ok", [read[c] EXCEPT !.state = RefineServiceState(read[c], "none"), !.counted = FALSE])
     /\ UNCHANGED cloud

-----------------------------------------------------------------------------
(* The actions.                                                            *)
GetServiceToChange(c) ==
  /\ Starting(c, {"restart-revision", "route-traffic"})
  /\ Goes(c, "update", [traffic |-> cloud.traffic, stamp |-> cloud.stamp, etag |-> cloud.etag, ready |-> LatestReady(cloud.revs)])
  /\ UNCHANGED cloud

(* percent of the traffic to rev, the rest to the latest ready revision    *)
(* or, when it is unknown or is rev itself, to whatever is the latest.     *)
BuildTrafficTargets(rev, percent, ready) ==
  <<Target(rev, percent)>> \o
  (IF percent = 100 THEN <<>>
   ELSE <<Target(IF ready \in {NoRevision, rev} THEN Latest ELSE ready, 100 - percent)>>)

(* UpdateService is refused when the service has another etag by now.  A   *)
(* template with another stamp is a new revision.                          *)
Update(svc, stamp, traffic) ==
  [svc EXCEPT !.stamp = stamp, !.traffic = traffic, !.etag = @ + 1,
              !.revs = IF stamp = svc.stamp THEN @ ELSE Append(@, [ready |-> "unknown", instances |-> FALSE])]

(* Mutant: the service is written back without its etag.                   *)
AcceptsAny(c) == TRUE

Accepts(c) == read[c].etag = cloud.etag

RestartRevision(c) ==
  LET stamp == cloud.stamped + 1 IN
  /\ pc[c] = "update" /\ asked[c] = "restart-revision"
  /\ Len(cloud.revs) < MaxRevisions
  /\ IF Accepts(c)
     THEN /\ cloud' = [Update(cloud, stamp, read[c].traffic) EXCEPT !.stamped = stamp]
          /\ Returns(c, Nothing)
     ELSE Refuses(c) /\ UNCHANGED cloud

RouteTraffic(c) ==
  \E rev \in DOMAIN cloud.revs, percent \in {50, 100} :
    LET traffic == BuildTrafficTargets(rev, percent, read[c].ready) IN
    /\ pc[c] = "update" /\ asked[c] = "route-traffic"
    /\ IF Accepts(c)
       THEN /\ cloud' = [Update(cloud, read[c].stamp, traffic) EXCEPT !.routed = traffic]
            /\ Goes(c, "wait", read[c])
       ELSE Refuses(c) /\ UNCHANGED cloud

TrafficRouted(c) ==
  /\ pc[c] = "wait" /\ asked[c] = "route-traffic"
  /\ Returns(c, Nothing)
  /\ UNCHANGED cloud

ServiceRequestFails(c) ==
  /\ pc[c] \in {"start", "revisions", "update", "wait"}
  /\ CallFails(c)

ServiceStatusNext ==
  /\ IsCloudRunService
  /\ \/ RevisionSettles \/ RevisionScales
     \/ \E c \in Calls :
          \/ GetService(c) \/ ListRevisions(c) \/ ApplyInstanceCounts(c) \/ ApplyRequestMetrics(c) \/ MetricsFail(c)
          \/ GetServiceToChange(c) \/ RestartRevision(c) \/ RouteTraffic(c) \/ TrafficRouted(c) \/ ServiceRequestFails(c)

-----------------------------------------------------------------------------
(* The state that Status shows has its reason: a revision that failed, or  *)
(* requests that fail; and a service that Monitoring could tell about is   *)
(* shown scaled to zero only if no requests come.                          *)
ServiceStateHasReason ==
  \A c \in Calls : IsCloudRunService /\ Shows(c, "Status") =>
    /\ (shown[c].state = "Failing") => \E r \in DOMAIN cloud.revs : cloud.revs[r].ready = "failed"
    /\ (shown[c].state = "Degraded") => app.load = "failing"
    /\ (shown[c].state = "Cold" /\ shown[c].counted) => app.load = "none"

(* What the last restart-revision and the last route-traffic asked for is  *)
(* what the service has: neither action undoes the other, though each      *)
(* writes the whole service back.                                          *)
ServiceChangesKept ==
  IsCloudRunService => cloud.stamp = cloud.stamped /\ cloud.traffic = cloud.routed
=============================================================================
