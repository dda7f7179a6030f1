----------------------------- MODULE PolledLogs -----------------------------
(***************************************************************************)
(* The log streamers that poll a service (aws/cloudwatch, aws/ecs,         *)
(* gcp/cloudlogging, azure/azuremonitor).  Each asks for the events since  *)
(* the last one that it wrote, again and again until its context is        *)
(* cancelled.  CloudWatch runs a poller for every log group and every      *)
(* chunk of the log streams it is limited to; ECS finds the log streams of *)
(* the tasks that the caller asks for and leaves the rest to CloudWatch.   *)
(***************************************************************************)
EXTENDS Naturals, Sequences, FiniteSets, SequencesExt

CONSTANTS
  Groups,          \* log groups; only CloudWatch has several
  Tasks,           \* the tasks (log streams) that write to them
  Times,           \* the times of events, in ticks
  TicksPerSecond,  \* what a time formatted as RFC 3339 loses
  LookBack,        \* how far a query looks back that is given no time (an hour, a day), in ticks
  Requests,        \* the options of the caller
  MaxEvents,       \* bound on the events
  MaxFailures      \* bound on the calls that fail

NoSpan == 0
NoTime == 0
AllTasks == "all tasks"
Often == 2           \* bound on the number of times that is counted

ASSUME PolledLogsAssumption ==
  /\ Groups # {} /\ IsFiniteSet(Groups) /\ IsFiniteSet(Tasks)
  /\ Times \subseteq Nat \ {0}
  /\ TicksPerSecond \in Nat \ {0} /\ LookBack \in Nat
  /\ MaxEvents \in Nat /\ MaxFailures \in Nat
  /\ Requests \subseteq [watch : BOOLEAN, task : SUBSET Tasks, deployment : BOOLEAN,
                         start : Times \cup {NoTime}, end : Times \cup {NoTime}]

ASSUME AllTasksAssumption == AllTasks \notin Groups \cup Tasks

(* What tells the streamers apart: how they know an event that they have   *)
(* already written (not at all, by its id, by its span), and whether the   *)
(* times they ask for are rounded down to a second.                        *)
Kinds == [cloudwatch   |-> [visits |-> "id",   rounds |-> FALSE],
          ecs          |-> [visits |-> "id",   rounds |-> FALSE],
          cloudlogging |-> [visits |-> "span", rounds |-> TRUE],
          azuremonitor |-> [visits |-> "none", rounds |-> TRUE]]

VARIABLES
  kind,       \* the streamer; never changes
  opts,       \* its app.LogStreamOptions; never changes
  log,        \* the events, in the order in which they arrived
  ctxDone,    \* whether the caller's context is cancelled
  failures,   \* the calls that failed so far
  main,       \* where Stream is: resolve, expand, poll or returned
  err,        \* whether Stream returns an error
  scope,      \* LogStreamNames: the tasks it is limited to, if any
  pollers,    \* the goroutines that poll
  emitted     \* how often the emitter was given each event (Often: as often or more)

vars == <<kind, opts, log, ctxDone, failures, main, err, scope, pollers, emitted>>

(* The service. ---------------------------------------------------------- *)
(* An event arrives; its time may lie before that of events that arrived   *)
(* earlier.  Entries of Cloud Logging have a span only if they are part of *)
(* a trace, and entries may share one.                                     *)
EventArrives ==
  /\ Len(log) < MaxEvents
  /\ \E g \in Groups, t \in Tasks, at \in Times, span \in {NoSpan, Len(log) + 1} :
       /\ Kinds[kind].visits # "span" => span = NoSpan
       /\ log' = Append(log, [group |-> g, task |-> t, time |-> at, span |-> span])
  /\ UNCHANGED <<kind, opts, ctxDone, failures, main, err, scope, pollers, emitted>>

ContextIsCancelled ==
  /\ ~ctxDone /\ ctxDone' = TRUE
  /\ UNCHANGED <<kind, opts, log, failures, main, err, scope, pollers, emitted>>

(* ecs LogStreamer.Stream. ----------------------------------------------- *)
Fails == failures < MaxFailures /\ failures' = failures + 1

ReturnsError ==
  /\ Fails /\ main' = "returned" /\ err' = TRUE
  /\ UNCHANGED <<kind, opts, log, ctxDone, scope, pollers, emitted>>

IsFiltered == opts.task # {} \/ opts.deployment

(* The tasks of the deployment are those that run by now.                  *)
WantedTasks(tasks) == opts.task \cup (IF opts.deployment THEN tasks ELSE {})

(* The log streams there are of the wanted tasks.                          *)
StreamsForTaskIds(wanted) == {t \in wanted : \E i \in DOMAIN log : log[i].task = t}

(* When no task is wanted, or none of the wanted ones has written yet, the *)
(* list of streams is nil: the log groups are streamed without a limit.    *)
ResolveStreamNames ==
  /\ main = "resolve"
  /\ \/ /\ \E tasks \in SUBSET Tasks :
             LET names == StreamsForTaskIds(WantedTasks(tasks)) IN
             scope' = IF names = {} THEN {AllTasks} ELSE names
        /\ main' = "expand"
        /\ UNCHANGED <<kind, opts, log, ctxDone, failures, err, pollers, emitted>>
     \/ IsFiltered /\ ReturnsError

(* Stream of CloudWatch, Cloud Logging and Azure Monitor. ---------------- *)
(* A request names a limited number of streams, one in this model: there   *)
(* is a poller for each of them.                                           *)
Chunks == scope

NewPoller == [at |-> "begin", since |-> 0, until |-> NoTime, first |-> 0, pos |-> 0, visited |-> {}, last |-> NoTime,
              seen |-> 0]

(* The log groups are listed, or clients and tokens obtained.              *)
StartsPollers ==
  /\ main = "expand"
  /\ \/ /\ pollers' = [k \in (IF kind \in {"cloudwatch", "ecs"} THEN Groups ELSE {AllTasks}) \X Chunks |-> NewPoller]
        /\ main' = "poll"
        /\ UNCHANGED <<kind, opts, log, ctxDone, failures, err, scope, emitted>>
     \/ ReturnsError

Poller(k, p) ==
  /\ pollers' = [pollers EXCEPT ![k] = p]
  /\ UNCHANGED <<kind, opts, log, ctxDone, main, scope>>

(* errgroup: the first poller that fails cancels the others' context.      *)
GroupDone == ctxDone \/ err

Since(t) == IF Kinds[kind].rounds THEN t - (t % TicksPerSecond) ELSE t

(* The time to ask from: that of the last event that was written, or the   *)
(* caller's.                                                               *)
Asked(p) == IF p.last # NoTime THEN p.last ELSE opts.start

(* The window of a query.  Given no time at all, Azure Monitor looks back  *)
(* an hour and Cloud Logging's client a day.  Otherwise Azure Monitor's    *)
(* window ends with the clock's last full second; without a start but with *)
(* an end ("PT0S/end") it has no length.                                   *)
From(p, now) ==
  CASE Asked(p) # NoTime -> Since(Asked(p))
    [] Asked(p) = NoTime /\ opts.end # NoTime -> IF kind = "azuremonitor" THEN Since(opts.end) ELSE 0
    [] OTHER -> IF Kinds[kind].rounds /\ now > LookBack THEN now - LookBack ELSE 0

Until(p, now) ==
  CASE opts.end # NoTime -> Since(opts.end)
    [] opts.end = NoTime /\ kind = "azuremonitor" /\ Asked(p) # NoTime -> Since(now)
    [] OTHER -> NoTime

(* The clock when a query is made is not behind the events that arrived.   *)
Clock == {now \in Times : \A i \in DOMAIN log : log[i].time <= now}

Queries(p, from, until) ==
  [p EXCEPT !.at = "page", !.since = from, !.until = until, !.first = IF p.last = NoTime THEN from ELSE @,
            !.pos = 0, !.seen = Len(log)]

(* Mutant: only events after the last one are asked for.                   *)
PollBeginsAfter(k) ==
  /\ pollers[k].at = "begin"
  /\ \E now \in Clock :
       LET p == pollers[k] IN
       Poller(k, Queries(p, From(p, now) + (IF p.last = NoTime THEN 0 ELSE 1), Until(p, now)))
  /\ UNCHANGED <<failures, err, emitted>>

(* A query for the events since the last one that was written.             *)
PollBegins(k) ==
  /\ pollers[k].at = "begin"
  /\ \E now \in Clock : Poller(k, Queries(pollers[k], From(pollers[k], now), Until(pollers[k], now)))
  /\ UNCHANGED <<failures, err, emitted>>

Matches(k, e) ==
  /\ k[1] \in {AllTasks, e.group} /\ k[2] \in {AllTasks, e.task}
  /\ e.time >= pollers[k].since /\ (pollers[k].until = NoTime \/ e.time <= pollers[k].until)

(* Events are served in the order of their time, then of their arrival;    *)
(* what arrives during a query is served if its place is still to come,    *)
(* except by Azure Monitor, whose answer has no pages.                     *)
Place(i) == log[i].time * (MaxEvents + 1) + i
Pending(k) == {i \in (IF kind = "azuremonitor" THEN 1..pollers[k].seen ELSE DOMAIN log) :
                 Matches(k, log[i]) /\ Place(i) > pollers[k].pos}

(* Mutant: the ids of the events that were written are not looked at.      *)
VisitedNone(k, i) == FALSE

(* Whether the poller has written the event, for all it knows.             *)
Visited(k, i) ==
  CASE Kinds[kind].visits = "id" -> i \in pollers[k].visited
    [] Kinds[kind].visits = "span" -> \E j \in pollers[k].visited : log[j].span = log[i].span
    [] OTHER -> FALSE

Written(k, i) == [pollers[k] EXCEPT !.pos = Place(i), !.last = log[i].time, !.visited = @ \cup {i}]

(* The next event of the answer: written unless it was, and then it is the *)
(* one to ask from.                                                        *)
PollReads(k) ==
  /\ pollers[k].at = "page"
  /\ Kinds[kind].visits = "span" => ~GroupDone
  /\ \E i \in Pending(k) :
       /\ \A j \in Pending(k) : Place(i) <= Place(j)
       /\ IF Visited(k, i)
          THEN Poller(k, [pollers[k] EXCEPT !.pos = Place(i)]) /\ UNCHANGED emitted
          ELSE /\ Poller(k, Written(k, i))
               /\ emitted' = [emitted EXCEPT ![i] = IF @ < Often THEN @ + 1 ELSE @]
  /\ UNCHANGED <<failures, err>>

PollEnds(k) ==
  /\ pollers[k].at = "page" /\ Pending(k) = {}
  /\ Poller(k, [pollers[k] EXCEPT !.at = IF opts.watch THEN "wait" ELSE "returned"])
  /\ UNCHANGED <<failures, err, emitted>>

PollWaits(k) ==
  /\ pollers[k].at = "wait"
  /\ \/ Poller(k, [pollers[k] EXCEPT !.at = "begin"])
     \/ GroupDone /\ Poller(k, [pollers[k] EXCEPT !.at = "returned"])
  /\ UNCHANGED <<failures, err, emitted>>

(* A query fails; that its context was cancelled is no error.              *)
PollFails(k) ==
  /\ pollers[k].at \in {"begin", "page"}
  /\ Poller(k, [pollers[k] EXCEPT !.at = "returned"])
  /\ \/ GroupDone /\ UNCHANGED <<failures, err>>
     \/ Fails /\ err' = TRUE
  /\ UNCHANGED emitted

StreamReturns ==
  /\ main = "poll" /\ \A k \in DOMAIN pollers : pollers[k].at = "returned"
  /\ main' = "returned"
  /\ UNCHANGED <<kind, opts, log, ctxDone, failures, err, scope, pollers, emitted>>

(* ----------------------------------------------------------------------- *)
Init ==
  /\ kind \in DOMAIN Kinds
  /\ opts \in Requests
  /\ kind # "ecs" => opts.task = {} /\ ~opts.deployment
  /\ log = <<>> /\ ctxDone = FALSE /\ failures = 0
  /\ main = (IF kind = "ecs" THEN "resolve" ELSE "expand")
  /\ err = FALSE /\ scope = {AllTasks} /\ pollers = <<>> /\ emitted = [i \in 1..MaxEvents |-> 0]

Next ==
  \/ EventArrives \/ ContextIsCancelled
  \/ ResolveStreamNames \/ StartsPollers \/ StreamReturns
  \/ main = "poll" /\ \E k \in DOMAIN pollers :
       PollBegins(k) \/ PollReads(k) \/ PollEnds(k) \/ PollWaits(k) \/ PollFails(k)

Spec == Init /\ [][Next]_vars

(* ----------------------------------------------------------------------- *)
(* Every poll asks again from the time of the last event, and yet no       *)
(* event is written twice: not by another page, another poll or another    *)
(* poller.  (Azure Monitor's streamer forgets what it has written.)        *)
WrittenOnce ==
  Kinds[kind].visits # "none" => \A i \in DOMAIN emitted : emitted[i] <= 1

(* When a poll ends, everything is written that had arrived when it began, *)
(* was not late (after something with a later time) and lies in its        *)
(* window: from the time that the poller first asked from, to the end of   *)
(* this poll's query.  Events with the time of the last one that was       *)
(* written are not forgotten, nor is what an earlier window cut off.  For  *)
(* CloudWatch the window is the caller's; see Since, From and Until for    *)
(* what the others leave out of it.                                        *)
InTime(i) == \A j \in 1..(i - 1) : log[j].time <= log[i].time

Within(p, i) == log[i].time >= p.first /\ (p.until = NoTime \/ log[i].time <= p.until)

PollMissesNothing ==
  \A k \in DOMAIN pollers :
    pollers[k].at = "wait" =>
      \A i \in 1..pollers[k].seen :
        /\ k[1] \in {AllTasks, log[i].group} /\ k[2] \in {AllTasks, log[i].task}
        /\ InTime(i) /\ Within(pollers[k], i)
        /\ Kinds[kind].visits = "span" => log[i].span # NoSpan
        => emitted[i] > 0
=============================================================================
