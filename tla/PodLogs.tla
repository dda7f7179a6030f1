------------------------------ MODULE PodLogs ------------------------------
(***************************************************************************)
(* k8s/logs: the logs of a workload's pods.  WorkloadStreamer.Stream lists *)
(* the pods, starts a PodStreamer for each, watches for pods that come and *)
(* go, and returns when no streamer is left.  A PodStreamer runs one       *)
(* ContainerStreamer per container; each follows the container's log and,  *)
(* when the stream ends or the pod is removed, reads the log once more     *)
(* (flush) for the lines that the first stream did not deliver.            *)
(*                                                                         *)
(* Every action is a step of one goroutine between two points at which it  *)
(* may wait: main (Stream), watch (its event loop), a goroutine per pod,   *)
(* one per container, and the one that a flush starts to read lines.       *)
(***************************************************************************)
EXTENDS Naturals, Sequences, FiniteSets

CONSTANTS
  Pods,          \* the pods the workload may have
  Containers,    \* and their containers
  PodOf,         \* the pod of each container
  Existing,      \* the pods that exist from the start
  Scenarios      \* the options of the caller, with bounds on what the cluster does

AnyPod == "any pod"

ASSUME PodLogsAssumption ==
  /\ PodOf \in [Containers -> Pods]
  /\ Existing \subseteq Pods
  /\ Scenarios \subseteq [follow : BOOLEAN, flush : BOOLEAN, startTime : BOOLEAN, pod : Pods \cup {AnyPod},
                          come : SUBSET Pods,               \* the pods that are created later
                          lines : [Containers -> Nat]]      \* and how much each container writes at most

VARIABLES
  opts,       \* the scenario, with the caller's app.LogStreamOptions; never changes
  ctxDone,    \* whether the caller's context is cancelled
  phase,      \* of each pod: absent, live, finished (succeeded or failed) or deleted
  container,  \* of each container: creating, initializing, running or exited
  made,       \* the number of lines each container wrote
  events,     \* what happened to pods since they were listed, not yet received
  main,       \* where Stream is
  watch,      \* where its event loop is
  known,      \* podStreamers.streamers: the pods that Remove can find
  podStream,  \* of each pod: none, running or returned
  podStop,    \* whether PodStreamer.stopCh is closed
  stream,     \* the ContainerStreamer of each container
  written     \* the lines of each container that the emitter was given

clusterVars == <<phase, container, made, events>>
mainVars == <<main, watch, known>>
vars == <<opts, ctxDone, phase, container, made, events, main, watch, known,
          podStream, podStop, stream, written>>

(* What the cluster does. ------------------------------------------------ *)
ContainersOf(p) == {c \in Containers : PodOf[c] = p}

Notify(type, p) ==
  events' = IF main \in {"config", "list"} THEN events ELSE Append(events, [type |-> type, pod |-> p])

ClusterOnly == UNCHANGED <<opts, ctxDone, mainVars, podStream, podStop, stream, written>>

PodIsCreated(p) ==
  /\ phase[p] = "absent" /\ p \in opts.come
  /\ phase' = [phase EXCEPT ![p] = "live"]
  /\ Notify("Added", p)
  /\ UNCHANGED <<container, made>> /\ ClusterOnly

(* The kubelet pulls images, runs the init containers, then the container. *)
ContainerStarts(c) ==
  /\ phase[PodOf[c]] = "live"
  /\ \E to \in (CASE container[c] = "creating" -> {"initializing", "running"}
                  [] container[c] = "initializing" -> {"running"} [] OTHER -> {}) :
       container' = [container EXCEPT ![c] = to]
  /\ UNCHANGED <<phase, made, events>> /\ ClusterOnly

ContainerWrites(c) ==
  /\ container[c] = "running" /\ made[c] < opts.lines[c]
  /\ made' = [made EXCEPT ![c] = @ + 1]
  /\ UNCHANGED <<phase, container, events>> /\ ClusterOnly

ContainerExits(c) ==
  /\ container[c] = "running"
  /\ container' = [container EXCEPT ![c] = "exited"]
  /\ UNCHANGED <<phase, made, events>> /\ ClusterOnly

PodFinishes(p) ==
  /\ phase[p] = "live" /\ \A c \in ContainersOf(p) : container[c] = "exited"
  /\ phase' = [phase EXCEPT ![p] = "finished"] /\ Notify("Modified", p)
  /\ UNCHANGED <<container, made>> /\ ClusterOnly

PodIsDeleted(p) ==
  /\ phase[p] \in {"live", "finished"}
  /\ phase' = [phase EXCEPT ![p] = "deleted"] /\ Notify("Deleted", p)
  /\ container' = [c \in Containers |-> IF PodOf[c] = p THEN "exited" ELSE container[c]]
  /\ UNCHANGED made /\ ClusterOnly

ContextIsCancelled ==
  /\ ~ctxDone /\ ctxDone' = TRUE
  /\ UNCHANGED <<opts, clusterVars, mainVars, podStream, podStop, stream, written>>

(* WorkloadStreamer.Stream. ---------------------------------------------- *)
NoStream == [at |-> "none", from |-> 0, read |-> 0, stop |-> FALSE, end |-> "none"]

Running == {p \in Pods : podStream[p] = "running"}     \* what the WaitGroup counts

(* podStreamers.Add of each pod that has no streamer.  Without a StartTime *)
(* a container's log is read from now on.                                  *)
Add(ps) ==
  LET new == ps \ known IN
  /\ known' = known \cup ps
  /\ podStream' = [p \in Pods |-> IF p \in new THEN "running" ELSE podStream[p]]
  /\ stream' = [c \in Containers |->
                  IF PodOf[c] \in new
                  THEN [NoStream EXCEPT !.at = "opening", !.from = IF opts.startTime THEN 0 ELSE made[c]]
                  ELSE stream[c]]

(* podStreamers.Remove                                                     *)
Remove(p) ==
  /\ podStop' = [podStop EXCEPT ![p] = @ \/ p \in known]
  /\ known' = known \ {p}

(* Stream returns (its deferred function closes drainCh).                  *)
StreamReturns ==
  /\ main' = "returned"
  /\ UNCHANGED <<opts, ctxDone, clusterVars, watch>>

MakesClient ==
  /\ main = "config"
  /\ \/ main' = "list" /\ UNCHANGED <<opts, ctxDone, clusterVars, watch>>
     \/ StreamReturns
  /\ UNCHANGED <<known, podStream, podStop, stream, written>>

(* The pods that there are, but for those that the Pod option leaves out.  *)
ListsPods ==
  /\ main = "list"
  /\ \/ /\ Add({p \in Pods : phase[p] \in {"live", "finished"} /\ opts.pod \in {AnyPod, p}})
        /\ main' = "watch"
        /\ UNCHANGED <<opts, ctxDone, clusterVars, watch>>
     \/ StreamReturns /\ UNCHANGED <<known, podStream, stream>>
  /\ UNCHANGED <<podStop, written>>

(* If there are streamers by then Stream sleeps in streamers.Wait at once. *)
(* If the watch cannot be opened Stream returns, and the streamers that it *)
(* has started go on.                                                      *)
OpensWatch ==
  /\ main = "watch"
  /\ \/ main' = (IF Running = {} THEN "wait" ELSE "asleep") /\ watch' = "open" /\ UNCHANGED <<opts, ctxDone, clusterVars>>
     \/ StreamReturns
  /\ UNCHANGED <<known, podStream, podStop, stream, written>>

(* streamers.Wait: Stream sleeps while the WaitGroup counts a streamer; it *)
(* is woken by the last one (PodReturns), and WaitGroup panics if another  *)
(* was added before Stream runs.                                           *)
Waits ==
  /\ main = "wait"
  /\ \/ Running # {} /\ main' = "asleep" /\ UNCHANGED <<opts, ctxDone, clusterVars, watch>>
     \/ Running = {} /\ StreamReturns
  /\ UNCHANGED <<known, podStream, podStop, stream, written>>

Wakes ==
  /\ main = "woken"
  /\ IF Running = {} THEN StreamReturns
     ELSE main' = "panicked" /\ UNCHANGED <<opts, ctxDone, clusterVars, watch>>
  /\ UNCHANGED <<known, podStream, podStop, stream, written>>

(* A pod that is added later is streamed whatever the Pod option says.     *)
WatchEvent ==
  /\ watch = "open" /\ events # <<>>
  /\ events' = Tail(events)
  /\ IF Head(events).type = "Added"
     THEN Add({Head(events).pod}) /\ UNCHANGED podStop
     ELSE Remove(Head(events).pod) /\ UNCHANGED <<podStream, stream>>
  /\ UNCHANGED <<opts, ctxDone, phase, container, made, main, watch, written>>

(* drainCh is closed when Stream returns and, after CancelFlushTimeout,    *)
(* when the context is cancelled.                                          *)
Drained == ctxDone \/ main = "returned"

(* The loop also ends when the API server closes the watch, which it may   *)
(* do at any time.                                                         *)
WatchEnds ==
  /\ watch = "open"
  /\ watch' = "ended"
  /\ UNCHANGED <<opts, ctxDone, clusterVars, main, known, podStream, podStop, stream, written>>

(* ContainerStreamer.Stream. --------------------------------------------- *)
StreamerOnly == UNCHANGED <<opts, ctxDone, clusterVars, mainVars, podStream, podStop>>

(* Container c's streamer goes on as s; it writes line n unless n is 0.    *)
Becomes(c, s, n) ==
  /\ stream' = [stream EXCEPT ![c] = s]
  /\ written' = IF n = 0 THEN written ELSE [written EXCEPT ![c] = Append(@, n)]
  /\ StreamerOnly

Ends(c, how) == Becomes(c, [stream[c] EXCEPT !.at = "ended", !.end = how, !.stop = TRUE], 0)

(* Mutant: the start time is taken anew when the container is ready.       *)
OpensFromNow(c) ==
  /\ stream[c].at = "opening"
  /\ container[c] # "creating" \/ ctxDone \/ phase[PodOf[c]] = "deleted"
  /\ \/ /\ container[c] \in {"running", "exited"} /\ ~ctxDone /\ phase[PodOf[c]] # "deleted"
        /\ Becomes(c, [stream[c] EXCEPT !.at = "reading", !.read = made[c]], 0)
     \/ Becomes(c, [stream[c] EXCEPT !.at = "ended", !.end = "unopened"], 0)

(* startStream: asks again as long as the API answers ContainerCreating;   *)
(* any other error, an initializing pod's among them, is the end.          *)
Opens(c) ==
  /\ stream[c].at = "opening"
  /\ container[c] # "creating" \/ ctxDone \/ phase[PodOf[c]] = "deleted"
  /\ \/ /\ container[c] \in {"running", "exited"} /\ ~ctxDone /\ phase[PodOf[c]] # "deleted"
        /\ Becomes(c, [stream[c] EXCEPT !.at = IF stream[c].stop THEN "flush" ELSE "reading", !.read = stream[c].from], 0)
     \/ Becomes(c, [stream[c] EXCEPT !.at = "ended", !.end = "unopened"], 0)

(* The stop channel is looked at between two lines.                        *)
ReadsLine(c) ==
  /\ stream[c].at = "reading" /\ stream[c].read < made[c]
  /\ Becomes(c, [stream[c] EXCEPT !.at = IF stream[c].stop THEN "flush" ELSE "reading", !.read = @ + 1],
             stream[c].read + 1)

(* Mutant: the stream that ended is not flushed.                           *)
ReadEndsUnflushed(c) ==
  /\ stream[c].at = "reading"
  /\ container[c] = "exited" \/ ctxDone \/ (~opts.follow /\ stream[c].read = made[c])
  /\ Ends(c, "eof")

(* The kubelet closes the stream of a container that exited, perhaps       *)
(* before every line was delivered; a stream that does not follow ends     *)
(* with the log; a cancelled context breaks it.                            *)
ReadEnds(c) ==
  /\ stream[c].at = "reading"
  /\ container[c] = "exited" \/ ctxDone \/ (~opts.follow /\ stream[c].read = made[c])
  /\ Becomes(c, [stream[c] EXCEPT !.at = "flush"], 0)

(* The connection may break at any time.                                   *)
ReadBreaks(c) ==
  /\ stream[c].at = "reading"
  /\ Becomes(c, [stream[c] EXCEPT !.at = "flush"], 0)

(* flush does nothing without a StopFlushTimeout; otherwise it requests    *)
(* the stream again, with a context of its own and from the same time.     *)
FlushOpens(c) ==
  /\ stream[c].at = "flush"
  /\ IF ~opts.flush THEN Ends(c, "unflushed")
     ELSE \/ /\ phase[PodOf[c]] # "deleted"
             /\ Becomes(c, [stream[c] EXCEPT !.at = "flushing", !.read = stream[c].from], 0)
          \/ Ends(c, "unflushed")

(* The goroutine that reads the second stream.  Nobody waits for it: when  *)
(* flush gives up, it writes the lines that it has buffered after that.    *)
FlushWrites(c) ==
  /\ stream[c].read < made[c]
  /\ \/ stream[c].at = "flushing" /\ Becomes(c, [stream[c] EXCEPT !.read = @ + 1], stream[c].read + 1)
     \/ /\ stream[c].end \in {"timeout", "late"}
        /\ Becomes(c, [stream[c] EXCEPT !.read = @ + 1, !.end = "late"], stream[c].read + 1)

(* Any error of the second stream ends the flush as its end does: the API  *)
(* server may break it too, with lines that it has not delivered.          *)
FlushReachesEnd(c) ==
  /\ stream[c].at = "flushing"
  /\ stream[c].read = made[c] /\ (container[c] = "exited" \/ ~opts.follow)
  /\ Ends(c, "eof")

FlushBreaks(c) ==
  /\ stream[c].at = "flushing"
  /\ Ends(c, "broken")

(* Mutant: flush waits for the end of the stream.                          *)
FlushNeverGivesUp(c) == FALSE /\ UNCHANGED vars

(* No line for flushIdleWindow, or StopFlushTimeout has passed.            *)
FlushGivesUp(c) ==
  /\ stream[c].at = "flushing"
  /\ Ends(c, "timeout")

(* PodStreamer.Stream: Stop stops the streamers of the containers; the     *)
(* pod's streamer returns when they have.                                  *)
PodStopSeen(p) ==
  /\ podStop[p] /\ podStream[p] # "none"
  /\ \E c \in ContainersOf(p) : ~stream[c].stop
  /\ stream' = [c \in Containers |-> IF PodOf[c] = p THEN [stream[c] EXCEPT !.stop = TRUE] ELSE stream[c]]
  /\ UNCHANGED <<opts, ctxDone, clusterVars, mainVars, podStream, podStop, written>>

PodReturns(p) ==
  /\ podStream[p] = "running"
  /\ \A c \in ContainersOf(p) : stream[c].at = "ended"
  /\ podStream' = [podStream EXCEPT ![p] = "returned"]
  /\ podStop' = [podStop EXCEPT ![p] = TRUE]
  /\ main' = IF main = "asleep" /\ Running = {p} THEN "woken" ELSE main
  /\ UNCHANGED <<opts, ctxDone, clusterVars, watch, known, stream, written>>

(* ----------------------------------------------------------------------- *)
Init ==
  /\ opts \in Scenarios
  /\ ctxDone = FALSE
  /\ phase = [p \in Pods |-> IF p \in Existing THEN "live" ELSE "absent"]
  /\ container = [c \in Containers |-> "creating"]
  /\ made = [c \in Containers |-> 0]
  /\ events = <<>>
  /\ main = "config" /\ watch = "closed" /\ known = {}
  /\ podStream = [p \in Pods |-> "none"]
  /\ podStop = [p \in Pods |-> FALSE]
  /\ stream = [c \in Containers |-> NoStream]
  /\ written = [c \in Containers |-> <<>>]

(* A panic is the end of the process.                                      *)
Alive == main # "panicked"

Cluster ==
  \/ \E p \in Pods : PodIsCreated(p) \/ PodFinishes(p) \/ PodIsDeleted(p)
  \/ \E c \in Containers : ContainerStarts(c) \/ ContainerWrites(c) \/ ContainerExits(c)

MainStep == MakesClient \/ ListsPods \/ OpensWatch \/ Waits \/ Wakes

WatchStep == Alive /\ (WatchEvent \/ (Drained /\ WatchEnds))

PodStep(p) == Alive /\ (PodStopSeen(p) \/ PodReturns(p))

StreamStep(c) ==
  Alive /\ (Opens(c) \/ ReadsLine(c) \/ ReadEnds(c) \/ FlushOpens(c) \/ FlushGivesUp(c))

FlushStep(c) == Alive /\ (FlushWrites(c) \/ FlushReachesEnd(c))

Next ==
  \/ Alive /\ (Cluster \/ ContextIsCancelled \/ WatchEnds)
  \/ MainStep \/ WatchStep
  \/ \E p \in Pods : PodStep(p)
  \/ \E c \in Containers : StreamStep(c) \/ FlushStep(c) \/ (Alive /\ (ReadBreaks(c) \/ FlushBreaks(c)))

(* Goroutines run; timers fire.  The cluster owes nothing, and neither     *)
(* does the caller who may cancel.                                         *)
Fairness ==
  /\ WF_vars(MainStep) /\ WF_vars(WatchStep)
  /\ \A p \in Pods : WF_vars(PodStep(p))
  /\ \A c \in Containers : WF_vars(StreamStep(c)) /\ WF_vars(FlushStep(c))

Spec == Init /\ [][Next]_vars /\ Fairness

(* ----------------------------------------------------------------------- *)
(* The lines of a container reach the emitter in order and without a gap:  *)
(* those of the first stream, and then, when the streamer flushes, those   *)
(* of the second, which starts over.  Whatever stops, breaks or times out, *)
(* in whichever order, no line is left out before one that is written.     *)
LinesWithoutGap ==
  \A c \in Containers :
    LET w == written[c] IN
    \A i \in DOMAIN w :
      \/ i = 1 /\ w[i] = stream[c].from + 1
      \/ i > 1 /\ (w[i] = w[i - 1] + 1 \/ (w[i] = stream[c].from + 1 /\ stream[c].at \in {"flushing", "ended"}))

(* The emitter gets a container's log at most twice over: the m lines that *)
(* the first stream delivered before it ended, broke or was stopped, then  *)
(* those of the second, once more from the first line.  So no line is      *)
(* written a third time, and none twice unless the streamer flushes.  The  *)
(* flush is there for the tail that a follow stream may lose (NUL-25 in    *)
(* the tests): the lines are complete when the second stream lasts to the  *)
(* end of the log.  When it breaks, or flush gives up first, the tail is   *)
(* lost without a word; only what either stream delivered is there.        *)
TailWritten ==
  \A c \in Containers :
    LET w == written[c] s == stream[c] IN
    \E m \in 0..Len(w) :
      /\ \A i \in DOMAIN w : w[i] = s.from + (IF i <= m THEN i ELSE i - m)
      /\ ~opts.flush => m = Len(w)
      /\ opts.follow /\ s.end = "eof" => Len(w) - m = made[c] - s.from

(* Stream does not hang.  Once the context is cancelled it returns, even   *)
(* while containers are being created, write or flush, and so it does once *)
(* the pods it found are all gone; after that its event loop ends too.     *)
StreamIsOver == main \in {"returned", "panicked"}

StreamGivesUp ==
  /\ ctxDone ~> StreamIsOver
  /\ (\A p \in Pods : phase[p] \in {"finished", "deleted"}) ~> StreamIsOver
  /\ main = "returned" ~> watch # "open"
=============================================================================
