-------------------------- MODULE PolledLogs_proofs --------------------------
(* Theorems about PolledLogs: for any number of log groups, tasks, events, *)
(* times and failures.                                                     *)
EXTENDS PolledLogs, TLAPS

-----------------------------------------------------------------------------
(* Times, and the order in which events are served.                        *)
Entry == [group : Groups, task : Tasks, time : Times, span : Nat]

EventOK(i, e) == e.group \in Groups /\ e.task \in Tasks /\ e.time \in Nat /\ e.span \in {NoSpan, i}

LogOK ==
  /\ log \in Seq(Entry) /\ Len(log) <= MaxEvents
  /\ \A i \in DOMAIN log : EventOK(i, log[i])

LEMMA SinceIsBefore ==
  ASSUME NEW t \in Nat
  PROVE  Since(t) \in Int /\ Since(t) <= t
  BY PolledLogsAssumption DEF Since

RequestOK ==
  /\ kind \in DOMAIN Kinds
  /\ opts \in [watch : BOOLEAN, task : SUBSET Tasks, deployment : BOOLEAN,
               start : Times \cup {NoTime}, end : Times \cup {NoTime}]

(* The window of a query; it begins with the last event that was written,  *)
(* or earlier.                                                             *)
LEMMA WindowOfQuery ==
  ASSUME RequestOK, NEW p, p.last \in Nat, NEW now \in Times
  PROVE  /\ From(p, now) \in Int /\ Until(p, now) \in Int
         /\ p.last # NoTime => From(p, now) <= p.last
PROOF
  <1>1. now \in Nat /\ opts.start \in Nat /\ opts.end \in Nat /\ LookBack \in Nat
    <2>1. opts.start \in Times \cup {NoTime} /\ opts.end \in Times \cup {NoTime}
      BY DEF RequestOK
    <2>2. Times \subseteq Nat /\ NoTime \in Nat
      BY PolledLogsAssumption DEF NoTime
    <2> QED BY <2>1, <2>2, PolledLogsAssumption
  <1>2. Asked(p) \in Nat /\ (p.last # NoTime => Asked(p) = p.last)
    BY <1>1 DEF Asked
  <1>3. /\ Since(Asked(p)) \in Int /\ Since(Asked(p)) <= Asked(p)
        /\ Since(opts.end) \in Int /\ Since(now) \in Int
    BY <1>1, <1>2, SinceIsBefore
  <1>4. now - LookBack \in Int
    BY <1>1
  <1>5. From(p, now) \in Int
    BY <1>3, <1>4 DEF From
  <1>6. p.last # NoTime => From(p, now) = Since(Asked(p))
    BY <1>2 DEF From
  <1>7. Until(p, now) \in Int
    BY <1>3 DEF Until, NoTime
  <1> QED BY <1>2, <1>3, <1>5, <1>6, <1>7

(* An event is served before those with a later time, and before those     *)
(* that arrived later with the same time.                                  *)
LEMMA ServedInOrder ==
  ASSUME NEW s \in Nat, NEW t \in Nat, NEW i \in 1..MaxEvents, NEW j \in 1..MaxEvents
  PROVE  /\ s < t => s * (MaxEvents + 1) + i < t * (MaxEvents + 1) + j
         /\ s <= t /\ i < j => s * (MaxEvents + 1) + i < t * (MaxEvents + 1) + j
         /\ s * (MaxEvents + 1) + i \in Nat \ {0}
PROOF
  <1> DEFINE n == MaxEvents + 1
  <1>1. n \in Nat /\ i < n /\ j < n /\ i > 0 /\ j > 0
    BY PolledLogsAssumption
  <1> HIDE DEF n
  <1>2. s * n \in Nat /\ t * n \in Nat
    BY <1>1
  <1>3. ASSUME s < t PROVE s * n + n <= t * n
    <2>1. PICK d \in Nat : t = s + 1 + d
      BY <1>3
    <2>2. t * n = s * n + n + d * n
      BY <1>1, <2>1
    <2>3. d * n \in Nat
      BY <1>1
    <2> QED BY <1>1, <1>2, <2>2, <2>3
  <1>4. s < t => s * n + i < t * n + j
    BY <1>1, <1>2, <1>3
  <1>5. s <= t /\ i < j => s * n + i < t * n + j
    <2>1. s <= t => s < t \/ s = t
      OBVIOUS
    <2>2. s = t => s * n = t * n
      OBVIOUS
    <2> QED BY <1>1, <1>2, <1>4, <2>1, <2>2
  <1> QED BY <1>1, <1>2, <1>4, <1>5 DEF n

LEMMA PlacesDiffer ==
  ASSUME LogOK, NEW i \in DOMAIN log, NEW j \in DOMAIN log
  PROVE  /\ Place(i) \in Nat \ {0}
         /\ log[i].time < log[j].time => Place(i) < Place(j)
         /\ log[i].time = log[j].time => (i < j <=> Place(i) < Place(j))
         /\ Place(i) = Place(j) => i = j
         /\ Place(i) <= Place(j) => log[i].time <= log[j].time
PROOF
  <1>1. i \in 1..MaxEvents /\ j \in 1..MaxEvents /\ log[i].time \in Nat /\ log[j].time \in Nat /\ MaxEvents \in Nat
    <2>1. DOMAIN log = 1..Len(log) /\ Len(log) \in Nat /\ Len(log) <= MaxEvents
      BY DEF LogOK
    <2>2. log[i].time \in Nat /\ log[j].time \in Nat
      BY DEF LogOK, EventOK
    <2> QED BY <2>1, <2>2, PolledLogsAssumption
  <1> DEFINE s == log[i].time
             t == log[j].time
  <1>2. Place(i) = s * (MaxEvents + 1) + i /\ Place(j) = t * (MaxEvents + 1) + j
    BY DEF Place
  <1>3. /\ s < t => Place(i) < Place(j)
        /\ t < s => Place(j) < Place(i)
        /\ Place(i) \in Nat \ {0} /\ Place(j) \in Nat \ {0}
    <2> HIDE DEF s, t
    <2> QED BY <1>1, <1>2, ServedInOrder DEF s, t
  <1>4. s = t => (i < j <=> Place(i) < Place(j)) /\ (Place(i) = Place(j) => i = j)
    <2>1. s * (MaxEvents + 1) \in Nat
      BY <1>1
    <2> HIDE DEF s, t
    <2> QED BY <1>1, <1>2, <2>1
  <1> HIDE DEF s, t
  <1>5. s \in Nat /\ t \in Nat
    BY <1>1 DEF s, t
  <1>6. s < t \/ t < s \/ s = t
    BY <1>5
  <1> QED BY <1>3, <1>4, <1>5, <1>6 DEF s, t

-----------------------------------------------------------------------------
(* The events of a poller, which no other poller has.                      *)
Owns(k, e) == k[1] \in {AllTasks, e.group} /\ k[2] \in {AllTasks, e.task}

KeysOK ==
  \/ DOMAIN pollers \subseteq {AllTasks} \X {AllTasks}
  \/ DOMAIN pollers \subseteq Groups \X {AllTasks}
  \/ DOMAIN pollers \subseteq Groups \X Tasks

LEMMA OneOwner ==
  ASSUME LogOK, KeysOK, NEW k \in DOMAIN pollers, NEW l \in DOMAIN pollers, NEW i \in DOMAIN log,
         Owns(k, log[i]), Owns(l, log[i])
  PROVE  k = l
PROOF
  <1>1. log[i].group \in Groups /\ log[i].task \in Tasks
    BY DEF LogOK, EventOK
  <1>2. \/ k \in {AllTasks} \X {AllTasks} /\ l \in {AllTasks} \X {AllTasks}
        \/ k \in Groups \X {AllTasks} /\ l \in Groups \X {AllTasks}
        \/ k \in Groups \X Tasks /\ l \in Groups \X Tasks
    BY DEF KeysOK
  <1>3. k = <<k[1], k[2]>> /\ l = <<l[1], l[2]>> /\ k[1] = l[1] /\ k[2] = l[2]
    BY <1>1, <1>2, AllTasksAssumption DEF Owns
  <1> QED BY <1>3

-----------------------------------------------------------------------------
(* What poller k has written and has still to write.  An event that has to *)
(* be written, and is not, never lies before the last one that was, nor    *)
(* before the place where the answer is being read.                        *)
Due(k, i) == Owns(k, log[i]) /\ InTime(i) /\ (Kinds[kind].visits = "span" => log[i].span # NoSpan)

PollerOK(p) ==
  /\ p \in [at : {"begin", "page", "wait", "returned"}, since : Int, until : Int, first : Int, pos : Nat, visited : SUBSET DOMAIN log, last : Nat, seen : Nat]
  /\ p.seen <= Len(log) /\ (p.since <= p.last \/ p.since <= p.first)
  /\ p.last = NoTime \/ \E i \in DOMAIN log : p.last = log[i].time
  /\ p.pos = 0 \/ \E i \in DOMAIN log : p.pos = Place(i)

Story(k, p, written) ==
  /\ \A i \in p.visited : Owns(k, log[i]) /\ written[i] > 0
  /\ \A i \in DOMAIN log : Due(k, i) /\ log[i].time >= p.first /\ written[i] = 0 =>
       log[i].time >= p.last /\ (p.at = "page" => Place(i) > p.pos)
  /\ p.at = "wait" => \A i \in 1..p.seen : Due(k, i) /\ Within(p, i) => written[i] > 0

Once ==
  Kinds[kind].visits # "none" =>
    \A i \in 1..MaxEvents :
      /\ emitted[i] <= 1
      /\ emitted[i] > 0 => \E k \in DOMAIN pollers : i \in pollers[k].visited

ScopeOK ==
  /\ RequestOK
  /\ main = "resolve" => kind = "ecs"
  /\ scope = {AllTasks} \/ (scope \subseteq Tasks /\ kind = "ecs")
  /\ main \in {"resolve", "expand"} => DOMAIN pollers = {}

PollInv ==
  /\ LogOK /\ ScopeOK /\ KeysOK
  /\ emitted \in [1..MaxEvents -> 0..Often]
  /\ \A k \in DOMAIN pollers : PollerOK(pollers[k]) /\ Story(k, pollers[k], emitted)
  /\ Once

LEMMA PollInit == Init => PollInv
PROOF
  <1> SUFFICES ASSUME Init PROVE PollInv
    OBVIOUS
  <1>1. log = <<>> /\ pollers = <<>> /\ emitted = [i \in 1..MaxEvents |-> 0] /\ MaxEvents \in Nat
    BY PolledLogsAssumption DEF Init
  <1>2. LogOK /\ KeysOK
    BY <1>1 DEF LogOK, KeysOK
  <1>3. ScopeOK
    <2>1. RequestOK
      BY PolledLogsAssumption DEF Init, RequestOK
    <2>2. (main = "resolve" => kind = "ecs") /\ scope = {AllTasks}
      BY Zenon DEF Init
    <2> QED BY <1>1, <2>1, <2>2 DEF ScopeOK
  <1>4. emitted \in [1..MaxEvents -> 0..Often] /\ Once
    BY <1>1 DEF Once, Often
  <1> QED BY <1>1, <1>2, <1>3, <1>4 DEF PollInv

-----------------------------------------------------------------------------
(* An event arrives.                                                       *)
LEMMA Arrives ==
  ASSUME PollInv, EventArrives
  PROVE  PollInv'
PROOF
  <1>0. PICK new \in Nat : new = Len(log) + 1
    BY DEF PollInv, LogOK
  <1>1. PICK e \in Entry : log' = Append(log, e) /\ EventOK(new, e) /\ Len(log) < MaxEvents
    <2>1. PICK g \in Groups, t \in Tasks, at \in Times, span \in {NoSpan, Len(log) + 1} :
            log' = Append(log, [group |-> g, task |-> t, time |-> at, span |-> span])
      BY DEF EventArrives
    <2>2. LET e == [group |-> g, task |-> t, time |-> at, span |-> span] IN e \in Entry /\ EventOK(new, e)
      BY <1>0, PolledLogsAssumption DEF Entry, EventOK, NoSpan
    <2> QED BY <2>1, <2>2 DEF EventArrives
  <1>2. /\ kind' = kind /\ opts' = opts /\ main' = main /\ scope' = scope /\ pollers' = pollers /\ emitted' = emitted
    BY DEF EventArrives
  <1>3. /\ Len(log) \in Nat /\ DOMAIN log = 1..Len(log) /\ Len(log') = new /\ DOMAIN log' = 1..new /\ log'[new] = e
        /\ \A i \in DOMAIN log : i \in DOMAIN log' /\ log'[i] = log[i]
    BY <1>0, <1>1 DEF PollInv, LogOK
  <1>8. /\ \A i : i \in DOMAIN log <=> i \in 1..(new - 1)
        /\ \A i : i \in DOMAIN log' <=> i \in DOMAIN log \/ i = new
        /\ new \in DOMAIN log' /\ new \in 1..MaxEvents
    BY <1>0, <1>1, <1>3, PolledLogsAssumption
  <1>4. LogOK'
    <2>1. log' \in Seq(Entry)
      BY <1>1 DEF PollInv, LogOK
    <2>4. Len(log') <= MaxEvents
      BY <1>0, <1>1, <1>3, PolledLogsAssumption
    <2>2. ASSUME NEW i \in DOMAIN log' PROVE EventOK(i, log'[i])
      BY <1>1, <1>3 DEF PollInv, LogOK
    <2>3. \A i \in DOMAIN log' : EventOK(i, log'[i])
      BY <2>2
    <2> QED BY <2>1, <2>3, <2>4 DEF LogOK, EventOK
  <1>5. \A i \in DOMAIN log : Place(i)' = Place(i) /\ InTime(i)' = InTime(i)
    BY <1>3 DEF Place, InTime
  <1>6. ASSUME NEW k \in DOMAIN pollers
        PROVE  PollerOK(pollers[k])' /\ Story(k, pollers[k], emitted)'
    <2> DEFINE p == pollers[k]
    <2>1. PollerOK(p) /\ Story(k, p, emitted)
      BY DEF PollInv
    <2>2. PollerOK(p)'
      <3>1. p \in [at : {"begin", "page", "wait", "returned"}, since : Int, until : Int, first : Int, pos : Nat,
                 visited : SUBSET DOMAIN log', last : Nat, seen : Nat]
        BY <1>3, <2>1 DEF PollerOK
      <3>2. p.seen <= Len(log')
        BY <1>3, <2>1 DEF PollerOK
      <3> QED BY <1>2, <1>3, <1>5, <2>1, <3>1, <3>2 DEF PollerOK
    <2>3. \A i \in DOMAIN log : Due(k, i)' = Due(k, i)
      BY <1>2, <1>3, <1>5 DEF Due
    <2>4. ASSUME Due(k, new)' PROVE log'[new].time >= p.last /\ Place(new)' > p.pos
      <3>1. \A i \in DOMAIN log : log[i].time <= log'[new].time
        <4> TAKE i \in DOMAIN log
        <4>1. i \in 1..(new - 1)
          BY <1>8
        <4>2. \A j \in 1..(new - 1) : log'[j].time <= log'[new].time
          BY <2>4 DEF Due, InTime
        <4> QED BY <1>3, <4>1, <4>2
      <3>2. p.last <= log'[new].time
        <4>1. log'[new].time \in Nat
          BY <1>1, <1>3 DEF EventOK
        <4> QED BY <2>1, <3>1, <4>1 DEF PollerOK, NoTime
      <3>3. \A i \in DOMAIN log : Place(i)' < Place(new)'
        <4> TAKE i \in DOMAIN log
        <4>1. i \in 1..MaxEvents /\ i < new /\ log'[i].time <= log'[new].time
          <5>1. i \in 1..(new - 1) /\ log'[i] = log[i] /\ log[i].time <= log'[new].time
            BY <1>3, <1>8, <3>1
          <5>2. MaxEvents \in Nat
            BY PolledLogsAssumption
          <5> QED BY <1>8, <5>1, <5>2
        <4>2. log'[i].time \in Nat /\ log'[new].time \in Nat
          BY <1>4, <1>8 DEF LogOK, EventOK
        <4>3. Place(i)' = log'[i].time * (MaxEvents + 1) + i /\ Place(new)' = log'[new].time * (MaxEvents + 1) + new
          BY DEF Place
        <4> QED BY <1>8, <4>1, <4>2, <4>3, ServedInOrder
      <3>4. Place(new)' > 0
        <4>1. log'[new].time \in Nat
          BY <1>4, <1>8 DEF LogOK, EventOK
        <4>2. Place(new)' = log'[new].time * (MaxEvents + 1) + new
          BY DEF Place
        <4> QED BY <1>8, <4>1, <4>2, ServedInOrder
      <3> QED BY <1>5, <2>1, <3>2, <3>3, <3>4 DEF PollerOK
    <2>5. Story(k, p, emitted)'
      <3>1. \A i \in p.visited : Owns(k, log'[i]) /\ emitted[i] > 0
        BY <1>3, <2>1 DEF Story, PollerOK
      <3>2. \A i \in DOMAIN log' : Due(k, i)' /\ log'[i].time >= p.first /\ emitted[i] = 0 => log'[i].time >= p.last /\ (p.at = "page" => Place(i)' > p.pos)
        <4> SUFFICES ASSUME NEW i \in DOMAIN log', Due(k, i)', log'[i].time >= p.first, emitted[i] = 0
                     PROVE  log'[i].time >= p.last /\ (p.at = "page" => Place(i)' > p.pos)
          OBVIOUS
        <4>1. CASE i = new
          BY <2>4, <4>1
        <4>2. CASE i # new
          <5>1. i \in DOMAIN log
            BY <1>8, <4>2
          <5>2. Due(k, i) /\ log'[i] = log[i] /\ Place(i)' = Place(i)
            BY <1>3, <1>5, <2>3, <5>1
          <5> QED BY <2>1, <5>1, <5>2 DEF Story
        <4> QED BY <4>1, <4>2
      <3>3. p.at = "wait" => \A i \in 1..p.seen : Due(k, i)' /\ Within(p, i)' => emitted[i] > 0
        <4>1. \A i \in 1..p.seen : i \in DOMAIN log
          BY <1>3, <2>1 DEF PollerOK
        <4>2. \A i \in DOMAIN log : Within(p, i)' = Within(p, i)
          BY <1>2, <1>3 DEF Within
        <4> QED BY <2>1, <2>3, <4>1, <4>2 DEF Story
      <3> QED BY <1>2, <3>1, <3>2, <3>3 DEF Story
    <2> QED BY <1>2, <2>2, <2>5
  <1>7. ScopeOK' /\ KeysOK' /\ Once'
    BY <1>2 DEF PollInv, ScopeOK, RequestOK, KeysOK, Once
  <1> QED BY <1>2, <1>4, <1>6, <1>7 DEF PollInv

-----------------------------------------------------------------------------
(* The pollers start.                                                      *)
LEMMA Starts ==
  ASSUME PollInv, StartsPollers
  PROVE  PollInv'
PROOF
  <1>1. /\ kind' = kind /\ opts' = opts /\ log' = log /\ scope' = scope /\ emitted' = emitted
        /\ main = "expand" /\ main' \in {"poll", "returned"}
    BY DEF StartsPollers, ReturnsError
  <1>2. DOMAIN pollers = {}
    BY <1>1 DEF PollInv, ScopeOK
  <1>3. pollers' = pollers \/ pollers' = [k \in (IF kind \in {"cloudwatch", "ecs"} THEN Groups ELSE {AllTasks}) \X scope |-> NewPoller]
    BY DEF StartsPollers, ReturnsError, Chunks
  <1>4. KeysOK'
    BY <1>2, <1>3 DEF KeysOK, PollInv, ScopeOK
  <1>5. ScopeOK' /\ LogOK'
    BY <1>1 DEF PollInv, ScopeOK, RequestOK, LogOK
  <1>6. \A k \in DOMAIN pollers' : pollers'[k] = NewPoller
    BY <1>2, <1>3
  <1>7. Once'
    BY <1>1, <1>2 DEF PollInv, Once
  <1>8. ASSUME NEW k PROVE PollerOK(NewPoller)' /\ Story(k, NewPoller, emitted)'
    <2>1. \A i \in DOMAIN log : log[i].time \in Nat
      BY DEF PollInv, LogOK, EventOK
    <2>2. Len(log) \in Nat
      BY DEF PollInv, LogOK
    <2>3. NewPoller.at = "begin" /\ NewPoller.since = 0 /\ NewPoller.until = 0 /\ NewPoller.first = 0 /\ NewPoller.pos = 0 /\ NewPoller.visited = {} /\ NewPoller.last = 0 /\ NewPoller.seen = 0
      BY DEF NewPoller, NoTime
    <2>4. NewPoller \in [at : {"begin", "page", "wait", "returned"}, since : Int, until : Int, first : Int, pos : Nat, visited : SUBSET DOMAIN log, last : Nat, seen : Nat]
      BY DEF NewPoller, NoTime
    <2> HIDE DEF NewPoller
    <2> QED BY <1>1, <2>1, <2>2, <2>3, <2>4 DEF PollerOK, Story, NoTime
  <1> QED BY <1>1, <1>4, <1>5, <1>6, <1>7, <1>8 DEF PollInv

(* One poller is p now; the events that are written stay so.               *)
LEMMA OnePollerMoves ==
  ASSUME PollInv, main = "poll", NEW k \in DOMAIN pollers, NEW p, Poller(k, p), emitted' \in [1..MaxEvents -> 0..Often],
         \A i \in 1..MaxEvents : emitted'[i] >= emitted[i],
         PollerOK(p), Story(k, p, emitted'), pollers[k].visited \subseteq p.visited,
         Kinds[kind].visits # "none" =>
           \A i \in 1..MaxEvents : emitted'[i] <= 1 /\ (emitted'[i] > 0 => emitted[i] > 0 \/ i \in p.visited)
  PROVE  PollInv'
PROOF
  <1>1. /\ kind' = kind /\ opts' = opts /\ log' = log /\ scope' = scope /\ main' = main
        /\ DOMAIN pollers' = DOMAIN pollers /\ pollers'[k] = p
        /\ \A l \in DOMAIN pollers : l # k => pollers'[l] = pollers[l]
    BY DEF Poller
  <1>2. LogOK' /\ ScopeOK' /\ KeysOK'
    BY <1>1 DEF PollInv, LogOK, ScopeOK, RequestOK, KeysOK
  <1>3. DOMAIN log \subseteq 1..MaxEvents /\ \A i \in 1..MaxEvents : emitted[i] \in 0..Often /\ emitted'[i] \in 0..Often
    <2>1. DOMAIN log = 1..Len(log) /\ Len(log) \in Nat /\ Len(log) <= MaxEvents /\ MaxEvents \in Nat
      BY PolledLogsAssumption DEF PollInv, LogOK
    <2>2. emitted \in [1..MaxEvents -> 0..Often]
      BY DEF PollInv
    <2>3. DOMAIN log \subseteq 1..MaxEvents
      BY <2>1
    <2>4. \A i \in 1..MaxEvents : emitted[i] \in 0..Often
      BY <2>2
    <2>5. \A i \in 1..MaxEvents : emitted'[i] \in 0..Often
      OBVIOUS
    <2> QED BY <2>3, <2>4, <2>5
  <1>4. ASSUME NEW l \in DOMAIN pollers, l # k PROVE PollerOK(pollers[l]) /\ Story(l, pollers[l], emitted')
    <2>1. PollerOK(pollers[l]) /\ Story(l, pollers[l], emitted)
      BY DEF PollInv
    <2>2. \A i \in DOMAIN log : (emitted[i] > 0 => emitted'[i] > 0) /\ (emitted'[i] = 0 => emitted[i] = 0)
      BY <1>3 DEF Often
    <2>3. pollers[l].visited \subseteq DOMAIN log /\ 1..pollers[l].seen \subseteq DOMAIN log
      <3>1. DOMAIN log = 1..Len(log) /\ Len(log) \in Nat
        BY DEF PollInv, LogOK
      <3>2. pollers[l].visited \subseteq DOMAIN log /\ pollers[l].seen \in Nat /\ pollers[l].seen <= Len(log)
        BY <2>1 DEF PollerOK
      <3> QED BY <3>1, <3>2
    <2>4. \A i \in pollers[l].visited : Owns(l, log[i]) /\ emitted'[i] > 0
      BY <2>1, <2>2, <2>3 DEF Story
    <2>5. \A i \in DOMAIN log : Due(l, i) /\ log[i].time >= pollers[l].first /\ emitted'[i] = 0 =>
            log[i].time >= pollers[l].last /\ (pollers[l].at = "page" => Place(i) > pollers[l].pos)
      BY <2>1, <2>2 DEF Story
    <2>6. pollers[l].at = "wait" =>
            \A i \in 1..pollers[l].seen : Due(l, i) /\ Within(pollers[l], i) => emitted'[i] > 0
      BY <2>1, <2>2, <2>3 DEF Story
    <2> QED BY <2>1, <2>4, <2>5, <2>6, Zenon DEF Story
  <1>5. ASSUME NEW l \in DOMAIN pollers' PROVE (PollerOK(pollers[l]) /\ Story(l, pollers[l], emitted))'
    <2>1. PollerOK(pollers'[l]) /\ Story(l, pollers'[l], emitted')
      BY <1>1, <1>4, <1>5
    <2> QED BY <1>1, <2>1 DEF PollerOK, Story, Due, Within, InTime, Place
  <1>6. Once'
    BY <1>1 DEF PollInv, Once
  <1> QED BY <1>1, <1>2, <1>5, <1>6 DEF PollInv

-----------------------------------------------------------------------------
(* What the steps of a poller need to know of its state.                   *)
LEMMA PollerFacts ==
  ASSUME PollInv, NEW k \in DOMAIN pollers
  PROVE  /\ PollerOK(pollers[k]) /\ Story(k, pollers[k], emitted)
         /\ DOMAIN log = 1..Len(log) /\ Len(log) \in Nat /\ DOMAIN log \subseteq 1..MaxEvents
         /\ \A i \in DOMAIN log : log[i].time \in Nat /\ Place(i) \in Nat \ {0}
         /\ \A i \in 1..MaxEvents : emitted[i] \in 0..2
PROOF
  <1>1. DOMAIN log = 1..Len(log) /\ Len(log) \in Nat /\ Len(log) <= MaxEvents /\ MaxEvents \in Nat
    BY PolledLogsAssumption DEF PollInv, LogOK
  <1>2. DOMAIN log \subseteq 1..MaxEvents
    BY <1>1
  <1>3. \A i \in DOMAIN log : log[i].time \in Nat
    BY DEF PollInv, LogOK, EventOK
  <1>4. \A i \in DOMAIN log : Place(i) \in Nat \ {0}
    BY PlacesDiffer DEF PollInv
  <1>5. \A i \in 1..MaxEvents : emitted[i] \in 0..2
    BY DEF PollInv, Often
  <1> QED BY <1>1, <1>2, <1>3, <1>4, <1>5 DEF PollInv

(* A poll begins: from the last event that was written, or earlier.        *)
LEMMA Begins ==
  ASSUME PollInv, main = "poll", NEW k \in DOMAIN pollers, PollBegins(k)
  PROVE  PollInv'
PROOF
  <1> DEFINE old == pollers[k]
  <1>1. PICK now \in Times : Poller(k, Queries(old, From(old, now), Until(old, now)))
    BY DEF PollBegins, Clock
  <1> DEFINE from == From(old, now)
             until == Until(old, now)
             p == Queries(old, from, until)
  <1>2. PollerOK(old) /\ Story(k, old, emitted)
    BY PollerFacts
  <1>3. from \in Int /\ until \in Int /\ (old.last # NoTime => from <= old.last)
    BY <1>2, WindowOfQuery DEF PollerOK, PollInv, ScopeOK
  <1> HIDE DEF from, until
  <1>4. /\ p.at = "page" /\ p.since = from /\ p.until = until /\ p.pos = 0 /\ p.seen = Len(log) /\ p.visited = old.visited
        /\ p.last = old.last /\ (old.last # NoTime => p.first = old.first) /\ (old.last = NoTime => p.first = from)
        /\ p \in [at : {"begin", "page", "wait", "returned"}, since : Int, until : Int, first : Int, pos : Nat, visited : SUBSET DOMAIN log, last : Nat, seen : Nat]
    BY <1>2, <1>3, PollerFacts DEF PollerOK, Queries
  <1>5. emitted' = emitted /\ Poller(k, p)
    BY <1>1 DEF PollBegins, from, until
  <1> HIDE DEF p
  <1>6. PollerOK(p)
    BY <1>2, <1>3, <1>4, PollerFacts DEF PollerOK
  <1>7. Story(k, p, emitted)
    <2>1. \A i \in DOMAIN log : log[i].time \in Nat /\ Place(i) \in Nat /\ Place(i) > 0
      BY PollerFacts
    <2>2. ASSUME NEW i \in DOMAIN log, Due(k, i), log[i].time >= p.first, emitted[i] = 0
          PROVE  log[i].time >= p.last /\ Place(i) > p.pos
      <3>1. CASE old.last = NoTime
        BY <1>4, <2>1, <3>1 DEF NoTime
      <3>2. CASE old.last # NoTime
        BY <1>2, <1>4, <2>1, <2>2, <3>2 DEF Story
      <3> QED BY <3>1, <3>2
    <2> QED BY <1>2, <1>4, <2>2 DEF Story
  <1>8. \A i \in 1..MaxEvents : emitted[i] >= emitted[i]
    BY PollerFacts
  <1> QED BY <1>4, <1>5, <1>6, <1>7, <1>8, OnePollerMoves DEF PollInv, Once

(* Of the answer, an event that has to be written is next or comes later.  *)
LEMMA DueIsPending ==
  ASSUME PollInv, NEW k \in DOMAIN pollers, pollers[k].at = "page",
         NEW j \in DOMAIN log, Due(k, j), log[j].time >= pollers[k].first, emitted[j] = 0, j \notin Pending(k)
  PROVE  \/ kind = "azuremonitor" /\ j > pollers[k].seen
         \/ pollers[k].until # NoTime /\ log[j].time > pollers[k].until
PROOF
  <1>1. PollerOK(pollers[k]) /\ Story(k, pollers[k], emitted)
    BY PollerFacts
  <1>2. log[j].time >= pollers[k].last /\ Place(j) > pollers[k].pos
    BY <1>1 DEF Story
  <1>3. /\ log[j].time \in Nat /\ pollers[k].last \in Nat /\ pollers[k].since \in Int /\ pollers[k].first \in Int
        /\ pollers[k].until \in Int /\ (pollers[k].since <= pollers[k].last \/ pollers[k].since <= pollers[k].first)
    BY <1>1, PollerFacts DEF PollerOK
  <1>4. log[j].time >= pollers[k].since
    BY <1>2, <1>3
  <1> SUFFICES ASSUME pollers[k].until = NoTime \/ log[j].time <= pollers[k].until
               PROVE  kind = "azuremonitor" /\ j > pollers[k].seen
    BY <1>3
  <1>5. Matches(k, log[j])
    BY <1>4 DEF Matches, Due, Owns
  <1>6. j \notin (IF kind = "azuremonitor" THEN 1..pollers[k].seen ELSE DOMAIN log)
    BY <1>2, <1>5 DEF Pending
  <1>7. j \in Nat /\ j >= 1 /\ pollers[k].seen \in Nat
    BY <1>1, PollerFacts DEF PollerOK
  <1> QED BY <1>6, <1>7

LEMMA NextComesFirst ==
  ASSUME PollInv, NEW k \in DOMAIN pollers, pollers[k].at = "page",
         NEW i \in Pending(k), \A j \in Pending(k) : Place(i) <= Place(j),
         NEW j \in DOMAIN log, Due(k, j), log[j].time >= pollers[k].first, emitted[j] = 0, j # i
  PROVE  i \in DOMAIN log /\ Place(i) < Place(j) /\ log[i].time <= log[j].time
PROOF
  <1>1. PollerOK(pollers[k])
    BY PollerFacts
  <1>2. /\ i \in DOMAIN log /\ (kind = "azuremonitor" => i \in 1..pollers[k].seen)
        /\ pollers[k].until = NoTime \/ log[i].time <= pollers[k].until
        /\ pollers[k].until \in Int
    BY <1>1, PollerFacts DEF Pending, PollerOK, Matches
  <1>3. Place(i) \in Nat /\ Place(j) \in Nat /\ (Place(i) = Place(j) => i = j) /\ (Place(i) <= Place(j) => log[i].time <= log[j].time)
        /\ (log[i].time < log[j].time => Place(i) < Place(j)) /\ (log[i].time = log[j].time => (i < j <=> Place(i) < Place(j)))
    BY <1>2, PlacesDiffer DEF PollInv
  <1>4. CASE j \in Pending(k)
    BY <1>2, <1>3, <1>4
  <1>5. CASE j \notin Pending(k) /\ pollers[k].until # NoTime /\ log[j].time > pollers[k].until
    <2>1. log[i].time < log[j].time
      <3>1. log[i].time \in Nat /\ log[j].time \in Nat
        BY <1>2, PollerFacts
      <3> QED BY <1>2, <1>5, <3>1
    <2> QED BY <1>2, <1>3, <2>1, PollerFacts
  <1>6. CASE j \notin Pending(k) /\ kind = "azuremonitor" /\ j > pollers[k].seen
    <2>1. kind = "azuremonitor" /\ j > pollers[k].seen
      BY <1>6
    <2>2. i \in 1..(j - 1)
      BY <1>1, <1>2, <2>1, PollerFacts DEF PollerOK
    <2>3. log[i].time <= log[j].time
      BY <2>2 DEF Due, InTime
    <2>4. log[i].time \in Nat /\ log[j].time \in Nat /\ i < j
      BY <1>2, <2>2, PollerFacts
    <2>5. log[i].time < log[j].time \/ log[i].time = log[j].time
      BY <2>3, <2>4
    <2> QED BY <1>2, <1>3, <2>3, <2>4, <2>5
  <1> QED BY <1>4, <1>5, <1>6, DueIsPending

-----------------------------------------------------------------------------
(* The next event of the answer is passed over: it was written before.     *)
LEMMA ReadsVisited ==
  ASSUME PollInv, main = "poll", NEW k \in DOMAIN pollers, pollers[k].at = "page",
         NEW i \in Pending(k), \A j \in Pending(k) : Place(i) <= Place(j),
         Visited(k, i), Poller(k, [pollers[k] EXCEPT !.pos = Place(i)]), emitted' = emitted
  PROVE  PollInv'
PROOF
  <1> DEFINE old == pollers[k]
  <1>1. PollerOK(old) /\ Story(k, old, emitted)
    BY PollerFacts
  <1>2. i \in DOMAIN log
    BY <1>1, PollerFacts DEF Pending, PollerOK
  <1> DEFINE p == [old EXCEPT !.pos = Place(i)]
  <1>3. /\ p \in [at : {"begin", "page", "wait", "returned"}, since : Int, until : Int, first : Int, pos : Nat, visited : SUBSET DOMAIN log, last : Nat, seen : Nat]
        /\ p.at = "page" /\ p.since = old.since /\ p.until = old.until /\ p.first = old.first /\ p.pos = Place(i) /\ p.seen = old.seen /\ p.visited = old.visited /\ p.last = old.last
    BY <1>1, <1>2, PollerFacts DEF PollerOK
  <1> HIDE DEF p
  <1>4. PollerOK(p)
    BY <1>1, <1>2, <1>3 DEF PollerOK
  <1>5. Due(k, i) => emitted[i] # 0
    <2> SUFFICES ASSUME Due(k, i) PROVE emitted[i] > 0
      BY <1>2, PollerFacts
    <2>1. i \in old.visited
      <3>1. CASE Kinds[kind].visits = "id"
        BY <3>1 DEF Visited
      <3>2. CASE Kinds[kind].visits = "span"
        <4>1. PICK m \in old.visited : log[m].span = log[i].span
          BY <3>2 DEF Visited
        <4>2. m \in DOMAIN log
          BY <1>1 DEF PollerOK
        <4>3. EventOK(m, log[m]) /\ EventOK(i, log[i]) /\ log[i].span # NoSpan
          BY <1>2, <3>2, <4>2 DEF PollInv, LogOK, Due
        <4> QED BY <4>1, <4>3 DEF EventOK
      <3> QED BY <3>1, <3>2 DEF Visited
    <2> QED BY <1>1, <2>1 DEF Story
  <1>6. Story(k, p, emitted)
    <2>1. ASSUME NEW j \in DOMAIN log, Due(k, j), log[j].time >= p.first, emitted[j] = 0
          PROVE  log[j].time >= p.last /\ Place(j) > p.pos
      <3>1. j # i
        BY <1>5, <2>1
      <3>2. Place(i) < Place(j)
        BY <1>3, <2>1, <3>1, NextComesFirst
      <3>3. log[j].time >= old.last
        BY <1>1, <1>3, <2>1 DEF Story
      <3>4. Place(i) \in Nat /\ Place(j) \in Nat
        BY <1>2, PollerFacts
      <3> QED BY <1>3, <3>2, <3>3, <3>4
    <2> QED BY <1>1, <1>3, <2>1 DEF Story
  <1>7. \A j \in 1..MaxEvents : emitted[j] >= emitted[j]
    BY PollerFacts
  <1>8. emitted' \in [1..MaxEvents -> 0..Often] /\ Poller(k, p)
    BY DEF PollInv, p
  <1>9. Kinds[kind].visits # "none" =>
          \A j \in 1..MaxEvents : emitted'[j] <= 1 /\ (emitted'[j] > 0 => emitted[j] > 0 \/ j \in p.visited)
    BY DEF PollInv, Once
  <1> QED BY <1>3, <1>4, <1>6, <1>7, <1>8, <1>9, OnePollerMoves

(* The next event is written.                                              *)
LEMMA ReadsNew ==
  ASSUME PollInv, main = "poll", NEW k \in DOMAIN pollers, pollers[k].at = "page",
         NEW i \in Pending(k), \A j \in Pending(k) : Place(i) <= Place(j),
         ~Visited(k, i), Poller(k, Written(k, i)),
         emitted' = [emitted EXCEPT ![i] = IF @ < Often THEN @ + 1 ELSE @]
  PROVE  PollInv'
PROOF
  <1> DEFINE old == pollers[k]
  <1>1. PollerOK(old) /\ Story(k, old, emitted)
    BY PollerFacts
  <1>2. i \in DOMAIN log /\ Owns(k, log[i]) /\ log[i].time >= old.since
    BY <1>1, PollerFacts DEF Pending, PollerOK, Matches, Owns
  <1> DEFINE p == Written(k, i)
  <1>3. /\ p \in [at : {"begin", "page", "wait", "returned"}, since : Int, until : Int, first : Int, pos : Nat, visited : SUBSET DOMAIN log, last : Nat, seen : Nat]
        /\ p.at = "page" /\ p.since = old.since /\ p.until = old.until /\ p.first = old.first /\ p.pos = Place(i) /\ p.seen = old.seen
        /\ p.visited = old.visited \cup {i} /\ p.last = log[i].time
    BY <1>1, <1>2, PollerFacts DEF PollerOK, Written
  <1> HIDE DEF p
  <1>4. PollerOK(p)
    <2>1. log[i].time \in Nat /\ p.since \in Int
      BY <1>2, <1>3, PollerFacts
    <2>2. p.since <= p.last
      BY <1>2, <1>3, <2>1
    <2> QED BY <1>1, <1>2, <1>3, <2>2 DEF PollerOK
  <1>5. /\ emitted' \in [1..MaxEvents -> 0..Often] /\ i \in 1..MaxEvents
        /\ emitted'[i] = (IF emitted[i] < 2 THEN emitted[i] + 1 ELSE emitted[i]) /\ emitted'[i] > 0
        /\ \A j \in 1..MaxEvents : j # i => emitted'[j] = emitted[j]
        /\ \A j \in 1..MaxEvents : emitted'[j] >= emitted[j]
    <2>1. i \in 1..MaxEvents /\ emitted[i] \in 0..2 /\ emitted \in [1..MaxEvents -> 0..2]
      BY <1>2, PollerFacts DEF PollInv, Often
    <2>2. \A j \in 1..MaxEvents : emitted[j] \in 0..2
      BY PollerFacts
    <2>3. emitted' = [emitted EXCEPT ![i] = IF emitted[i] < 2 THEN emitted[i] + 1 ELSE emitted[i]]
      BY DEF Often
    <2>4. (IF emitted[i] < 2 THEN emitted[i] + 1 ELSE emitted[i]) \in 0..2
      BY <2>1
    <2>5. emitted'[i] = (IF emitted[i] < 2 THEN emitted[i] + 1 ELSE emitted[i])
      BY <2>1, <2>3
    <2>6. \A j \in 1..MaxEvents : j # i => emitted'[j] = emitted[j]
      BY <2>1, <2>3
    <2>7. emitted' \in [1..MaxEvents -> 0..Often]
      BY <2>1, <2>3, <2>4 DEF Often
    <2>8. \A j \in 1..MaxEvents : emitted'[j] >= emitted[j]
      BY <2>2, <2>5, <2>6
    <2>9. emitted'[i] > 0
      BY <2>1, <2>5
    <2> QED BY <2>1, <2>5, <2>6, <2>7, <2>8, <2>9
  <1>6. Story(k, p, emitted')
    <2>1. ASSUME NEW j \in p.visited PROVE Owns(k, log[j]) /\ emitted'[j] > 0
      <3>1. CASE j = i
        BY <1>2, <1>5, <3>1
      <3>2. CASE j # i
        <4>1. j \in old.visited /\ j \in 1..MaxEvents
          BY <1>1, <1>3, <3>2, PollerFacts DEF PollerOK
        <4> QED BY <1>1, <1>5, <3>2, <4>1 DEF Story
      <3> QED BY <3>1, <3>2
    <2>2. ASSUME NEW j \in DOMAIN log, Due(k, j), log[j].time >= p.first, emitted'[j] = 0
          PROVE  log[j].time >= p.last /\ Place(j) > p.pos
      <3>1. j # i /\ emitted[j] = 0
        BY <1>5, <2>2, PollerFacts
      <3>2. Place(i) < Place(j) /\ log[i].time <= log[j].time
        BY <1>3, <2>2, <3>1, NextComesFirst
      <3>3. Place(i) \in Nat /\ Place(j) \in Nat /\ log[i].time \in Nat /\ log[j].time \in Nat
        BY <1>2, PollerFacts
      <3> QED BY <1>3, <3>2, <3>3
    <2>3. p.at # "wait"
      BY <1>3
    <2> QED BY <2>1, <2>2, <2>3, Zenon DEF Story
  <1>7. Kinds[kind].visits # "none" => emitted[i] = 0
    <2> SUFFICES ASSUME Kinds[kind].visits # "none", emitted[i] # 0 PROVE FALSE
      OBVIOUS
    <2>1. emitted[i] > 0
      BY <1>5, PollerFacts
    <2>2. PICK l \in DOMAIN pollers : i \in pollers[l].visited
      BY <1>5, <2>1 DEF PollInv, Once
    <2>3. Owns(l, log[i])
      BY <2>2, PollerFacts DEF Story
    <2>4. i \in old.visited
      BY <1>2, <2>2, <2>3, OneOwner DEF PollInv
    <2>5. Kinds[kind].visits \in {"id", "span"}
      BY DEF PollInv, ScopeOK, RequestOK, Kinds
    <2> QED BY <2>4, <2>5 DEF Visited
  <1>8. Kinds[kind].visits # "none" =>
          \A j \in 1..MaxEvents : emitted'[j] <= 1 /\ (emitted'[j] > 0 => emitted[j] > 0 \/ j \in p.visited)
    <2> SUFFICES ASSUME Kinds[kind].visits # "none", NEW j \in 1..MaxEvents
                 PROVE  emitted'[j] <= 1 /\ (emitted'[j] > 0 => emitted[j] > 0 \/ j \in p.visited)
      OBVIOUS
    <2>1. CASE j = i
      BY <1>3, <1>5, <1>7, <2>1
    <2>2. CASE j # i
      BY <1>5, <2>2 DEF PollInv, Once
    <2> QED BY <2>1, <2>2
  <1>9. Poller(k, p) /\ old.visited \subseteq p.visited
    BY <1>3 DEF p
  <1> QED BY <1>4, <1>5, <1>6, <1>8, <1>9, OnePollerMoves

LEMMA Reads ==
  ASSUME PollInv, main = "poll", NEW k \in DOMAIN pollers, PollReads(k)
  PROVE  PollInv'
PROOF
  <1>1. PICK i \in Pending(k) :
          /\ \A j \in Pending(k) : Place(i) <= Place(j)
          /\ IF Visited(k, i)
             THEN Poller(k, [pollers[k] EXCEPT !.pos = Place(i)]) /\ UNCHANGED emitted
             ELSE /\ Poller(k, Written(k, i))
                  /\ emitted' = [emitted EXCEPT ![i] = IF @ < Often THEN @ + 1 ELSE @]
    BY DEF PollReads
  <1>2. pollers[k].at = "page"
    BY DEF PollReads
  <1>3. CASE Visited(k, i)
    BY <1>1, <1>2, <1>3, ReadsVisited
  <1>4. CASE ~Visited(k, i)
    BY <1>1, <1>2, <1>4, ReadsNew
  <1> QED BY <1>3, <1>4

-----------------------------------------------------------------------------
(* A poller goes elsewhere: to wait only when all that was due is written. *)
LEMMA Goes ==
  ASSUME PollInv, main = "poll", NEW k \in DOMAIN pollers, NEW at \in {"begin", "wait", "returned"},
         Poller(k, [pollers[k] EXCEPT !.at = at]), emitted' = emitted,
         at = "wait" => \A i \in 1..pollers[k].seen : Due(k, i) /\ Within(pollers[k], i) => emitted[i] > 0
  PROVE  PollInv'
PROOF
  <1> DEFINE old == pollers[k]
             p == [old EXCEPT !.at = at]
  <1>1. PollerOK(old) /\ Story(k, old, emitted)
    BY PollerFacts
  <1>2. /\ p \in [at : {"begin", "page", "wait", "returned"}, since : Int, until : Int, first : Int, pos : Nat, visited : SUBSET DOMAIN log, last : Nat, seen : Nat]
        /\ p.at = at /\ p.since = old.since /\ p.until = old.until /\ p.first = old.first /\ p.pos = old.pos /\ p.seen = old.seen /\ p.visited = old.visited /\ p.last = old.last
    BY <1>1 DEF PollerOK
  <1>3. Poller(k, p)
    OBVIOUS
  <1> HIDE DEF p
  <1>4. PollerOK(p)
    BY <1>1, <1>2 DEF PollerOK
  <1>5. Story(k, p, emitted)
    BY <1>1, <1>2 DEF Story, Within
  <1>6. \A i \in 1..MaxEvents : emitted[i] >= emitted[i]
    BY PollerFacts
  <1>7. emitted' \in [1..MaxEvents -> 0..Often]
    BY DEF PollInv
  <1>8. Kinds[kind].visits # "none" =>
          \A i \in 1..MaxEvents : emitted'[i] <= 1 /\ (emitted'[i] > 0 => emitted[i] > 0 \/ i \in p.visited)
    BY DEF PollInv, Once
  <1> QED BY <1>2, <1>3, <1>4, <1>5, <1>6, <1>7, <1>8, OnePollerMoves

LEMMA Ends ==
  ASSUME PollInv, main = "poll", NEW k \in DOMAIN pollers, PollEnds(k)
  PROVE  PollInv'
PROOF
  <1>1. pollers[k].at = "page" /\ Pending(k) = {} /\ emitted' = emitted
    BY DEF PollEnds
  <1>2. ASSUME NEW i \in 1..pollers[k].seen, Due(k, i), Within(pollers[k], i) PROVE emitted[i] > 0
    <2>1. i \in DOMAIN log /\ i <= pollers[k].seen /\ pollers[k].seen \in Nat /\ i \in Nat
      BY PollerFacts DEF PollerOK
    <2>2. emitted[i] # 0
      <3> SUFFICES ASSUME emitted[i] = 0 PROVE FALSE
        OBVIOUS
      <3>1. \/ kind = "azuremonitor" /\ i > pollers[k].seen
            \/ pollers[k].until # NoTime /\ log[i].time > pollers[k].until
        BY <1>1, <1>2, <2>1, DueIsPending DEF Within
      <3>2. log[i].time \in Nat /\ pollers[k].until \in Int
        BY <2>1, PollerFacts DEF PollerOK
      <3> QED BY <1>2, <2>1, <3>1, <3>2 DEF Within
    <2> QED BY <2>1, <2>2, PollerFacts
  <1>3. PICK at \in {"wait", "returned"} : Poller(k, [pollers[k] EXCEPT !.at = at])
    BY DEF PollEnds
  <1> QED BY <1>1, <1>2, <1>3, Goes

LEMMA Waits ==
  ASSUME PollInv, main = "poll", NEW k \in DOMAIN pollers, PollWaits(k)
  PROVE  PollInv'
PROOF
  <1>1. PICK at \in {"begin", "returned"} : Poller(k, [pollers[k] EXCEPT !.at = at]) /\ emitted' = emitted
    BY DEF PollWaits
  <1> QED BY <1>1, Goes

LEMMA FailsOrStops ==
  ASSUME PollInv, main = "poll", NEW k \in DOMAIN pollers, PollFails(k)
  PROVE  PollInv'
PROOF
  <1>1. Poller(k, [pollers[k] EXCEPT !.at = "returned"]) /\ emitted' = emitted
    BY DEF PollFails
  <1> QED BY <1>1, Goes

(* The log streams are resolved, the context is cancelled, Stream returns. *)
LEMMA NothingIsWritten ==
  ASSUME PollInv, ContextIsCancelled \/ ResolveStreamNames \/ StreamReturns \/ UNCHANGED vars
  PROVE  PollInv'
PROOF
  <1>1. kind' = kind /\ opts' = opts /\ log' = log /\ pollers' = pollers /\ emitted' = emitted
    BY DEF ContextIsCancelled, ResolveStreamNames, StreamReturns, ReturnsError, vars
  <1>2. ScopeOK'
    <2>1. CASE main' \in {main, "returned"} /\ scope' = scope
      BY <1>1, <2>1 DEF PollInv, ScopeOK, RequestOK
    <2>2. CASE ResolveStreamNames /\ main' = "expand"
      <3>1. kind = "ecs" /\ DOMAIN pollers = {} /\ opts.task \subseteq Tasks /\ RequestOK
        BY <2>2 DEF ResolveStreamNames, PollInv, ScopeOK, RequestOK
      <3>2. PICK tasks \in SUBSET Tasks :
              LET names == StreamsForTaskIds(WantedTasks(tasks)) IN scope' = IF names = {} THEN {AllTasks} ELSE names
        BY <2>2 DEF ResolveStreamNames, ReturnsError
      <3>3. StreamsForTaskIds(WantedTasks(tasks)) \subseteq Tasks
        BY <3>1 DEF StreamsForTaskIds, WantedTasks
      <3> QED BY <1>1, <2>2, <3>1, <3>2, <3>3 DEF ScopeOK, RequestOK
    <2> QED BY <2>1, <2>2 DEF ContextIsCancelled, ResolveStreamNames, StreamReturns, ReturnsError, vars
  <1>3. LogOK' /\ KeysOK' /\ Once'
    BY <1>1 DEF PollInv, LogOK, KeysOK, Once
  <1>4. ASSUME NEW k \in DOMAIN pollers PROVE (PollerOK(pollers[k]) /\ Story(k, pollers[k], emitted))'
    <2>1. PollerOK(pollers[k]) /\ Story(k, pollers[k], emitted)
      BY PollerFacts
    <2> QED BY <1>1, <2>1 DEF PollerOK, Story, Due, Within, InTime, Place
  <1> QED BY <1>1, <1>2, <1>3, <1>4 DEF PollInv

-----------------------------------------------------------------------------
LEMMA PollStep == PollInv /\ [Next]_vars => PollInv'
PROOF
  <1> SUFFICES ASSUME PollInv, [Next]_vars PROVE PollInv'
    OBVIOUS
  <1>1. CASE EventArrives
    BY <1>1, Arrives
  <1>2. CASE StartsPollers
    BY <1>2, Starts
  <1>3. CASE ContextIsCancelled \/ ResolveStreamNames \/ StreamReturns \/ UNCHANGED vars
    BY <1>3, NothingIsWritten
  <1>4. CASE main = "poll" /\ \E k \in DOMAIN pollers :
               PollBegins(k) \/ PollReads(k) \/ PollEnds(k) \/ PollWaits(k) \/ PollFails(k)
    BY <1>4, Begins, Reads, Ends, Waits, FailsOrStops
  <1> QED BY <1>1, <1>2, <1>3, <1>4 DEF Next

LEMMA PollAlways == Spec => []PollInv
  BY PollInit, PollStep, PTL DEF Spec

(* No event is given to the emitter twice, by whichever page, poll or      *)
(* poller comes upon it again: every streamer but that of Azure Monitor,   *)
(* which remembers nothing, knows the events that it has written.          *)
THEOREM EventsWrittenOnce == Spec => []WrittenOnce
PROOF
  <1>1. ASSUME PollInv PROVE WrittenOnce
    <2>1. DOMAIN emitted = 1..MaxEvents
      BY <1>1 DEF PollInv
    <2> QED BY <1>1, <2>1 DEF WrittenOnce, PollInv, Once
  <1> QED BY <1>1, PollAlways, PTL

(* When a poller rests, it has written every event of its own that had     *)
(* arrived when the poll began, was not late and lies in the window of the *)
(* poll's query: asking again from the time of the last one leaves no gap, *)
(* whatever arrives meanwhile and whatever an earlier window cut off.      *)
THEOREM PollsMissNothing == Spec => []PollMissesNothing
PROOF
  <1>1. ASSUME PollInv PROVE PollMissesNothing
    <2> SUFFICES ASSUME NEW k \in DOMAIN pollers, pollers[k].at = "wait", NEW i \in 1..pollers[k].seen,
                        Due(k, i), Within(pollers[k], i)
                 PROVE  emitted[i] > 0
      BY DEF PollMissesNothing, Due, Owns
    <2>1. Story(k, pollers[k], emitted)
      BY <1>1, PollerFacts
    <2> QED BY <2>1 DEF Story
  <1> QED BY <1>1, PollAlways, PTL
=============================================================================
