---------------------------- MODULE PodLogs_proofs ----------------------------
(* Theorems about PodLogs: for every set of pods and containers, every      *)
(* number of lines and every combination of options.                        *)
EXTENDS PodLogs, TLAPS

Streamers == [at : {"none", "opening", "reading", "flush", "flushing", "ended"},
              from : Nat, read : Nat, stop : BOOLEAN,
              end : {"none", "eof", "unopened", "unflushed", "broken", "timeout", "late"}]

(* What LinesWithoutGap says of one container.                              *)
Gapless(s, w) ==
  \A i \in DOMAIN w :
    \/ i = 1 /\ w[i] = s.from + 1
    \/ i > 1 /\ (w[i] = w[i - 1] + 1 \/ (w[i] = s.from + 1 /\ s.at \in {"flushing", "ended"}))

(* The line that was read last is the one that was written last, except     *)
(* where a stream begins.  A flush that gave up may have lines in hand.     *)
Follows(s, w) ==
  /\ s \in Streamers /\ w \in Seq(Nat)
  /\ s.at \in {"none", "opening"} => w = <<>>
  /\ s.at = "reading" => IF w = <<>> THEN s.read = s.from ELSE w[Len(w)] = s.read
  /\ s.at = "flushing" \/ s.end \in {"timeout", "late"} => s.read = s.from \/ (w # <<>> /\ w[Len(w)] = s.read)
  /\ s.end # "none" => s.at = "ended"
  /\ Gapless(s, w)

StreamersInv == \A c \in Containers : Follows(stream[c], written[c])

(* A pod is streamed once: it is listed, or its creation is an event.       *)
PodsInv ==
  /\ phase \in [Pods -> {"absent", "live", "finished", "deleted"}]
  /\ podStream \in [Pods -> {"none", "running", "returned"}]
  /\ made \in [Containers -> Nat]
  /\ stream = [c \in Containers |-> stream[c]] /\ written = [c \in Containers |-> written[c]]
  /\ events \in Seq([type : {"Added", "Modified", "Deleted"}, pod : Pods])
  /\ main \in {"config", "list"} => events = <<>> /\ \A p \in Pods : podStream[p] = "none"
  /\ \A p \in Pods : phase[p] = "absent" => podStream[p] = "none" /\ \A i \in 1..Len(events) : events[i].pod # p
  /\ \A i \in 1..Len(events) : events[i].type = "Added" =>
       /\ podStream[events[i].pod] = "none"
       /\ \A j \in 1..Len(events) : events[j].type = "Added" /\ events[j].pod = events[i].pod => i = j
  /\ \A c \in Containers : podStream[PodOf[c]] = "none" => stream[c].at = "none" /\ written[c] = <<>>

-----------------------------------------------------------------------------
(* One streamer.                                                           *)

(* The next line is written: n follows what was read last.                  *)
LEMMA NextLine ==
  ASSUME NEW s, NEW w, Follows(s, w), NEW t \in Streamers,
         t.from = s.from, t.read = s.read + 1,
         \/ s.at = "reading" /\ t.at \in {"reading", "flush"} /\ t.end = "none"
         \/ s.at = "flushing" /\ t.at = "flushing" /\ t.end = "none"
         \/ s.end \in {"timeout", "late"} /\ t.at = "ended" /\ t.end = "late"
  PROVE  Follows(t, Append(w, s.read + 1))
PROOF
  <1> DEFINE v == Append(w, s.read + 1)
  <1>1. /\ s.read \in Nat /\ s.read + 1 \in Nat /\ s.from \in Nat /\ w \in Seq(Nat) /\ Len(w) \in Nat
        /\ t.at \notin {"none", "opening"} /\ (t.end # "none" => t.at = "ended")
    BY DEF Follows, Streamers
  <1>2. v \in Seq(Nat) /\ Len(v) = Len(w) + 1 /\ v # <<>> /\ v[Len(v)] = s.read + 1
        /\ \A i \in 1..Len(w) : v[i] = w[i]
    BY <1>1
  <1>3. s.at \in {"flushing", "ended"} => t.at \in {"flushing", "ended"}
    BY DEF Follows, Streamers
  <1>4. ASSUME NEW i \in 1..Len(w)
        PROVE  \/ i = 1 /\ v[i] = t.from + 1
               \/ i > 1 /\ (v[i] = v[i - 1] + 1 \/ (v[i] = t.from + 1 /\ t.at \in {"flushing", "ended"}))
    <2>1. \/ i = 1 /\ w[i] = s.from + 1
          \/ i > 1 /\ (w[i] = w[i - 1] + 1 \/ (w[i] = s.from + 1 /\ s.at \in {"flushing", "ended"}))
      <3>1. i \in DOMAIN w
        BY <1>1
      <3> QED BY <3>1, Zenon DEF Follows, Gapless
    <2>2. i > 1 => i - 1 \in 1..Len(w)
      BY <1>1
    <2>3. v[i] = w[i] /\ (i > 1 => v[i - 1] = w[i - 1])
      BY <1>2, <2>2
    <2> QED BY <1>3, <2>1, <2>3
  <1>5. \/ w = <<>> /\ s.read = s.from
        \/ w # <<>> /\ w[Len(w)] = s.read
        \/ w # <<>> /\ s.read = s.from /\ t.at \in {"flushing", "ended"}
    BY DEF Follows
  <1>6. ASSUME NEW i, i = Len(w) + 1
        PROVE  \/ i = 1 /\ v[i] = t.from + 1
               \/ i > 1 /\ (v[i] = v[i - 1] + 1 \/ (v[i] = t.from + 1 /\ t.at \in {"flushing", "ended"}))
    <2>1. CASE w = <<>>
      BY <1>1, <1>2, <1>5, <1>6, <2>1
    <2>2. CASE w # <<>>
      <3>1. Len(w) \in 1..Len(w) /\ i > 1 /\ i - 1 = Len(w)
        BY <1>1, <1>6, <2>2
      <3>2. v[i - 1] = w[Len(w)] /\ v[i] = s.read + 1
        BY <1>2, <1>6, <3>1
      <3> QED BY <1>5, <2>2, <3>1, <3>2
    <2> QED BY <2>1, <2>2
  <1>7. DOMAIN v = 1..Len(w) \cup {Len(w) + 1}
    BY <1>1, <1>2
  <1>8. Gapless(t, v)
    BY <1>4, <1>6, <1>7 DEF Gapless
  <1> QED BY <1>1, <1>2, <1>8 DEF Follows

(* A streamer that has read a line notices that it is to stop.              *)
LEMMA MovesOn ==
  ASSUME NEW s \in Streamers, s.end = "none"
  PROVE  LET t == [s EXCEPT !.at = IF s.stop THEN "flush" ELSE "reading", !.read = s.read + 1]
         IN  /\ t \in Streamers /\ t.from = s.from /\ t.read = s.read + 1 /\ t.end = "none"
             /\ t.at \in {"flush", "reading"}
PROOF
  <1>1. s.read + 1 \in Nat
    BY DEF Streamers
  <1>2. CASE s.stop
    <2>1. LET t == [s EXCEPT !.at = "flush", !.read = s.read + 1]
          IN  /\ t \in Streamers /\ t.from = s.from /\ t.read = s.read + 1 /\ t.end = "none"
              /\ t.at \in {"flush", "reading"}
      BY <1>1 DEF Streamers
    <2>2. (IF s.stop THEN "flush" ELSE "reading") = "flush"
      BY <1>2
    <2> QED BY <2>1, <2>2
  <1>3. CASE ~s.stop
    <2>1. LET t == [s EXCEPT !.at = "reading", !.read = s.read + 1]
          IN  /\ t \in Streamers /\ t.from = s.from /\ t.read = s.read + 1 /\ t.end = "none"
              /\ t.at \in {"flush", "reading"}
      BY <1>1 DEF Streamers
    <2>2. (IF s.stop THEN "flush" ELSE "reading") = "reading"
      BY <1>3
    <2> QED BY <2>1, <2>2
  <1> QED BY <1>2, <1>3

(* Nothing is written: the streamer opens, ends or begins to flush.         *)
LEMMA NoLine ==
  ASSUME NEW s, NEW w, Follows(s, w), NEW t \in Streamers,
         t.from = s.from,
         \/ s.at = "opening" /\ t.at = "reading" /\ t.read = s.from /\ t.end = "none"
         \/ s.at \in {"opening", "reading"} /\ t.at = "flush" /\ t.end = "none"
         \/ s.at = "flush" /\ t.at = "flushing" /\ t.read = s.from /\ t.end = "none"
         \/ t.at = "ended" /\ t.end \in {"eof", "unopened", "unflushed", "broken"}
         \/ s.at = "flushing" /\ t.at = "ended" /\ t.read = s.read /\ t.end = "timeout"
         \/ t.at = s.at /\ t.read = s.read /\ t.end = s.end
  PROVE  Follows(t, w)
PROOF
  <1>1. s.at \in {"flushing", "ended"} => t.at \in {"flushing", "ended"}
    BY DEF Follows, Streamers
  <1>2. Gapless(t, w)
    BY <1>1 DEF Follows, Gapless
  <1> QED BY <1>2 DEF Follows

-----------------------------------------------------------------------------
(* The goroutine of a container.                                           *)
LEMMA StreamersStep ==
  ASSUME StreamersInv, PodsInv, NEW c \in Containers,
         Opens(c) \/ ReadsLine(c) \/ ReadEnds(c) \/ ReadBreaks(c) \/ FlushOpens(c) \/ FlushGivesUp(c)
           \/ FlushWrites(c) \/ FlushReachesEnd(c) \/ FlushBreaks(c)
  PROVE  /\ StreamersInv'
         /\ stream[c].at # "none"
         /\ \A d \in Containers \ {c} : stream'[d] = stream[d] /\ written'[d] = written[d]
         /\ stream' = [d \in Containers |-> stream'[d]] /\ written' = [d \in Containers |-> written'[d]]
PROOF
  <1> DEFINE s == stream[c]
             w == written[c]
  <1>1. Follows(s, w) /\ s \in Streamers /\ s.read \in Nat /\ s.from \in Nat
    BY DEF StreamersInv, Follows, Streamers
  <1>2. ASSUME NEW t, Becomes(c, t, 0), Follows(t, w), s.at # "none"
        PROVE  /\ StreamersInv' /\ s.at # "none"
               /\ \A d \in Containers \ {c} : stream'[d] = stream[d] /\ written'[d] = written[d]
               /\ stream' = [d \in Containers |-> stream'[d]] /\ written' = [d \in Containers |-> written'[d]]
    <2>1. written' = written /\ stream' = [stream EXCEPT ![c] = t]
      BY <1>2 DEF Becomes
    <2> QED BY <1>2, <2>1 DEF StreamersInv, PodsInv
  <1>3. ASSUME NEW t, Becomes(c, t, s.read + 1), Follows(t, Append(w, s.read + 1)), s.at # "none"
        PROVE  /\ StreamersInv' /\ s.at # "none"
               /\ \A d \in Containers \ {c} : stream'[d] = stream[d] /\ written'[d] = written[d]
               /\ stream' = [d \in Containers |-> stream'[d]] /\ written' = [d \in Containers |-> written'[d]]
    <2>1. s.read + 1 # 0
      BY <1>1
    <2>2. written' = [written EXCEPT ![c] = Append(w, s.read + 1)] /\ stream' = [stream EXCEPT ![c] = t]
      BY <1>3, <2>1 DEF Becomes
    <2> QED BY <1>3, <2>2 DEF StreamersInv, PodsInv
  <1>4. CASE Opens(c)
    <2>1. s.at = "opening" /\ s.end = "none"
      BY <1>1, <1>4 DEF Opens, Follows
    <2>2. CASE Becomes(c, [s EXCEPT !.at = IF s.stop THEN "flush" ELSE "reading", !.read = s.from], 0)
      <3> DEFINE t == [s EXCEPT !.at = IF s.stop THEN "flush" ELSE "reading", !.read = s.from]
      <3>1. t \in Streamers /\ t.from = s.from /\ t.read = s.from /\ t.end = "none" /\ t.at \in {"flush", "reading"}
        BY <1>1, <2>1 DEF Streamers
      <3>2. Follows(t, w)
        BY <1>1, <2>1, <3>1, NoLine
      <3> QED BY <1>2, <2>1, <2>2, <3>2
    <2>3. CASE Becomes(c, [s EXCEPT !.at = "ended", !.end = "unopened"], 0)
      <3> DEFINE t == [s EXCEPT !.at = "ended", !.end = "unopened"]
      <3>1. t \in Streamers /\ t.from = s.from /\ t.end = "unopened" /\ t.at = "ended"
        BY <1>1 DEF Streamers
      <3>2. Follows(t, w)
        BY <1>1, <3>1, NoLine
      <3> QED BY <1>2, <2>1, <2>3, <3>2
    <2> QED BY <1>4, <2>2, <2>3 DEF Opens
  <1>5. CASE ReadsLine(c)
    <2> DEFINE t == [s EXCEPT !.at = IF s.stop THEN "flush" ELSE "reading", !.read = s.read + 1]
    <2>0. s.at = "reading" /\ Becomes(c, t, s.read + 1)
      BY <1>5 DEF ReadsLine
    <2>1. s.at = "reading" /\ s.end = "none" /\ Becomes(c, t, s.read + 1)
      BY <1>1, <2>0 DEF Follows
    <2>2. t \in Streamers /\ t.from = s.from /\ t.read = s.read + 1 /\ t.end = "none" /\ t.at \in {"flush", "reading"}
      BY <1>1, <2>1, MovesOn
    <2>3. Follows(t, Append(w, s.read + 1))
      BY <1>1, <2>1, <2>2, NextLine
    <2> QED BY <1>3, <2>1, <2>3
  <1>6. CASE ReadEnds(c) \/ ReadBreaks(c)
    <2> DEFINE t == [s EXCEPT !.at = "flush"]
    <2>1. s.at = "reading" /\ s.end = "none" /\ Becomes(c, t, 0)
      BY <1>1, <1>6 DEF ReadEnds, ReadBreaks, Follows
    <2>2. t \in Streamers /\ t.from = s.from /\ t.end = "none" /\ t.at = "flush"
      BY <1>1, <2>1 DEF Streamers
    <2>3. Follows(t, w)
      BY <1>1, <2>1, <2>2, NoLine
    <2> QED BY <1>2, <2>1, <2>3
  <1>7. ASSUME NEW how \in {"eof", "unflushed", "broken"}, Ends(c, how), s.at # "none"
        PROVE  /\ StreamersInv' /\ s.at # "none"
               /\ \A d \in Containers \ {c} : stream'[d] = stream[d] /\ written'[d] = written[d]
               /\ stream' = [d \in Containers |-> stream'[d]] /\ written' = [d \in Containers |-> written'[d]]
    <2> DEFINE t == [s EXCEPT !.at = "ended", !.end = how, !.stop = TRUE]
    <2>1. t \in Streamers /\ t.from = s.from /\ t.end = how /\ t.at = "ended"
      BY <1>1 DEF Streamers
    <2>2. Follows(t, w)
      BY <1>1, <2>1, NoLine
    <2> QED BY <1>2, <1>7, <2>2 DEF Ends
  <1>8. CASE FlushOpens(c)
    <2> DEFINE t == [s EXCEPT !.at = "flushing", !.read = s.from]
    <2>1. s.at = "flush" /\ s.end = "none"
      BY <1>1, <1>8 DEF FlushOpens, Follows
    <2>2. t \in Streamers /\ t.from = s.from /\ t.read = s.from /\ t.end = "none" /\ t.at = "flushing"
      BY <1>1, <2>1 DEF Streamers
    <2>3. Follows(t, w)
      BY <1>1, <2>1, <2>2, NoLine
    <2>4. Becomes(c, t, 0) \/ Ends(c, "unflushed")
      BY <1>8 DEF FlushOpens
    <2> QED BY <1>2, <1>7, <2>1, <2>3, <2>4
  <1>9. CASE FlushGivesUp(c)
    <2> DEFINE t == [s EXCEPT !.at = "ended", !.end = "timeout", !.stop = TRUE]
    <2>1. s.at = "flushing" /\ Becomes(c, t, 0)
      BY <1>9 DEF FlushGivesUp, Ends
    <2>2. t \in Streamers /\ t.from = s.from /\ t.read = s.read /\ t.end = "timeout" /\ t.at = "ended"
      BY <1>1 DEF Streamers
    <2>3. Follows(t, w)
      BY <1>1, <2>1, <2>2, NoLine
    <2> QED BY <1>2, <2>1, <2>3
  <1>10. CASE FlushWrites(c)
    <2>1. CASE s.at = "flushing" /\ Becomes(c, [s EXCEPT !.read = s.read + 1], s.read + 1)
      <3> DEFINE t == [s EXCEPT !.read = s.read + 1]
      <3>1. s.end = "none"
        BY <1>1, <2>1 DEF Follows
      <3>2. t \in Streamers /\ t.from = s.from /\ t.read = s.read + 1 /\ t.end = "none" /\ t.at = "flushing"
        BY <1>1, <2>1, <3>1 DEF Streamers
      <3>3. Follows(t, Append(w, s.read + 1))
        BY <1>1, <2>1, <3>2, NextLine
      <3> QED BY <1>3, <2>1, <3>3
    <2>2. CASE s.end \in {"timeout", "late"} /\ Becomes(c, [s EXCEPT !.read = s.read + 1, !.end = "late"], s.read + 1)
      <3>1. s.at = "ended"
        BY <1>1, <2>2 DEF Follows
      <3> DEFINE t == [s EXCEPT !.read = s.read + 1, !.end = "late"]
      <3>2. /\ s.read + 1 \in Nat /\ "late" \in {"none", "eof", "unopened", "unflushed", "broken", "timeout", "late"}
        BY <1>1
      <3>3. t \in Streamers /\ t.from = s.from /\ t.read = s.read + 1 /\ t.end = "late" /\ t.at = "ended"
        BY <1>1, <3>1, <3>2 DEF Streamers
      <3>4. Follows(t, Append(w, s.read + 1))
        BY <1>1, <2>2, <3>3, NextLine
      <3> QED BY <1>3, <2>2, <3>1, <3>4
    <2> QED BY <1>10, <2>1, <2>2 DEF FlushWrites
  <1>11. CASE FlushReachesEnd(c) \/ FlushBreaks(c)
    BY <1>7, <1>11 DEF FlushReachesEnd, FlushBreaks
  <1> QED BY <1>4, <1>5, <1>6, <1>8, <1>9, <1>10, <1>11

-----------------------------------------------------------------------------
(* The pods.                                                               *)
LEMMA SeqElement ==
  ASSUME NEW S, NEW s \in Seq(S), NEW i \in 1..Len(s)
  PROVE  s[i] \in S
  OBVIOUS

Inv == PodsInv /\ StreamersInv

LEMMA InvInit == Init => Inv
PROOF
  <1> SUFFICES ASSUME Init PROVE Inv
    OBVIOUS
  <1>1. /\ phase = [p \in Pods |-> IF p \in Existing THEN "live" ELSE "absent"]
        /\ made = [c \in Containers |-> 0] /\ events = <<>>
        /\ podStream = [p \in Pods |-> "none"]
        /\ stream = [c \in Containers |-> NoStream] /\ written = [c \in Containers |-> <<>>]
    BY DEF Init
  <1>2. Len(events) = 0
    BY <1>1
  <1>3. PodsInv
    BY <1>1, <1>2, PodLogsAssumption DEF PodsInv, NoStream
  <1>4. ASSUME NEW c \in Containers PROVE Follows(stream[c], written[c])
    BY <1>1 DEF Follows, Streamers, NoStream, Gapless
  <1> QED BY <1>3, <1>4 DEF Inv, StreamersInv

(* What the invariant says of the streamers does not depend on the rest.    *)
LEMMA StreamersRest == StreamersInv /\ UNCHANGED <<stream, written>> => StreamersInv'
  BY DEF StreamersInv

LEMMA PodsRest ==
  PodsInv /\ UNCHANGED <<phase, podStream, made, stream, written, events>>
    /\ (main' \in {"config", "list"} => main \in {"config", "list"})
  => PodsInv'
  BY DEF PodsInv

(* What happens to a pod is told once it can no longer be listed; that it   *)
(* was created is told once.                                                *)
LEMMA PodNotified ==
  ASSUME PodsInv, NEW p \in Pods, NEW type \in {"Added", "Modified", "Deleted"}, Notify(type, p),
         type = "Added" => phase[p] = "absent",
         type # "Added" => phase[p] # "absent",
         phase' \in [Pods -> {"absent", "live", "finished", "deleted"}],
         \A q \in Pods : phase'[q] = "absent" <=> phase[q] = "absent" /\ q # p,
         UNCHANGED <<podStream, made, stream, written, main>>
  PROVE  PodsInv'
PROOF
  <1>1. events \in Seq([type : {"Added", "Modified", "Deleted"}, pod : Pods]) /\ Len(events) \in Nat
    BY DEF PodsInv
  <1>2. CASE events' = events
    <2>1. \A q \in Pods : phase'[q] = "absent" => phase[q] = "absent"
      OBVIOUS
    <2> QED BY <1>2, <2>1 DEF PodsInv
  <1>3. CASE events' = Append(events, [type |-> type, pod |-> p]) /\ main \notin {"config", "list"}
    <2> DEFINE e == [type |-> type, pod |-> p]
    <2>1. /\ events' \in Seq([type : {"Added", "Modified", "Deleted"}, pod : Pods])
          /\ Len(events') = Len(events) + 1 /\ events'[Len(events) + 1] = e
          /\ \A i \in 1..Len(events) : events'[i] = events[i]
      BY <1>1, <1>3
    <2>2. ASSUME NEW q \in Pods, phase'[q] = "absent"
          PROVE  podStream'[q] = "none" /\ \A i \in 1..Len(events') : events'[i].pod # q
      <3>1. phase[q] = "absent" /\ q # p
        BY <2>2
      <3>2. podStream[q] = "none" /\ \A i \in 1..Len(events) : events[i].pod # q
        BY <3>1 DEF PodsInv
      <3>3. \A i \in 1..Len(events') : i \in 1..Len(events) \/ i = Len(events) + 1
        BY <1>1, <2>1
      <3> QED BY <2>1, <3>1, <3>2, <3>3
    <2>3. ASSUME NEW i \in 1..Len(events'), events'[i].type = "Added"
          PROVE  /\ podStream'[events'[i].pod] = "none"
                 /\ \A j \in 1..Len(events') :
                      events'[j].type = "Added" /\ events'[j].pod = events'[i].pod => i = j
      <3>1. \A k \in 1..Len(events') : k \in 1..Len(events) \/ k = Len(events) + 1
        BY <1>1, <2>1
      <3>2. type = "Added" => podStream[p] = "none" /\ \A k \in 1..Len(events) : events[k].pod # p
        BY DEF PodsInv
      <3>3. CASE i \in 1..Len(events)
        <4>1. /\ podStream[events[i].pod] = "none"
              /\ \A j \in 1..Len(events) : events[j].type = "Added" /\ events[j].pod = events[i].pod => i = j
          BY <2>1, <2>3, <3>3 DEF PodsInv
        <4> QED BY <2>1, <3>1, <3>2, <3>3, <4>1
      <3>4. CASE i = Len(events) + 1
        BY <2>1, <2>3, <3>1, <3>2, <3>4
      <3> QED BY <3>1, <3>3, <3>4
    <2> QED BY <1>3, <2>1, <2>2, <2>3 DEF PodsInv
  <1> QED BY <1>2, <1>3 DEF Notify

LEMMA ClusterKeeps ==
  ASSUME Inv, Cluster
  PROVE  Inv'
PROOF
  <1>0. UNCHANGED <<stream, written, podStream, main>> /\ PodsInv /\ StreamersInv
    BY DEF Inv, Cluster, PodIsCreated, PodFinishes, PodIsDeleted, ContainerStarts, ContainerWrites, ContainerExits,
           ClusterOnly, mainVars
  <1>1. ASSUME NEW p \in Pods, PodIsCreated(p) PROVE PodsInv'
    <2>1. /\ phase[p] = "absent" /\ phase' = [phase EXCEPT ![p] = "live"] /\ Notify("Added", p) /\ made' = made
      BY <1>1 DEF PodIsCreated
    <2>2. /\ phase' \in [Pods -> {"absent", "live", "finished", "deleted"}]
          /\ \A q \in Pods : phase'[q] = "absent" <=> phase[q] = "absent" /\ q # p
      BY <1>0, <2>1 DEF PodsInv
    <2> QED BY <1>0, <2>1, <2>2, PodNotified
  <1>2. ASSUME NEW p \in Pods, PodFinishes(p) PROVE PodsInv'
    <2>1. /\ phase[p] = "live" /\ phase' = [phase EXCEPT ![p] = "finished"] /\ Notify("Modified", p) /\ made' = made
      BY <1>2 DEF PodFinishes
    <2>2. /\ phase' \in [Pods -> {"absent", "live", "finished", "deleted"}]
          /\ \A q \in Pods : phase'[q] = "absent" <=> phase[q] = "absent" /\ q # p
      BY <1>0, <2>1 DEF PodsInv
    <2> QED BY <1>0, <2>1, <2>2, PodNotified
  <1>3. ASSUME NEW p \in Pods, PodIsDeleted(p) PROVE PodsInv'
    <2>1. /\ phase[p] \in {"live", "finished"} /\ phase' = [phase EXCEPT ![p] = "deleted"]
          /\ Notify("Deleted", p) /\ made' = made
      BY <1>3 DEF PodIsDeleted
    <2>2. /\ phase' \in [Pods -> {"absent", "live", "finished", "deleted"}]
          /\ \A q \in Pods : phase'[q] = "absent" <=> phase[q] = "absent" /\ q # p
      BY <1>0, <2>1 DEF PodsInv
    <2> QED BY <1>0, <2>1, <2>2, PodNotified
  <1>4. ASSUME NEW c \in Containers, ContainerStarts(c) \/ ContainerWrites(c) \/ ContainerExits(c)
        PROVE  PodsInv'
    <2>1. made' \in [Containers -> Nat] /\ UNCHANGED <<phase, events>>
      BY <1>0, <1>4 DEF PodsInv, ContainerStarts, ContainerWrites, ContainerExits
    <2> QED BY <1>0, <2>1 DEF PodsInv
  <1>5. PodsInv'
    BY <1>1, <1>2, <1>3, <1>4 DEF Cluster
  <1> QED BY <1>0, <1>5, StreamersRest DEF Inv

(* Pods that were not streamed before get their streamers.                  *)
LEMMA AddKeeps ==
  ASSUME Inv, NEW ps \in SUBSET Pods, Add(ps), UNCHANGED <<phase, made, written>>,
         \A p \in ps : podStream[p] = "none" /\ phase[p] # "absent",
         events' \in Seq([type : {"Added", "Modified", "Deleted"}, pod : Pods]),
         main' \notin {"config", "list"},
         \A q \in Pods : (\A i \in 1..Len(events) : events[i].pod # q) => \A i \in 1..Len(events') : events'[i].pod # q,
         \A i \in 1..Len(events') : events'[i].type = "Added" =>
           /\ podStream[events'[i].pod] = "none" /\ events'[i].pod \notin ps
           /\ \A j \in 1..Len(events') : events'[j].type = "Added" /\ events'[j].pod = events'[i].pod => i = j
  PROVE  Inv'
PROOF
  <1> DEFINE new == ps \ known
             from(c) == IF opts.startTime THEN 0 ELSE made[c]
  <1>0. PodsInv /\ StreamersInv
    BY DEF Inv
  <1>1. /\ podStream' = [p \in Pods |-> IF p \in new THEN "running" ELSE podStream[p]]
        /\ stream' = [c \in Containers |-> IF PodOf[c] \in new
                        THEN [NoStream EXCEPT !.at = "opening", !.from = from(c)] ELSE stream[c]]
    BY DEF Add
  <1>2. ASSUME NEW c \in Containers
        PROVE  /\ Follows(stream'[c], written'[c])
               /\ podStream'[PodOf[c]] = "none" => stream'[c].at = "none" /\ written'[c] = <<>>
    <2>1. PodOf[c] \in Pods /\ from(c) \in Nat
      BY <1>0, PodLogsAssumption DEF PodsInv
    <2>2. CASE PodOf[c] \in new
      <3>1. stream'[c] = [at |-> "opening", from |-> from(c), read |-> 0, stop |-> FALSE, end |-> "none"]
        BY <1>1, <2>2 DEF NoStream
      <3>2. written[c] = <<>> /\ podStream'[PodOf[c]] = "running"
        BY <1>0, <1>1, <2>1, <2>2 DEF PodsInv
      <3>3. stream'[c] \in Streamers
        BY <2>1, <3>1 DEF Streamers
      <3>4. Follows(stream'[c], written[c])
        BY <3>1, <3>2, <3>3 DEF Follows, Gapless
      <3> QED BY <3>2, <3>4
    <2>3. CASE PodOf[c] \notin new
      <3>1. stream'[c] = stream[c] /\ podStream'[PodOf[c]] = podStream[PodOf[c]]
        BY <1>1, <2>1, <2>3
      <3> QED BY <1>0, <3>1 DEF StreamersInv, PodsInv
    <2> QED BY <2>2, <2>3
  <1>3. /\ podStream' \in [Pods -> {"none", "running", "returned"}]
        /\ \A p \in Pods : p \notin ps => podStream'[p] = podStream[p]
    BY <1>0, <1>1 DEF PodsInv
  <1>4. stream' = [c \in Containers |-> stream'[c]]
    BY <1>1
  <1>5. ASSUME NEW p \in Pods, phase[p] = "absent"
        PROVE  podStream'[p] = "none" /\ \A i \in 1..Len(events') : events'[i].pod # p
    BY <1>0, <1>3, <1>5 DEF PodsInv
  <1>6. ASSUME NEW i \in 1..Len(events') PROVE events'[i].pod \in Pods
    <2>1. events'[i] \in [type : {"Added", "Modified", "Deleted"}, pod : Pods]
      BY SeqElement
    <2> QED BY <2>1
  <1>7. PodsInv'
    BY <1>0, <1>2, <1>3, <1>4, <1>5, <1>6 DEF PodsInv
  <1>8. StreamersInv'
    BY <1>2 DEF StreamersInv
  <1> QED BY <1>7, <1>8 DEF Inv

LEMMA MainKeeps ==
  ASSUME Inv, MainStep
  PROVE  Inv'
PROOF
  <1>0. PodsInv /\ StreamersInv
    BY DEF Inv
  <1>1. CASE ListsPods /\ Add({p \in Pods : phase[p] \in {"live", "finished"} /\ opts.pod \in {AnyPod, p}})
    <2> DEFINE ps == {p \in Pods : phase[p] \in {"live", "finished"} /\ opts.pod \in {AnyPod, p}}
    <2>1. main = "list" /\ main' \in {"watch", "returned"} /\ UNCHANGED <<phase, made, events, written>>
      BY <1>1 DEF ListsPods, StreamReturns, clusterVars
    <2>2. events = <<>> /\ Len(events) = 0 /\ (\A p \in Pods : podStream[p] = "none")
          /\ events \in Seq([type : {"Added", "Modified", "Deleted"}, pod : Pods])
      BY <1>0, <2>1 DEF PodsInv
    <2>3. ps \in SUBSET Pods /\ \A p \in ps : podStream[p] = "none" /\ phase[p] # "absent"
      BY <2>2
    <2> HIDE DEF ps
    <2>4. Add(ps)
      BY <1>1 DEF ps
    <2> QED BY <2>1, <2>2, <2>3, <2>4, AddKeeps
  <1>2. CASE MakesClient \/ (ListsPods /\ StreamReturns /\ UNCHANGED <<known, podStream, stream>>)
             \/ OpensWatch \/ Waits \/ Wakes
    <2>1. UNCHANGED <<phase, podStream, made, stream, written, events>>
          /\ (main' \in {"config", "list"} => main \in {"config", "list"})
      BY <1>2 DEF MakesClient, ListsPods, StreamReturns, OpensWatch, Waits, Wakes, clusterVars
    <2> QED BY <1>0, <2>1, PodsRest, StreamersRest DEF Inv
  <1> QED BY <1>1, <1>2 DEF MainStep, ListsPods

(* The event loop: a pod whose creation it is told of was never streamed.   *)
LEMMA WatchEventKeeps ==
  ASSUME Inv, WatchEvent
  PROVE  Inv'
PROOF
  <1> DEFINE Event == [type : {"Added", "Modified", "Deleted"}, pod : Pods]
             e == Head(events)
  <1>0. PodsInv /\ StreamersInv /\ events \in Seq(Event) /\ events # <<>> /\ events' = Tail(events)
        /\ UNCHANGED <<phase, made, main, written>>
    BY DEF Inv, PodsInv, WatchEvent
  <1>1. /\ events' \in Seq(Event) /\ Len(events) \in Nat /\ Len(events') = Len(events) - 1 /\ 1 \in 1..Len(events)
        /\ e = events[1]
        /\ \A i \in 1..Len(events') : events'[i] = events[i + 1] /\ i + 1 \in 1..Len(events)
    BY <1>0
  <1>2. main \notin {"config", "list"}
    BY <1>0 DEF PodsInv
  <1>3. e \in Event
    <2> HIDE DEF Event, e
    <2>1. events[1] \in Event
      BY <1>0, <1>1, SeqElement, Zenon
    <2> QED BY <1>1, <2>1
  <1>4. \A q \in Pods : (\A i \in 1..Len(events) : events[i].pod # q) => \A i \in 1..Len(events') : events'[i].pod # q
    BY <1>1
  <1>5. ASSUME NEW i \in 1..Len(events'), events'[i].type = "Added"
        PROVE  /\ podStream[events'[i].pod] = "none"
               /\ e.type = "Added" => events'[i].pod # e.pod
               /\ \A j \in 1..Len(events') : events'[j].type = "Added" /\ events'[j].pod = events'[i].pod => i = j
    <2>1. i + 1 \in 1..Len(events) /\ events'[i] = events[i + 1] /\ events[i + 1].type = "Added"
      BY <1>1, <1>5
    <2>2. /\ podStream[events[i + 1].pod] = "none"
          /\ \A j \in 1..Len(events) : events[j].type = "Added" /\ events[j].pod = events[i + 1].pod => i + 1 = j
      BY <1>0, <2>1 DEF PodsInv
    <2>3. e.type = "Added" => events[i + 1].pod # e.pod
      BY <1>1, <2>2
    <2>4. ASSUME NEW j \in 1..Len(events'), events'[j].type = "Added", events'[j].pod = events'[i].pod
          PROVE  i = j
      <3>1. i + 1 = j + 1
        BY <1>1, <2>1, <2>2, <2>4
      <3> QED BY <3>1
    <2> QED BY <2>1, <2>2, <2>3, <2>4
  <1>6. CASE e.type = "Added"
    <2>1. Add({e.pod}) /\ {e.pod} \in SUBSET Pods
      BY <1>3, <1>6 DEF WatchEvent
    <2>2. podStream[e.pod] = "none" /\ phase[e.pod] # "absent"
      BY <1>0, <1>1, <1>3, <1>6 DEF PodsInv
    <2> QED BY <1>0, <1>1, <1>2, <1>4, <1>5, <1>6, <2>1, <2>2, AddKeeps
  <1>7. CASE e.type # "Added"
    <2>1. UNCHANGED <<podStream, stream>>
      BY <1>7 DEF WatchEvent
    <2>2. \A p \in Pods : phase[p] = "absent" => \A i \in 1..Len(events') : events'[i].pod # p
      BY <1>0, <1>4 DEF PodsInv
    <2>3. PodsInv'
      BY <1>0, <1>1, <1>2, <1>5, <2>1, <2>2 DEF PodsInv
    <2> QED BY <1>0, <2>1, <2>3, StreamersRest DEF Inv
  <1> QED BY <1>6, <1>7

LEMMA PodStepKeeps ==
  ASSUME Inv, NEW p \in Pods, PodStopSeen(p) \/ PodReturns(p)
  PROVE  Inv'
PROOF
  <1>0. PodsInv /\ StreamersInv
    BY DEF Inv
  <1>1. CASE PodStopSeen(p)
    <2>1. /\ podStream[p] # "none" /\ UNCHANGED <<phase, made, events, main, podStream, written>>
          /\ stream' = [c \in Containers |-> IF PodOf[c] = p THEN [stream[c] EXCEPT !.stop = TRUE] ELSE stream[c]]
      BY <1>1 DEF PodStopSeen, clusterVars, mainVars
    <2>2. ASSUME NEW c \in Containers
          PROVE  Follows(stream'[c], written[c]) /\ stream'[c].at = stream[c].at
      <3>1. Follows(stream[c], written[c]) /\ stream[c] \in Streamers
        BY <1>0 DEF StreamersInv, Follows
      <3>2. CASE PodOf[c] = p
        <4> DEFINE t == [stream[c] EXCEPT !.stop = TRUE]
        <4>1. /\ t \in Streamers /\ t.from = stream[c].from /\ t.at = stream[c].at /\ t.read = stream[c].read
              /\ t.end = stream[c].end
          BY <3>1 DEF Streamers
        <4>2. Follows(t, written[c])
          BY <3>1, <4>1, NoLine
        <4> QED BY <2>1, <3>2, <4>1, <4>2
      <3>3. CASE PodOf[c] # p
        BY <2>1, <3>1, <3>3
      <3> QED BY <3>2, <3>3
    <2>3. StreamersInv'
      BY <2>1, <2>2 DEF StreamersInv
    <2>4. PodsInv'
      BY <1>0, <2>1, <2>2 DEF PodsInv
    <2> QED BY <2>3, <2>4 DEF Inv
  <1>2. CASE PodReturns(p)
    <2>1. /\ podStream[p] = "running" /\ podStream' = [podStream EXCEPT ![p] = "returned"]
          /\ UNCHANGED <<phase, made, events, stream, written>>
          /\ (main' \in {"config", "list"} => main \in {"config", "list"})
      BY <1>2 DEF PodReturns, clusterVars
    <2>2. podStream' \in [Pods -> {"none", "running", "returned"}]
          /\ \A q \in Pods : podStream'[q] = "none" <=> podStream[q] = "none"
      BY <1>0, <2>1 DEF PodsInv
    <2>3. main' \notin {"config", "list"}
      BY <1>0, <2>1 DEF PodsInv
    <2>4. \A c \in Containers : PodOf[c] \in Pods
      BY PodLogsAssumption
    <2>5. ASSUME NEW i \in 1..Len(events) PROVE events[i].pod \in Pods
      <3>1. events[i] \in [type : {"Added", "Modified", "Deleted"}, pod : Pods]
        BY <1>0, SeqElement DEF PodsInv
      <3> QED BY <3>1
    <2>6. PodsInv'
      BY <1>0, <2>1, <2>2, <2>3, <2>4, <2>5 DEF PodsInv
    <2> QED BY <1>0, <2>1, <2>6, StreamersRest DEF Inv
  <1> QED BY <1>1, <1>2

LEMMA ContainerStepKeeps ==
  ASSUME Inv, NEW c \in Containers, StreamStep(c) \/ FlushStep(c) \/ ReadBreaks(c) \/ FlushBreaks(c)
  PROVE  Inv'
PROOF
  <1>0. PodsInv /\ StreamersInv
    BY DEF Inv
  <1>1. Opens(c) \/ ReadsLine(c) \/ ReadEnds(c) \/ ReadBreaks(c) \/ FlushOpens(c) \/ FlushGivesUp(c)
          \/ FlushWrites(c) \/ FlushReachesEnd(c) \/ FlushBreaks(c)
    BY DEF StreamStep, FlushStep
  <1>2. /\ StreamersInv' /\ stream[c].at # "none"
        /\ \A d \in Containers \ {c} : stream'[d] = stream[d] /\ written'[d] = written[d]
        /\ stream' = [d \in Containers |-> stream'[d]] /\ written' = [d \in Containers |-> written'[d]]
    BY <1>0, <1>1, StreamersStep
  <1>3. UNCHANGED <<phase, made, events, main, podStream>>
    BY <1>1 DEF Opens, ReadsLine, ReadEnds, ReadBreaks, FlushOpens, FlushGivesUp, FlushWrites, FlushReachesEnd,
                FlushBreaks, Ends, Becomes, StreamerOnly, clusterVars, mainVars
  <1>4. podStream[PodOf[c]] # "none"
    BY <1>0, <1>2 DEF PodsInv
  <1>5. PodsInv'
    BY <1>0, <1>2, <1>3, <1>4 DEF PodsInv
  <1> QED BY <1>2, <1>5 DEF Inv

LEMMA InvNext == Inv /\ [Next]_vars => Inv'
PROOF
  <1> SUFFICES ASSUME Inv, [Next]_vars PROVE Inv'
    OBVIOUS
  <1>1. CASE UNCHANGED vars \/ ContextIsCancelled \/ WatchEnds
    <2>1. UNCHANGED <<phase, podStream, made, stream, written, events, main>>
      BY <1>1 DEF vars, ContextIsCancelled, WatchEnds, clusterVars, mainVars
    <2> QED BY <2>1, PodsRest, StreamersRest DEF Inv
  <1>2. CASE Cluster
    BY <1>2, ClusterKeeps
  <1>3. CASE MainStep
    BY <1>3, MainKeeps
  <1>4. CASE WatchStep
    BY <1>1, <1>4, WatchEventKeeps DEF WatchStep
  <1>5. CASE \E p \in Pods : PodStep(p)
    BY <1>5, PodStepKeeps DEF PodStep
  <1>6. CASE \E c \in Containers : StreamStep(c) \/ FlushStep(c) \/ (Alive /\ (ReadBreaks(c) \/ FlushBreaks(c)))
    BY <1>6, ContainerStepKeeps
  <1> QED BY <1>1, <1>2, <1>3, <1>4, <1>5, <1>6 DEF Next

(* No line of a container is left out before one that is written, for every *)
(* number of pods, containers and lines: whatever stops, breaks or times    *)
(* out, the first stream is written without a gap and so is the flush,      *)
(* which starts over.                                                       *)
THEOREM LinesNeverSkipped == Spec => []LinesWithoutGap
PROOF
  <1>1. Inv => LinesWithoutGap
    BY DEF Inv, StreamersInv, Follows, Gapless, LinesWithoutGap
  <1> QED BY <1>1, InvInit, InvNext, PTL DEF Spec

-----------------------------------------------------------------------------
(* The flush of a stream that ended.                                       *)

(* The lines w of a streamer s are the first m of the log and then those    *)
(* that the flush wrote, once more from the first.                          *)
Runs(s, w, m, flush) ==
  /\ \A i \in 1..Len(w) : (i <= m => w[i] = s.from + i) /\ (i > m => w[i] = s.from + (i - m))
  /\ s.at \notin {"flushing", "ended"} => m = Len(w)
  /\ s.at = "reading" => s.read = s.from + Len(w)
  /\ s.at = "flushing" \/ s.end \in {"timeout", "late"} => s.read = s.from + (Len(w) - m)
  /\ ~flush => m = Len(w) /\ s.at # "flushing" /\ s.end \notin {"timeout", "late"}

(* Once the second stream has been read to the end of the log the container *)
(* is over, and writes no more.                                             *)
Tail2(c, m) ==
  /\ m \in 0..Len(written[c])
  /\ Runs(stream[c], written[c], m, opts.flush)
  /\ opts.follow /\ stream[c].end = "eof" =>
       container[c] = "exited" /\ Len(written[c]) - m = made[c] - stream[c].from

TailOf(c) == \E m : Tail2(c, m)

TailInv == container = [c \in Containers |-> container[c]] /\ \A c \in Containers : TailOf(c)

(* The next line is that of the first stream, or that of the second.        *)
LEMMA FirstRuns ==
  ASSUME NEW s \in Streamers, NEW w \in Seq(Nat), NEW m \in 0..Len(w), NEW flush, Runs(s, w, m, flush),
         NEW t \in Streamers, s.at = "reading", t.from = s.from, t.at \in {"reading", "flush"}, t.end = "none",
         t.read = s.read + 1
  PROVE  Runs(t, Append(w, s.read + 1), m + 1, flush) /\ m + 1 \in 0..Len(Append(w, s.read + 1))
PROOF
  <1> DEFINE v == Append(w, s.read + 1)
  <1>1. s.read \in Nat /\ s.from \in Nat /\ Len(w) \in Nat /\ m = Len(w) /\ s.read = s.from + Len(w)
    BY DEF Runs, Streamers
  <1>2. /\ Len(v) = Len(w) + 1 /\ v[Len(w) + 1] = s.from + (m + 1)
        /\ \A i \in 1..Len(w) : v[i] = w[i]
    BY <1>1
  <1>3. \A i \in 1..Len(v) : (i <= m + 1 => v[i] = s.from + i) /\ (i > m + 1 => v[i] = s.from + (i - (m + 1)))
    BY <1>1, <1>2 DEF Runs
  <1> QED BY <1>1, <1>2, <1>3 DEF Runs

LEMMA SecondRuns ==
  ASSUME NEW s \in Streamers, NEW w \in Seq(Nat), NEW m \in 0..Len(w), NEW flush, Runs(s, w, m, flush),
         NEW t \in Streamers, s.at = "flushing" \/ s.end \in {"timeout", "late"},
         t.from = s.from, t.at \in {"flushing", "ended"}, t.read = s.read + 1
  PROVE  Runs(t, Append(w, s.read + 1), m, flush) /\ m \in 0..Len(Append(w, s.read + 1))
PROOF
  <1> DEFINE v == Append(w, s.read + 1)
  <1>1. s.read \in Nat /\ s.from \in Nat /\ Len(w) \in Nat /\ s.read = s.from + (Len(w) - m)
    BY DEF Runs, Streamers
  <1>2. /\ Len(v) = Len(w) + 1 /\ v[Len(w) + 1] = s.from + (Len(w) + 1 - m)
        /\ \A i \in 1..Len(w) : v[i] = w[i]
    BY <1>1
  <1>3. \A i \in 1..Len(v) : (i <= m => v[i] = s.from + i) /\ (i > m => v[i] = s.from + (i - m))
    BY <1>1, <1>2 DEF Runs
  <1>4. t.read = s.from + (Len(v) - m)
    BY <1>1, <1>2
  <1>5. ~flush => m = Len(v) /\ t.at # "flushing" /\ t.end \notin {"timeout", "late"}
    <2> SUFFICES ASSUME ~flush PROVE FALSE
      OBVIOUS
    <2> QED BY DEF Runs
  <1>6. m \in 0..Len(v)
    BY <1>1, <1>2
  <1>7. t.at # "reading" /\ (t.at \notin {"flushing", "ended"} => m = Len(v))
    OBVIOUS
  <1>8. \A i \in 1..Len(v) : (i <= m => v[i] = t.from + i) /\ (i > m => v[i] = t.from + (i - m))
    BY <1>3
  <1>9. t.read = t.from + (Len(v) - m)
    BY <1>4
  <1> HIDE DEF v
  <1>10. Runs(t, v, m, flush)
    BY <1>5, <1>7, <1>8, <1>9, Zenon DEF Runs
  <1> QED BY <1>6, <1>10 DEF v

(* No line is written.                                                      *)
LEMMA KeepsRuns ==
  ASSUME NEW s \in Streamers, NEW w \in Seq(Nat), NEW m \in 0..Len(w), NEW flush, Runs(s, w, m, flush),
         NEW t \in Streamers, t.from = s.from,
         \/ s.at = "opening" /\ w = <<>> /\ t.at = "reading" /\ t.read = s.from /\ t.end = "none"
         \/ s.at \in {"opening", "reading"} /\ t.at = "flush" /\ t.end = "none"
         \/ s.at = "flush" /\ flush /\ t.at = "flushing" /\ t.read = s.from /\ t.end = "none"
         \/ t.at = "ended" /\ t.end \in {"eof", "unopened", "unflushed", "broken"}
         \/ s.at = "flushing" /\ t.at = "ended" /\ t.read = s.read /\ t.end = "timeout"
  PROVE  Runs(t, w, m, flush)
PROOF
  <1>1. s.from \in Nat /\ Len(w) \in Nat /\ (w = <<>> => Len(w) = 0)
    BY DEF Streamers
  <1> QED BY <1>1 DEF Runs

(* A container that exited stays so, and writes no more; the options last.  *)
LEMMA ExitedForEver ==
  ASSUME PodsInv, TailInv, [Next]_vars
  PROVE  /\ opts' = opts
         /\ container' = [c \in Containers |-> container'[c]]
         /\ \A c \in Containers : container[c] = "exited" => container'[c] = "exited" /\ made'[c] = made[c]
PROOF
  <1>1. CASE Cluster
    BY <1>1 DEF PodsInv, TailInv, Cluster, PodIsCreated, PodFinishes, PodIsDeleted, ContainerStarts, ContainerWrites,
                ContainerExits, ClusterOnly
  <1>2. CASE ~Cluster
    <2>1. UNCHANGED <<opts, container, made>>
      BY <1>2
      DEF Next, vars, MainStep, MakesClient, ListsPods, StreamReturns, OpensWatch, Waits, Wakes, WatchStep, WatchEvent,
          WatchEnds, ContextIsCancelled, PodStep, PodStopSeen, PodReturns, StreamStep, FlushStep, Opens, ReadsLine,
          ReadEnds, ReadBreaks, FlushOpens, FlushGivesUp, FlushWrites, FlushReachesEnd, FlushBreaks, Ends, Becomes,
          StreamerOnly, clusterVars
    <2> QED BY <2>1 DEF TailInv
  <1> QED BY <1>1, <1>2

(* The goroutine of container c.                                            *)
LEMMA TailStep ==
  ASSUME Inv, TailInv, NEW c \in Containers,
         Opens(c) \/ ReadsLine(c) \/ ReadEnds(c) \/ ReadBreaks(c) \/ FlushOpens(c) \/ FlushGivesUp(c)
           \/ FlushWrites(c) \/ FlushReachesEnd(c) \/ FlushBreaks(c)
  PROVE  TailOf(c)'
PROOF
  <1> DEFINE s == stream[c]
             w == written[c]
  <1>1. /\ s \in Streamers /\ s.read \in Nat /\ s.from \in Nat /\ w \in Seq(Nat)
        /\ s.end # "none" => s.at = "ended"
        /\ s.at = "opening" => w = <<>>
        /\ made[c] \in Nat /\ Len(w) \in Nat
        /\ c \in DOMAIN stream /\ c \in DOMAIN written
    BY DEF Inv, StreamersInv, PodsInv, Follows, Streamers, TailInv
  <1>2. UNCHANGED <<opts, container, made>>
    BY DEF Opens, ReadsLine, ReadEnds, ReadBreaks, FlushOpens, FlushGivesUp, FlushWrites, FlushReachesEnd,
           FlushBreaks, Ends, Becomes, StreamerOnly, clusterVars
  <1>3. PICK m : Tail2(c, m)
    BY DEF TailInv, TailOf
  <1>4. m \in 0..Len(w) /\ Runs(s, w, m, opts.flush)
    BY <1>3 DEF Tail2
  <1>5. ASSUME NEW t \in Streamers, Becomes(c, t, 0), t.from = s.from, Runs(t, w, m, opts.flush),
               opts.follow /\ t.end = "eof" => container[c] = "exited" /\ Len(w) - m = made[c] - s.from
        PROVE  TailOf(c)'
    <2>1. written'[c] = w /\ stream'[c] = t
      BY <1>1, <1>5 DEF Becomes
    <2>2. Tail2(c, m)'
      BY <1>2, <1>4, <1>5, <2>1 DEF Tail2
    <2> QED BY <2>2 DEF TailOf
  <1>6. ASSUME NEW t \in Streamers, Becomes(c, t, s.read + 1), t.end # "eof", NEW k,
               Runs(t, Append(w, s.read + 1), k, opts.flush), k \in 0..Len(Append(w, s.read + 1))
        PROVE  TailOf(c)'
    <2>1. s.read + 1 # 0
      BY <1>1
    <2>2. written'[c] = Append(w, s.read + 1) /\ stream'[c] = t
      BY <1>1, <1>6, <2>1 DEF Becomes
    <2>3. Tail2(c, k)'
      BY <1>2, <1>6, <2>2 DEF Tail2
    <2> QED BY <2>3 DEF TailOf
  <1>7. ASSUME NEW how \in {"unflushed", "broken"}, Ends(c, how)
        PROVE  TailOf(c)'
    <2> DEFINE t == [s EXCEPT !.at = "ended", !.end = how, !.stop = TRUE]
    <2>1. t \in Streamers /\ t.from = s.from /\ t.end = how /\ t.at = "ended"
      BY <1>1 DEF Streamers
    <2>2. Runs(t, w, m, opts.flush)
      BY <1>1, <1>4, <2>1, KeepsRuns
    <2>3. Becomes(c, t, 0)
      BY <1>7 DEF Ends
    <2> QED BY <1>5, <2>1, <2>2, <2>3
  <1>8. CASE Opens(c)
    <2>1. s.at = "opening" /\ s.end = "none"
      BY <1>1, <1>8 DEF Opens
    <2>2. CASE Becomes(c, [s EXCEPT !.at = IF s.stop THEN "flush" ELSE "reading", !.read = s.from], 0)
      <3> DEFINE t == [s EXCEPT !.at = IF s.stop THEN "flush" ELSE "reading", !.read = s.from]
      <3>1. t \in Streamers /\ t.from = s.from /\ t.read = s.from /\ t.end = "none" /\ t.at \in {"flush", "reading"}
        BY <1>1, <2>1 DEF Streamers
      <3>2. Runs(t, w, m, opts.flush)
        BY <1>1, <1>4, <2>1, <3>1, KeepsRuns
      <3> QED BY <1>5, <2>2, <3>1, <3>2
    <2>3. CASE Becomes(c, [s EXCEPT !.at = "ended", !.end = "unopened"], 0)
      <3> DEFINE t == [s EXCEPT !.at = "ended", !.end = "unopened"]
      <3>1. t \in Streamers /\ t.from = s.from /\ t.end = "unopened" /\ t.at = "ended"
        BY <1>1 DEF Streamers
      <3>2. Runs(t, w, m, opts.flush)
        BY <1>1, <1>4, <3>1, KeepsRuns
      <3> QED BY <1>5, <2>3, <3>1, <3>2
    <2> QED BY <1>8, <2>2, <2>3 DEF Opens
  <1>9. CASE ReadsLine(c)
    <2> DEFINE t == [s EXCEPT !.at = IF s.stop THEN "flush" ELSE "reading", !.read = s.read + 1]
    <2>0. s.at = "reading" /\ Becomes(c, t, s.read + 1)
      BY <1>9 DEF ReadsLine
    <2>1. s.end = "none"
      BY <1>1, <2>0
    <2>2. t \in Streamers /\ t.from = s.from /\ t.read = s.read + 1 /\ t.end = "none" /\ t.at \in {"flush", "reading"}
      BY <1>1, <2>1, MovesOn
    <2>3. Runs(t, Append(w, s.read + 1), m + 1, opts.flush) /\ m + 1 \in 0..Len(Append(w, s.read + 1))
      BY <1>1, <1>4, <2>0, <2>2, FirstRuns
    <2> QED BY <1>6, <2>0, <2>2, <2>3
  <1>10. CASE ReadEnds(c) \/ ReadBreaks(c)
    <2> DEFINE t == [s EXCEPT !.at = "flush"]
    <2>1. s.at = "reading" /\ s.end = "none" /\ Becomes(c, t, 0)
      BY <1>1, <1>10 DEF ReadEnds, ReadBreaks
    <2>2. t \in Streamers /\ t.from = s.from /\ t.end = "none" /\ t.at = "flush"
      BY <1>1, <2>1 DEF Streamers
    <2>3. Runs(t, w, m, opts.flush)
      BY <1>1, <1>4, <2>1, <2>2, KeepsRuns
    <2> QED BY <1>5, <2>1, <2>2, <2>3
  <1>11. CASE FlushOpens(c)
    <2>1. s.at = "flush" /\ s.end = "none"
      BY <1>1, <1>11 DEF FlushOpens
    <2>2. CASE opts.flush /\ Becomes(c, [s EXCEPT !.at = "flushing", !.read = s.from], 0)
      <3> DEFINE t == [s EXCEPT !.at = "flushing", !.read = s.from]
      <3>1. t \in Streamers /\ t.from = s.from /\ t.read = s.from /\ t.end = "none" /\ t.at = "flushing"
        BY <1>1, <2>1 DEF Streamers
      <3>2. Runs(t, w, m, opts.flush)
        BY <1>1, <1>4, <2>1, <2>2, <3>1, KeepsRuns
      <3> QED BY <1>5, <2>2, <3>1, <3>2
    <2>3. CASE Ends(c, "unflushed")
      BY <1>7, <2>3
    <2> QED BY <1>11, <2>2, <2>3 DEF FlushOpens
  <1>12. CASE FlushGivesUp(c)
    <2> DEFINE t == [s EXCEPT !.at = "ended", !.end = "timeout", !.stop = TRUE]
    <2>1. s.at = "flushing" /\ Becomes(c, t, 0)
      BY <1>12 DEF FlushGivesUp, Ends
    <2>2. t \in Streamers /\ t.from = s.from /\ t.read = s.read /\ t.end = "timeout" /\ t.at = "ended"
      BY <1>1 DEF Streamers
    <2>3. Runs(t, w, m, opts.flush)
      BY <1>1, <1>4, <2>1, <2>2, KeepsRuns
    <2> QED BY <1>5, <2>1, <2>2, <2>3
  <1>13. CASE FlushWrites(c)
    <2>1. CASE s.at = "flushing" /\ Becomes(c, [s EXCEPT !.read = s.read + 1], s.read + 1)
      <3> DEFINE t == [s EXCEPT !.read = s.read + 1]
      <3>1. s.end = "none"
        BY <1>1, <2>1
      <3>2. t \in Streamers /\ t.from = s.from /\ t.read = s.read + 1 /\ t.end = "none" /\ t.at = "flushing"
        BY <1>1, <2>1, <3>1 DEF Streamers
      <3>3. Runs(t, Append(w, s.read + 1), m, opts.flush) /\ m \in 0..Len(Append(w, s.read + 1))
        BY <1>1, <1>4, <2>1, <3>2, SecondRuns
      <3> QED BY <1>6, <2>1, <3>2, <3>3
    <2>2. CASE s.end \in {"timeout", "late"} /\ Becomes(c, [s EXCEPT !.read = s.read + 1, !.end = "late"], s.read + 1)
      <3>1. s.at = "ended"
        BY <1>1, <2>2
      <3> DEFINE t == [s EXCEPT !.read = s.read + 1, !.end = "late"]
      <3>2. /\ s.read + 1 \in Nat /\ "late" \in {"none", "eof", "unopened", "unflushed", "broken", "timeout", "late"}
        BY <1>1
      <3>3. t \in Streamers /\ t.from = s.from /\ t.read = s.read + 1 /\ t.end = "late" /\ t.at = "ended"
        BY <1>1, <3>1, <3>2 DEF Streamers
      <3>4. Runs(t, Append(w, s.read + 1), m, opts.flush) /\ m \in 0..Len(Append(w, s.read + 1))
        BY <1>1, <1>4, <2>2, <3>3, SecondRuns
      <3> QED BY <1>6, <2>2, <3>3, <3>4
    <2> QED BY <1>13, <2>1, <2>2 DEF FlushWrites
  <1>14. CASE FlushReachesEnd(c)
    <2> DEFINE t == [s EXCEPT !.at = "ended", !.end = "eof", !.stop = TRUE]
    <2>1. /\ s.at = "flushing" /\ s.read = made[c] /\ (container[c] = "exited" \/ ~opts.follow)
          /\ Becomes(c, t, 0)
      BY <1>14 DEF FlushReachesEnd, Ends
    <2>2. t \in Streamers /\ t.from = s.from /\ t.end = "eof" /\ t.at = "ended"
      BY <1>1 DEF Streamers
    <2>3. Runs(t, w, m, opts.flush)
      BY <1>1, <1>4, <2>2, KeepsRuns
    <2>4. s.read = s.from + (Len(w) - m)
      BY <1>4, <2>1 DEF Runs
    <2>5. Len(w) - m = made[c] - s.from
      BY <1>1, <1>4, <2>1, <2>4
    <2> QED BY <1>5, <2>1, <2>2, <2>3, <2>5
  <1>15. CASE FlushBreaks(c)
    BY <1>7, <1>15 DEF FlushBreaks
  <1> QED BY <1>8, <1>9, <1>10, <1>11, <1>12, <1>13, <1>14, <1>15

LEMMA TailInvNext == Inv /\ TailInv /\ [Next]_vars => TailInv'
PROOF
  <1> SUFFICES ASSUME Inv, TailInv, [Next]_vars PROVE TailInv'
    OBVIOUS
  <1>0. /\ opts' = opts
        /\ container' = [c \in Containers |-> container'[c]]
        /\ \A c \in Containers : container[c] = "exited" => container'[c] = "exited" /\ made'[c] = made[c]
    BY ExitedForEver DEF Inv
  <1>1. ASSUME NEW c \in Containers, written'[c] = written[c],
               \/ stream'[c].at = "opening" /\ stream'[c].end = "none" /\ written[c] = <<>>
               \/ UNCHANGED <<stream[c].at, stream[c].from, stream[c].read, stream[c].end>>
        PROVE  TailOf(c)'
    <2>1. PICK m : Tail2(c, m)
      BY DEF TailInv, TailOf
    <2>2. Tail2(c, m)'
      BY <1>0, <1>1, <2>1 DEF Tail2, Runs
    <2> QED BY <2>2 DEF TailOf
  <1>2. CASE UNCHANGED <<stream, written>>
    BY <1>0, <1>1, <1>2 DEF TailInv
  <1>3. ASSUME NEW c \in Containers, StreamStep(c) \/ FlushStep(c) \/ ReadBreaks(c) \/ FlushBreaks(c)
        PROVE  TailInv'
    <2>1. Opens(c) \/ ReadsLine(c) \/ ReadEnds(c) \/ ReadBreaks(c) \/ FlushOpens(c) \/ FlushGivesUp(c)
          \/ FlushWrites(c) \/ FlushReachesEnd(c) \/ FlushBreaks(c)
      BY <1>3 DEF StreamStep, FlushStep
    <2>2. TailOf(c)'
      BY <2>1, TailStep
    <2>3. \A d \in Containers \ {c} : stream'[d] = stream[d] /\ written'[d] = written[d]
      BY <2>1, StreamersStep DEF Inv
    <2> QED BY <1>0, <1>1, <2>2, <2>3 DEF TailInv
  <1>4. ASSUME NEW ps, Add(ps), written' = written
        PROVE  TailInv'
    <2>1. ASSUME NEW c \in Containers
          PROVE  \/ stream'[c] = stream[c]
                 \/ stream'[c].at = "opening" /\ stream'[c].end = "none" /\ written[c] = <<>>
      <3>1. stream'[c] = stream[c] \/ (stream'[c].at = "opening" /\ stream'[c].end = "none")
        BY <1>4 DEF Add, NoStream
      <3>2. stream'[c].at = "opening" => written'[c] = <<>>
        BY InvNext DEF Inv, StreamersInv, Follows
      <3> QED BY <1>4, <3>1, <3>2
    <2> QED BY <1>0, <1>1, <1>4, <2>1 DEF TailInv
  <1>5. ASSUME NEW p \in Pods, PodStopSeen(p)
        PROVE  TailInv'
    <2>1. ASSUME NEW c \in Containers
          PROVE  UNCHANGED <<stream[c].at, stream[c].from, stream[c].read, stream[c].end>>
      <3>1. stream[c] \in Streamers
        BY DEF Inv, StreamersInv, Follows
      <3> QED BY <1>5, <3>1 DEF PodStopSeen, Streamers
    <2>2. written' = written
      BY <1>5 DEF PodStopSeen
    <2> QED BY <1>0, <1>1, <2>1, <2>2 DEF TailInv
  <1>6. CASE Cluster \/ ContextIsCancelled \/ WatchEnds \/ UNCHANGED vars
    BY <1>2, <1>6 DEF Cluster, PodIsCreated, PodFinishes, PodIsDeleted, ContainerStarts, ContainerWrites, ContainerExits,
                      ClusterOnly, ContextIsCancelled, WatchEnds, vars
  <1>7. CASE MainStep
    BY <1>2, <1>4, <1>7 DEF MainStep, MakesClient, ListsPods, OpensWatch, Waits, Wakes
  <1>8. CASE WatchStep
    BY <1>2, <1>4, <1>6, <1>8 DEF WatchStep, WatchEvent
  <1>9. CASE \E p \in Pods : PodStep(p)
    BY <1>2, <1>5, <1>9 DEF PodStep, PodReturns
  <1> QED BY <1>3, <1>6, <1>7, <1>8, <1>9 DEF Next

(* A container's lines are those that the first stream delivered and then   *)
(* those of the flush, once more from the first line: at most twice each,   *)
(* once without a flush; and complete when the second stream lasts to the   *)
(* end of the log, wherever the first one stopped and whatever the other    *)
(* goroutines did meanwhile.  A second stream that breaks, or that flush    *)
(* gives up, may lose the tail.                                             *)
THEOREM TailAlwaysWritten == Spec => []TailWritten
PROOF
  <1>1. Init => TailInv
    <2> SUFFICES ASSUME Init PROVE TailInv
      OBVIOUS
    <2>1. ASSUME NEW c \in Containers PROVE Tail2(c, 0)
      BY DEF Init, Tail2, Runs, NoStream
    <2> QED BY <2>1 DEF Init, TailInv, TailOf
  <1>2. Inv /\ TailInv => TailWritten
    <2> SUFFICES ASSUME Inv, TailInv, NEW c \in Containers
                 PROVE  \E m \in 0..Len(written[c]) :
                          /\ \A i \in DOMAIN written[c] :
                               written[c][i] = stream[c].from + (IF i <= m THEN i ELSE i - m)
                          /\ ~opts.flush => m = Len(written[c])
                          /\ opts.follow /\ stream[c].end = "eof" => Len(written[c]) - m = made[c] - stream[c].from
      BY DEF TailWritten
    <2>1. PICK m : Tail2(c, m)
      BY DEF TailInv, TailOf
    <2>2. written[c] \in Seq(Nat) /\ DOMAIN written[c] = 1..Len(written[c])
      BY DEF Inv, StreamersInv, Follows
    <2>3. m \in Nat /\ m \in 0..Len(written[c])
      BY <2>1, <2>2 DEF Tail2
    <2>4. \A i \in DOMAIN written[c] : written[c][i] = stream[c].from + (IF i <= m THEN i ELSE i - m)
      BY <2>1, <2>2, <2>3 DEF Tail2, Runs
    <2> QED BY <2>1, <2>3, <2>4 DEF Tail2, Runs
  <1> QED BY <1>1, <1>2, InvInit, InvNext, TailInvNext, PTL DEF Spec
=============================================================================
