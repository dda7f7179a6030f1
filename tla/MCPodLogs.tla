----------------------------- MODULE MCPodLogs -----------------------------
EXTENDS PodLogs

CONSTANTS p1, p2, c1, c2

PodOfContainers == [c \in Containers |-> IF c = c2 THEN p2 ELSE p1]

Scenario(follow, flush, startTime, pod, come, first) ==
  [follow |-> follow, flush |-> flush, startTime |-> startTime, pod |-> pod, come |-> come,
   lines |-> [c \in Containers |-> IF c = c1 THEN first ELSE 0]]

SomeScenarios ==
  { Scenario(TRUE, TRUE, FALSE, AnyPod, {}, 3),         \* a pod that writes, followed and flushed
    Scenario(FALSE, TRUE, TRUE, p1, {}, 2),             \* read as far as it goes
    Scenario(TRUE, FALSE, TRUE, p1, {p2}, 0) }          \* pods that come and go
=============================================================================
