---------------------------- MODULE MCPolledLogs ----------------------------
EXTENDS PolledLogs, TLC

Interchangeable == Permutations(Groups) \cup Permutations(Tasks)

Request(watch, task, deployment, start, end) ==
  [watch |-> watch, task |-> task, deployment |-> deployment, start |-> start, end |-> end]

SomeRequests ==
  { Request(watch, {}, FALSE, NoTime, NoTime) : watch \in BOOLEAN }
    \cup { Request(TRUE, {}, FALSE, w[1], w[2]) : w \in {<<3, NoTime>>, <<NoTime, 3>>, <<2, 3>>} }
    \cup { Request(TRUE, ts, TRUE, NoTime, NoTime) : ts \in SUBSET Tasks }
    \cup { Request(TRUE, {t}, FALSE, NoTime, NoTime) : t \in Tasks }
=============================================================================
