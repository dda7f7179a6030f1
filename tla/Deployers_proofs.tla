--------------------------- MODULE Deployers_proofs ---------------------------
(* Theorems about Deployers: for any number of deploys, versions, files,    *)
(* failing calls, repeated runs and edits by others.                        *)
EXTENDS Deployers, WellFoundedInduction, TLAPS

-----------------------------------------------------------------------------
(* What a step of one deploy does to the variables of all.                 *)

Functional == pc = [d \in Deploys |-> pc[d]] /\ local = [d \in Deploys |-> local[d]]

(* Only deploy d moves, to the call "to", having read x.                    *)
Moves(d, to, x) ==
  /\ app' = app /\ Functional'
  /\ pc'[d] = to /\ local'[d] = x
  /\ \A e \in Deploys \ {d} : pc'[e] = pc[e] /\ local'[e] = local[e]

LEMMA GoesMoves ==
  ASSUME Functional, NEW d \in Deploys, NEW to, NEW x, Goes(d, to, x)
  PROVE  Moves(d, to, x)
  BY DEF Goes, Moves, Functional

LEMMA ReturnsMoves ==
  ASSUME Functional, NEW d \in Deploys, NEW res, NEW ref, Returns(d, res, ref)
  PROVE  Moves(d, "returned", Nothing)
  BY DEF Returns, Moves, Functional

LEMMA EndsMove ==
  ASSUME Functional, NEW d \in Deploys
  PROVE  /\ GivesUp(d) => Moves(d, "returned", Nothing)
         /\ CallFails(d) => Moves(d, "returned", Nothing)
         /\ \A ref : Succeeds(d, ref) => Moves(d, "returned", Nothing)
  BY ReturnsMoves DEF GivesUp, CallFails, Succeeds

(* The greatest of some positive numbers.                                   *)
LEMMA HasGreatest ==
  ASSUME NEW n \in Nat, NEW S, S \subseteq 1..n, S # {}
  PROVE  \E m \in S : \A k \in S : k <= m
PROOF
  <1> DEFINE T == {x \in Nat : \E k \in S : x = n - k}
             R == {ss \in Nat \X Nat : ss[1] < ss[2]}
  <1>1. T \subseteq Nat /\ T # {}
    <2>1. PICK k \in S : TRUE
      OBVIOUS
    <2>2. n - k \in T
      BY <2>1
    <2> QED BY <2>2
  <1>2. IsWellFoundedOn(R, Nat)
    BY NatLessThanWellFounded DEF OpToRel
  <1>3. \E x \in T : \A y \in T : ~ (<<y, x>> \in R)
    <2> HIDE DEF T, R
    <2> QED BY <1>1, <1>2, WFMin
  <1>4. PICK x \in T : \A y \in T : ~ (<<y, x>> \in R)
    BY <1>3
  <1>5. \A y \in T : ~ (y < x)
    BY <1>1, <1>4
  <1>6. PICK m \in S : x = n - m
    BY <1>4
  <1>7. ASSUME NEW k \in S PROVE k <= m
    <2>1. n - k \in T /\ k \in Nat /\ m \in Nat
      BY SMT
    <2> QED BY <1>5, <1>6, <2>1, SMT
  <1> QED BY <1>7

-----------------------------------------------------------------------------
(* The object that is read, changed and written back: what is read under   *)
(* the revision that the object still has is what is in the object.        *)
Kept == Platform.locked \/ Platform.masked

ObjectFields ==
  remote = [container |-> remote.container, edits |-> remote.edits, made |-> remote.made,
            rev |-> remote.rev, ops |-> remote.ops]

ReadOfObject(d) ==
  pc[d] = "update" =>
    /\ local[d].rev \in Nat /\ local[d].rev <= remote.rev
    /\ local[d].rev = remote.rev => local[d].edits = remote.edits

ObjectInv ==
  IsObject => /\ ObjectFields /\ remote.rev \in Nat
              /\ Kept => remote.edits = remote.made
              /\ \A d \in Deploys : ReadOfObject(d)

LEMMA ObjectInvInit == ObjectInit => ObjectInv
  BY DEF ObjectInit, ObjectInv, ObjectFields, ReadOfObject, DeployInit

(* A step that leaves the object alone, and reads nothing.                  *)
LEMMA ObjectRests ==
  ASSUME ObjectInv, NEW d \in Deploys, NEW to, NEW x, Moves(d, to, x), to # "update", UNCHANGED remote
  PROVE  ObjectInv'
  BY DEF Moves, ObjectInv, ObjectFields, ReadOfObject, IsObject, Kept, Platform

LEMMA ObjectStep ==
  ASSUME ObjectInv, Functional, ObjectNext
  PROVE  ObjectInv' /\ app' = app /\ Functional'
PROOF
  <1>0. IsObject /\ ObjectFields /\ remote.rev \in Nat /\ (Kept => remote.edits = remote.made)
        /\ \A d \in Deploys : ReadOfObject(d)
    BY DEF ObjectNext, ObjectInv
  <1>1. ASSUME OthersEditObject
        PROVE  ObjectInv' /\ app' = app /\ Functional'
    <2>1. remote' = [container |-> remote.container, edits |-> remote.edits + 1, made |-> remote.made + 1,
                     rev |-> remote.rev + 1, ops |-> remote.ops]
      BY <1>0, <1>1 DEF OthersEditObject, ObjectFields
    <2>2. app' = app /\ pc' = pc /\ local' = local
      BY <1>1 DEF OthersEditObject
    <2> QED BY <1>0, <2>1, <2>2 DEF ObjectInv, ObjectFields, ReadOfObject, IsObject, Kept, Platform, Functional
  <1>2. ASSUME NEW d \in Deploys, UpdateObject(d)
        PROVE  ObjectInv' /\ app' = app /\ Functional'
    <2>1. \E to \in {"returned", "wait"} : \E x : Moves(d, to, x)
      BY <1>2, EndsMove, GoesMoves DEF UpdateObject
    <2>2. pc[d] = "update" /\ (Platform.locked => remote.rev = local[d].rev)
      BY <1>2 DEF UpdateObject, Writable
    <2>3. remote' = [container |-> Written(d), edits |-> IF Platform.masked THEN remote.edits ELSE local[d].edits,
                     made |-> remote.made, rev |-> remote.rev + 1, ops |-> Append(remote.ops, d)]
      BY <1>0, <1>2 DEF UpdateObject, Write, ObjectFields
    <2>4. Kept => remote'.edits = remote'.made
      BY <1>0, <2>2, <2>3 DEF Kept, ReadOfObject
    <2>5. remote'.rev = remote.rev + 1 /\ ObjectFields'
      BY <2>3 DEF ObjectFields
    <2>6. app' = app /\ Functional' /\ \A e \in Deploys : pc'[e] = "update" => pc[e] = "update" /\ local'[e] = local[e]
      BY <2>1 DEF Moves
    <2>7. IsObject' /\ (Kept' <=> Kept)
      BY <1>0, <2>6 DEF IsObject, Kept, Platform
    <2>8. \A e \in Deploys : ReadOfObject(e)'
      BY <1>0, <2>5, <2>6 DEF ReadOfObject
    <2> QED BY <1>0, <2>4, <2>5, <2>6, <2>7, <2>8 DEF ObjectInv
  <1>3. ASSUME NEW d \in Deploys, GetObject(d)
        PROVE  ObjectInv' /\ app' = app /\ Functional'
    <2>1. Moves(d, "update", [container |-> remote.container, edits |-> remote.edits, rev |-> remote.rev])
          /\ UNCHANGED remote
      BY <1>3, GoesMoves DEF GetObject
    <2> QED BY <1>0, <2>1 DEF Moves, ObjectInv, ObjectFields, ReadOfObject, IsObject, Kept, Platform
  <1>4. ASSUME NEW d \in Deploys,
               \/ NoObject(d) \/ ObjectNoVersion(d) \/ NoLabels(d) \/ NoMainContainer(d)
               \/ NothingChanged(d) \/ Refused(d) \/ WaitForObject(d) \/ ObjectCallFails(d)
        PROVE  ObjectInv' /\ app' = app /\ Functional'
    <2>1. Moves(d, "returned", Nothing) /\ UNCHANGED remote
      BY <1>4, EndsMove, ReturnsMoves
      DEF NoObject, ObjectNoVersion, NoVersionGiven, NoLabels, NoMainContainer, NothingChanged, Refused,
          WaitForObject, ObjectCallFails
    <2> QED BY <2>1, ObjectRests DEF Moves
  <1> QED BY <1>1, <1>2, <1>3, <1>4 DEF ObjectNext

-----------------------------------------------------------------------------
(* ECS and Batch: what a deploy is going to deregister is older than what  *)
(* it has registered, so that whatever it retires has a newer revision.    *)
AnySequence(s) == \E S : s \in Seq(S)

DefinitionFields(f) == f = [by |-> f.by, active |-> f.active, tags |-> f.tags, containers |-> f.containers]

PlanFields(l) == l \in [from : {l.from}, old : {l.old}, tags : {l.tags}, new : {l.new}]

Revisions ==
  /\ remote = [defs |-> remote.defs, service |-> remote.service, deployments |-> remote.deployments]
  /\ AnySequence(remote.defs)
  /\ \A i \in 1..Len(remote.defs) : DefinitionFields(remote.defs[i])

(* A newer one for every retired revision, in terms of a sequence s.        *)
Replaced(s) == \A i \in 1..Len(s) : s[i].active \/ \E j \in 1..Len(s) : j > i /\ s[j].active

ReadOfDefinition(d) ==
  pc[d] \in {"tags", "register", "deregister"} =>
    /\ PlanFields(local[d])
    /\ \A i \in local[d].old : i \in 1..Len(remote.defs) /\ (pc[d] = "deregister" => i < local[d].new)
    /\ pc[d] = "deregister" => local[d].new \in 1..Len(remote.defs)

DefinitionInv ==
  IsDefinition => Revisions /\ Replaced(remote.defs) /\ \A d \in Deploys : ReadOfDefinition(d)

(* How EXCEPT changes a record of these fields.                             *)
LEMMA DefinitionChanges ==
  ASSUME NEW f, DefinitionFields(f), NEW x
  PROVE  [f EXCEPT !.active = x] = [by |-> f.by, active |-> x, tags |-> f.tags, containers |-> f.containers]
PROOF
  <1>1. PICK a, b, c, e : f = [by |-> a, active |-> b, tags |-> c, containers |-> e]
    BY DEF DefinitionFields
  <1> QED BY <1>1

LEMMA SequenceDomain ==
  ASSUME NEW s, AnySequence(s)
  PROVE  Len(s) \in Nat /\ DOMAIN s = 1..Len(s)
  BY DEF AnySequence

LEMMA SequenceGrows ==
  ASSUME NEW s, AnySequence(s), NEW x
  PROVE  /\ AnySequence(Append(s, x)) /\ Len(Append(s, x)) = Len(s) + 1
         /\ \A i \in 1..Len(s) : Append(s, x)[i] = s[i]
         /\ Append(s, x)[Len(s) + 1] = x
PROOF
  <1>1. PICK S : s \in Seq(S)
    BY DEF AnySequence
  <1>2. s \in Seq(S \cup {x})
    <2>1. \A i \in 1..Len(s) : s[i] \in S \cup {x}
      BY <1>1
    <2> QED BY <1>1, <2>1
  <1>3. Append(s, x) \in Seq(S \cup {x})
    BY <1>2
  <1> QED BY <1>2, <1>3 DEF AnySequence

LEMMA SequenceChanges ==
  ASSUME NEW s, AnySequence(s), NEW i \in 1..Len(s), NEW x
  PROVE  LET t == [s EXCEPT ![i] = x]
         IN  /\ AnySequence(t) /\ Len(t) = Len(s) /\ t[i] = x
             /\ \A j \in 1..Len(s) : j # i => t[j] = s[j]
PROOF
  <1> DEFINE t == [s EXCEPT ![i] = x]
  <1>1. PICK S : s \in Seq(S)
    BY DEF AnySequence
  <1>2. s \in [1..Len(s) -> S] /\ Len(s) \in Nat
    BY <1>1
  <1>3. t \in [1..Len(s) -> S \cup {x}]
    BY <1>2
  <1>4. t \in Seq(S \cup {x}) /\ Len(t) = Len(s)
    BY <1>2, <1>3
  <1> QED BY <1>2, <1>4 DEF AnySequence

LEMMA DefinitionInvInit == DefinitionInit => DefinitionInv
PROOF
  <1> SUFFICES ASSUME DefinitionInit PROVE DefinitionInv
    OBVIOUS
  <1>1. PICK x : remote = [defs |-> <<[by |-> "plan", active |-> TRUE, tags |-> TRUE, containers |-> x]>>,
                           service |-> 1, deployments |-> <<1>>]
    BY DEF DefinitionInit
  <1>2. remote.defs \in Seq({remote.defs[1]}) /\ Len(remote.defs) = 1
    BY <1>1
  <1>3. Revisions /\ Replaced(remote.defs)
    <2>1. AnySequence(remote.defs)
      BY <1>2 DEF AnySequence
    <2>2. remote.defs[1] = [by |-> "plan", active |-> TRUE, tags |-> TRUE, containers |-> x] /\ 1..Len(remote.defs) = {1}
      BY <1>1, <1>2
    <2>3. \A i \in 1..Len(remote.defs) : DefinitionFields(remote.defs[i]) /\ remote.defs[i].active
      BY <2>2 DEF DefinitionFields
    <2> QED BY <1>1, <2>1, <2>3 DEF Revisions, Replaced
  <1>4. \A d \in Deploys : pc[d] = "start"
    BY DEF DefinitionInit, DeployInit
  <1> QED BY <1>3, <1>4 DEF DefinitionInv, ReadOfDefinition

LEMMA DefinitionRests ==
  ASSUME DefinitionInv, NEW d \in Deploys, NEW to, NEW x, Moves(d, to, x),
         to \notin {"tags", "register", "deregister"}, UNCHANGED remote
  PROVE  DefinitionInv'
  BY DEF Moves, DefinitionInv, Revisions, ReadOfDefinition, IsDefinition

(* What a deploy reads: the revision it starts from is the latest one.      *)
LEMMA LatestIsActive ==
  ASSUME Revisions, Active # {}
  PROVE  Latest \in Active
PROOF
  <1>1. Len(remote.defs) \in Nat /\ Active \subseteq 1..Len(remote.defs)
    BY SequenceDomain DEF Revisions, Active
  <1>2. \E m \in Active : \A k \in Active : k <= m
    BY <1>1, HasGreatest
  <1> QED BY <1>2 DEF Latest

(* Deploy d registers a revision; whatever it does next, it is the newest.  *)
LEMMA RegisterKeeps ==
  ASSUME DefinitionInv, Functional, NEW d \in Deploys, IsDefinition, pc[d] = "register",
         NEW containers, Registers(d, containers, local[d].old)
  PROVE  DefinitionInv' /\ app' = app /\ Functional'
PROOF
  <1> DEFINE n == Len(remote.defs)
             def == [by |-> d, active |-> TRUE, tags |-> local[d].tags, containers |-> containers]
             read == [local[d] EXCEPT !.new = n + 1, !.old = local[d].old]
  <1>0. Revisions /\ Replaced(remote.defs) /\ \A e \in Deploys : ReadOfDefinition(e)
    BY DEF DefinitionInv
  <1>1. /\ remote' = [defs |-> Append(remote.defs, def), service |-> remote.service,
                      deployments |-> remote.deployments]
        /\ AnySequence(remote.defs) /\ n \in Nat
    BY <1>0, SequenceDomain DEF Registers, Revisions
  <1>2. /\ AnySequence(remote'.defs) /\ Len(remote'.defs) = n + 1
        /\ \A i \in 1..n : remote'.defs[i] = remote.defs[i]
        /\ remote'.defs[n + 1] = def
    BY <1>1, SequenceGrows
  <1>3. \A i \in 1..Len(remote'.defs) : i \in 1..n \/ i = n + 1
    BY <1>1, <1>2
  <1>4. Revisions'
    <2>1. \A i \in 1..Len(remote'.defs) : DefinitionFields(remote'.defs[i])
      BY <1>0, <1>2, <1>3 DEF DefinitionFields, Revisions
    <2> QED BY <1>1, <1>2, <2>1 DEF Revisions
  <1>5. Replaced(remote'.defs)
    <2>1. ASSUME NEW i \in 1..Len(remote'.defs)
          PROVE  remote'.defs[i].active \/ \E j \in 1..Len(remote'.defs) : j > i /\ remote'.defs[j].active
      <3>1. CASE i = n + 1
        BY <1>2, <3>1
      <3>2. CASE i \in 1..n
        BY <1>1, <1>2, <3>2
      <3> QED BY <1>3, <3>1, <3>2
    <2> QED BY <2>1 DEF Replaced
  <1>6. Moves(d, "deregister", read) \/ Moves(d, "returned", Nothing)
    BY GoesMoves, EndsMove DEF Registers
  <1>7. PlanFields(read) /\ read.new = n + 1 /\ read.old = local[d].old
        /\ \A i \in read.old : i \in 1..n
    <2>1. PlanFields(local[d]) /\ \A i \in local[d].old : i \in 1..n
      BY <1>0 DEF ReadOfDefinition
    <2>2. PlanFields(read) /\ read.new = n + 1 /\ read.old = local[d].old
      <3> DEFINE l == local[d]
                 new == n + 1
                 old == local[d].old
      <3>1. PlanFields(l)
        BY <2>1
      <3> HIDE DEF l, new, old
      <3>2. LET r == [l EXCEPT !.new = new, !.old = old] IN PlanFields(r) /\ r.old = old /\ r.new = new
        BY <3>1 DEF PlanFields
      <3> QED BY <3>2 DEF l, new, old
    <2> QED BY <2>1, <2>2
  <1>8. ASSUME NEW e \in Deploys PROVE ReadOfDefinition(e)'
    <2>1. CASE e # d
      <3>1. pc'[e] = pc[e] /\ local'[e] = local[e]
        BY <1>6, <2>1 DEF Moves
      <3> QED BY <1>0, <1>1, <1>2, <3>1 DEF ReadOfDefinition
    <2>2. CASE e = d /\ Moves(d, "deregister", read)
      BY <1>1, <1>2, <1>7, <2>2 DEF ReadOfDefinition, Moves
    <2>3. CASE e = d /\ Moves(d, "returned", Nothing)
      BY <2>3 DEF ReadOfDefinition, Moves
    <2> QED BY <1>6, <2>1, <2>2, <2>3
  <1>9. app' = app /\ Functional'
    BY <1>6 DEF Moves
  <1> QED BY <1>4, <1>5, <1>8, <1>9 DEF DefinitionInv

(* Deploy d retires revision i, which is older than the one it registered.  *)
LEMMA DeregisterKeeps ==
  ASSUME DefinitionInv, Functional, NEW d \in Deploys, IsDefinition, NEW i \in DOMAIN remote.defs, Deregister(d, i)
  PROVE  DefinitionInv' /\ app' = app /\ Functional'
PROOF
  <1> DEFINE n == Len(remote.defs)
             def == [remote.defs[i] EXCEPT !.active = FALSE]
             read == [local[d] EXCEPT !.old = local[d].old \ {i}]
  <1>0. Revisions /\ Replaced(remote.defs) /\ \A e \in Deploys : ReadOfDefinition(e)
    BY DEF DefinitionInv
  <1>1. pc[d] = "deregister" /\ i \in local[d].old /\ i \in 1..n /\ n \in Nat /\ AnySequence(remote.defs)
    BY <1>0, SequenceDomain DEF Deregister, Revisions
  <1>2. remote' = [defs |-> [remote.defs EXCEPT ![i] = def], service |-> remote.service,
                   deployments |-> remote.deployments]
    BY <1>0 DEF Deregister, Revisions
  <1>3. /\ AnySequence(remote'.defs) /\ Len(remote'.defs) = n /\ remote'.defs[i] = def
        /\ \A j \in 1..n : j # i => remote'.defs[j] = remote.defs[j]
    <2>1. remote'.defs = [remote.defs EXCEPT ![i] = def]
      BY <1>2
    <2> HIDE DEF def
    <2> QED BY <1>1, <2>1, SequenceChanges
  <1>4. DefinitionFields(def) /\ def.active = FALSE
    <2> DEFINE old == remote.defs[i]
    <2>1. DefinitionFields(old)
      BY <1>0, <1>1 DEF Revisions
    <2>2. def = [by |-> old.by, active |-> FALSE, tags |-> old.tags, containers |-> old.containers]
      BY <2>1, DefinitionChanges
    <2> QED BY <2>2 DEF DefinitionFields
  <1>5. Revisions'
    <2>1. \A j \in 1..n : DefinitionFields(remote'.defs[j])
      BY <1>0, <1>3, <1>4 DEF Revisions
    <2> QED BY <1>2, <1>3, <2>1 DEF Revisions
  <1>6. local[d].new \in 1..n /\ i < local[d].new /\ PlanFields(local[d])
    BY <1>0, <1>1 DEF ReadOfDefinition
  <1>7. PICK m \in 1..n : m > i /\ remote.defs[m].active
    BY <1>0, <1>1, <1>6 DEF Replaced
  <1>8. Replaced(remote'.defs)
    <2>1. ASSUME NEW k \in 1..n
          PROVE  remote'.defs[k].active \/ \E j \in 1..n : j > k /\ remote'.defs[j].active
      <3>1. remote'.defs[m].active
        BY <1>1, <1>3, <1>7
      <3>2. CASE k <= i
        BY <1>1, <1>7, <3>1, <3>2
      <3>3. CASE k > i
        <4>1. remote'.defs[k] = remote.defs[k]
          BY <1>1, <1>3, <3>3
        <4>2. CASE remote.defs[k].active
          BY <4>1, <4>2
        <4>3. CASE ~remote.defs[k].active
          <5>1. PICK j \in 1..n : j > k /\ remote.defs[j].active
            BY <1>0, <4>3 DEF Replaced
          <5>2. remote'.defs[j] = remote.defs[j]
            BY <1>1, <1>3, <3>3, <5>1
          <5> QED BY <5>1, <5>2
        <4> QED BY <4>2, <4>3
      <3> QED BY <1>1, <3>2, <3>3
    <2> QED BY <1>3, <2>1 DEF Replaced
  <1>9. Moves(d, "deregister", read) \/ Moves(d, "returned", Nothing)
    BY GoesMoves, EndsMove DEF Deregister
  <1>10. PlanFields(read) /\ read.new = local[d].new /\ read.old \subseteq local[d].old
    <2>1. PlanFields(read) /\ read.new = local[d].new /\ read.old = local[d].old \ {i}
      <3> DEFINE l == local[d]
                 old == local[d].old \ {i}
      <3>1. PlanFields(l)
        BY <1>6
      <3> HIDE DEF l, old
      <3>2. LET r == [l EXCEPT !.old = old] IN PlanFields(r) /\ r.old = old /\ r.new = l.new
        BY <3>1 DEF PlanFields
      <3> QED BY <3>2 DEF l, old
    <2> QED BY <2>1
  <1>11. ASSUME NEW e \in Deploys PROVE ReadOfDefinition(e)'
    <2>1. CASE e # d
      <3>1. pc'[e] = pc[e] /\ local'[e] = local[e]
        BY <1>9, <2>1 DEF Moves
      <3> QED BY <1>0, <1>3, <3>1 DEF ReadOfDefinition
    <2>2. CASE e = d /\ Moves(d, "deregister", read)
      BY <1>0, <1>1, <1>3, <1>10, <2>2 DEF ReadOfDefinition, Moves
    <2>3. CASE e = d /\ Moves(d, "returned", Nothing)
      BY <2>3 DEF ReadOfDefinition, Moves
    <2> QED BY <1>9, <2>1, <2>2, <2>3
  <1>12. app' = app /\ Functional'
    BY <1>9 DEF Moves
  <1> QED BY <1>5, <1>8, <1>11, <1>12 DEF DefinitionInv

LEMMA ServiceKeeps ==
  ASSUME DefinitionInv, Functional, NEW d \in Deploys, IsDefinition, UpdateService(d)
  PROVE  DefinitionInv' /\ app' = app /\ Functional'
PROOF
  <1>0. Revisions /\ Replaced(remote.defs) /\ \A e \in Deploys : ReadOfDefinition(e)
    BY DEF DefinitionInv
  <1>1. Moves(d, "returned", Nothing)
    BY EndsMove DEF UpdateService
  <1>2. remote'.defs = remote.defs /\ remote' = [defs |-> remote'.defs, service |-> remote'.service,
                                                  deployments |-> remote'.deployments]
    <2>1. remote' = remote \/ remote' = [remote EXCEPT !.service = local[d].new,
                                                       !.deployments = Append(@, local[d].new)]
      BY DEF UpdateService
    <2> QED BY <1>0, <2>1 DEF Revisions
  <1>3. Revisions' /\ Replaced(remote'.defs)
    BY <1>0, <1>2 DEF Revisions
  <1>4. \A e \in Deploys : ReadOfDefinition(e)'
    BY <1>0, <1>1, <1>2 DEF Moves, ReadOfDefinition
  <1> QED BY <1>1, <1>3, <1>4 DEF DefinitionInv, Moves

LEMMA DefinitionStepKeeps ==
  ASSUME DefinitionInv, Functional, DefinitionNext
  PROVE  DefinitionInv' /\ app' = app /\ Functional'
PROOF
  <1>0. PICK d \in Deploys : DefinitionStep(d)
    BY DEF DefinitionNext
  <1>1. IsDefinition /\ Revisions /\ Replaced(remote.defs) /\ \A e \in Deploys : ReadOfDefinition(e)
    BY DEF DefinitionNext, DefinitionInv
  <1>2. Active \subseteq 1..Len(remote.defs)
    BY <1>1, SequenceDomain DEF Revisions, Active
  <1>3. CASE \/ DefinitionNoVersion(d) \/ NoDefinition(d) \/ NoMainDefinition(d) \/ NoService(d)
             \/ DefinitionCallFails(d) \/ \E i \in DOMAIN remote.defs : DeregisterRefused(d, i)
    <2>1. Moves(d, "returned", Nothing) /\ UNCHANGED remote
      BY <1>3, EndsMove DEF DefinitionNoVersion, NoVersionGiven, NoDefinition, NoMainDefinition, NoService,
                            DefinitionCallFails, DeregisterRefused
    <2> QED BY <2>1, DefinitionRests DEF Moves
  <1>4. CASE GetTaskDefinition(d) \/ GetJobDefinition(d)
    <2>1. PICK to \in {"tags", "register"}, old \in SUBSET Active : Got(d, to, old)
      <3>1. Active # {} => {Latest} \in SUBSET Active /\ Active \in SUBSET Active
        BY <1>1, LatestIsActive
      <3> QED BY <1>4, <3>1 DEF GetTaskDefinition, GetJobDefinition
    <2>2. Moves(d, to, [from |-> Latest, old |-> old, tags |-> FALSE, new |-> 0]) /\ UNCHANGED remote
      BY <2>1, GoesMoves DEF Got
    <2>3. ASSUME NEW e \in Deploys PROVE ReadOfDefinition(e)'
      <3>1. CASE e = d
        BY <1>2, <2>1, <2>2, <3>1 DEF Moves, ReadOfDefinition, PlanFields
      <3>2. CASE e # d
        BY <1>1, <2>2, <3>2 DEF Moves, ReadOfDefinition
      <3> QED BY <3>1, <3>2
    <2> QED BY <1>1, <2>2, <2>3 DEF DefinitionInv, Revisions, Moves
  <1>5. CASE GetTags(d)
    <2>1. /\ app' = app /\ Functional' /\ UNCHANGED remote
          /\ pc[d] = "tags" /\ pc'[d] = "register"
          /\ local'[d] \in {local[d], [local[d] EXCEPT !.tags = TRUE]}
          /\ \A e \in Deploys \ {d} : pc'[e] = pc[e] /\ local'[e] = local[e]
      BY <1>5 DEF GetTags, Goes, Functional
    <2>2. PlanFields(local[d]) /\ \A i \in local[d].old : i \in 1..Len(remote.defs)
      BY <1>1, <2>1 DEF ReadOfDefinition
    <2>3. PlanFields(local'[d]) /\ local'[d].old = local[d].old
      <3>1. PlanFields([local[d] EXCEPT !.tags = TRUE]) /\ [local[d] EXCEPT !.tags = TRUE].old = local[d].old
        BY <2>2 DEF PlanFields
      <3> QED BY <2>1, <2>2, <3>1
    <2>4. \A e \in Deploys : ReadOfDefinition(e)'
      BY <1>1, <2>1, <2>2, <2>3 DEF ReadOfDefinition
    <2> QED BY <1>1, <2>1, <2>4 DEF DefinitionInv, Revisions
  <1>6. CASE RegisterTaskDefinition(d) \/ CreateJobDefinition(d)
    BY <1>1, <1>6, RegisterKeeps DEF RegisterTaskDefinition, CreateJobDefinition
  <1>7. CASE UpdateService(d)
    BY <1>1, <1>7, ServiceKeeps
  <1>8. CASE \E i \in DOMAIN remote.defs : Deregister(d, i)
    BY <1>1, <1>8, DeregisterKeeps
  <1> QED BY <1>0, <1>3, <1>4, <1>5, <1>6, <1>7, <1>8 DEF DefinitionStep

-----------------------------------------------------------------------------
(* Lambda: the configuration that is written back was read under the       *)
(* RevisionId that the function still has.                                 *)
FunctionFields ==
  remote = [env |-> remote.env, code |-> remote.code, edits |-> remote.edits, made |-> remote.made,
            rev |-> remote.rev, status |-> remote.status, pending |-> remote.pending, what |-> remote.what]

ReadOfFunction(d) ==
  pc[d] = "config" =>
    /\ local[d].rev \in Nat /\ local[d].rev <= remote.rev
    /\ local[d].rev = remote.rev => local[d].edits = remote.edits

FunctionInv ==
  IsLambda => /\ FunctionFields /\ remote.rev \in Nat /\ remote.edits = remote.made
              /\ \A d \in Deploys : ReadOfFunction(d)

LEMMA FunctionInvInit == LambdaInit => FunctionInv
  BY DEF LambdaInit, FunctionInv, FunctionFields, ReadOfFunction, DeployInit

(* The function changes: its revision goes up, or it keeps what is kept.    *)
LEMMA FunctionChanges ==
  ASSUME IsLambda, FunctionInv, app' = app, FunctionFields', remote'.edits = remote'.made,
         \/ remote'.rev = remote.rev + 1
         \/ remote'.rev = remote.rev /\ remote'.edits = remote.edits,
         \A e \in Deploys : pc'[e] = "config" => pc[e] = "config" /\ local'[e] = local[e]
  PROVE  FunctionInv'
PROOF
  <1>1. /\ remote.rev \in Nat /\ remote'.rev \in Nat
        /\ \A e \in Deploys : ReadOfFunction(e)
    BY DEF FunctionInv
  <1>2. \A e \in Deploys : ReadOfFunction(e)'
    BY <1>1 DEF ReadOfFunction
  <1> QED BY <1>1, <1>2 DEF FunctionInv

LEMMA FunctionStepKeeps ==
  ASSUME FunctionInv, Functional, LambdaNext
  PROVE  FunctionInv' /\ app' = app /\ Functional'
PROOF
  <1>0. IsLambda /\ FunctionFields /\ remote.rev \in Nat /\ remote.edits = remote.made
        /\ \A d \in Deploys : ReadOfFunction(d)
    BY DEF LambdaNext, FunctionInv
  <1>1. ASSUME NEW d \in Deploys, LambdaNoVersion(d) \/ Conflict(d) \/ WaitForChanges(d) \/ LambdaCallFails(d)
        PROVE  FunctionInv' /\ app' = app /\ Functional'
    <2>1. UNCHANGED remote /\ \E to \in {"returned", "code"} : Moves(d, to, Nothing)
      BY <1>1, EndsMove, GoesMoves DEF LambdaNoVersion, NoVersionGiven, Conflict, WaitForChanges, LambdaCallFails
    <2> QED BY <1>0, <2>1, FunctionChanges DEF Moves, FunctionFields
  <1>2. ASSUME NEW d \in Deploys, GetConfig(d)
        PROVE  FunctionInv' /\ app' = app /\ Functional'
    <2>1. /\ UNCHANGED remote
          /\ \/ Moves(d, "config", [edits |-> remote.edits, rev |-> remote.rev])
             \/ Moves(d, "returned", Nothing)
      BY <1>2, ReturnsMoves, GoesMoves DEF GetConfig
    <2> QED BY <1>0, <2>1 DEF Moves, FunctionInv, FunctionFields, ReadOfFunction, IsLambda
  <1>3. ASSUME NEW d \in Deploys, UpdateConfig(d)
        PROVE  FunctionInv' /\ app' = app /\ Functional'
    <2>1. \E to \in {"returned", "waitConfig"} : Moves(d, to, Nothing)
      BY <1>3, EndsMove, GoesMoves DEF UpdateConfig
    <2>2. CASE UNCHANGED remote
      BY <1>0, <2>1, <2>2, FunctionChanges DEF Moves, FunctionFields
    <2>3. CASE remote.rev = local[d].rev /\ Accepts("env", version[d], local[d].edits)
      <3>1. local[d].edits = remote.edits
        BY <1>0, <1>3, <2>3 DEF UpdateConfig, ReadOfFunction
      <3>2. remote' = [env |-> remote.env, code |-> remote.code, edits |-> remote.edits, made |-> remote.made,
                       rev |-> remote.rev + 1, status |-> "InProgress", pending |-> version[d], what |-> "env"]
        BY <1>0, <2>3, <3>1 DEF Accepts, FunctionFields
      <3> QED BY <1>0, <2>1, <3>2, FunctionChanges DEF Moves, FunctionFields
    <2> QED BY <1>3, <2>2, <2>3 DEF UpdateConfig
  <1>4. ASSUME NEW d \in Deploys, UpdatesCode(d)
        PROVE  FunctionInv' /\ app' = app /\ Functional'
    <2>1. \E to \in {"returned", "waitCode"} : Moves(d, to, Nothing)
      BY <1>4, EndsMove, GoesMoves DEF UpdatesCode
    <2>2. remote' = [env |-> remote.env, code |-> remote.code, edits |-> remote.edits, made |-> remote.made,
                     rev |-> remote.rev + 1, status |-> "InProgress", pending |-> version[d], what |-> "code"]
      BY <1>0, <1>4 DEF UpdatesCode, Accepts, FunctionFields
    <2> QED BY <1>0, <2>1, <2>2, FunctionChanges DEF Moves, FunctionFields
  <1>5. ASSUME Applied \/ NotApplied \/ OthersEditFunction
        PROVE  FunctionInv' /\ app' = app /\ Functional'
    <2>1. app' = app /\ pc' = pc /\ local' = local
      BY <1>5 DEF Applied, NotApplied, OthersEditFunction
    <2>2. CASE Applied
      <3>1. \E env, code :
              remote' = [env |-> env, code |-> code, edits |-> remote.edits, made |-> remote.made,
                         rev |-> remote.rev, status |-> "Successful", pending |-> remote.pending, what |-> remote.what]
        BY <1>0, <2>2 DEF Applied, FunctionFields
      <3> QED BY <1>0, <2>1, <3>1, FunctionChanges DEF FunctionFields, Functional
    <2>3. CASE NotApplied
      <3>1. remote' = [env |-> remote.env, code |-> remote.code, edits |-> remote.edits, made |-> remote.made,
                       rev |-> remote.rev, status |-> "Failed", pending |-> remote.pending, what |-> remote.what]
        BY <1>0, <2>3 DEF NotApplied, FunctionFields
      <3> QED BY <1>0, <2>1, <3>1, FunctionChanges DEF FunctionFields, Functional
    <2>4. CASE OthersEditFunction
      <3>1. remote' = [env |-> remote.env, code |-> remote.code, edits |-> remote.edits + 1, made |-> remote.made + 1,
                       rev |-> remote.rev + 1, status |-> remote.status, pending |-> remote.pending,
                       what |-> remote.what]
        BY <1>0, <2>4 DEF OthersEditFunction, FunctionFields
      <3> QED BY <1>0, <2>1, <3>1, FunctionChanges DEF FunctionFields, Functional
    <2> QED BY <1>5, <2>2, <2>3, <2>4
  <1> QED
    BY <1>1, <1>2, <1>3, <1>4, <1>5
    DEF LambdaNext, ImageDeployStep, ZipDeployStep, AnyStep, ConfigStep, UpdateImageCode, UpdateZipCode

-----------------------------------------------------------------------------
(* The job template and the CronJobs, each with a revision of its own.      *)
OfObjects(f) == f = [i \in Objects |-> f[i]]

EditsFields(o) == o \in [version : {o.version}, edits : {o.edits}]

JobFields ==
  /\ remote = [objs |-> remote.objs, rev |-> remote.rev, made |-> remote.made]
  /\ OfObjects(remote.objs) /\ OfObjects(remote.rev) /\ OfObjects(remote.made)
  /\ \A i \in Objects : /\ EditsFields(remote.objs[i]) /\ remote.rev[i] \in Nat
                        /\ remote.objs[i].edits = remote.made[i]

(* What was read of object i under revision rev.                            *)
ReadOf(i, obj, rev) ==
  /\ EditsFields(obj) /\ rev \in Nat /\ rev <= remote.rev[i]
  /\ rev = remote.rev[i] => obj.edits = remote.objs[i].edits

LoopFields(l) == l \in [objs : {l.objs}, rev : {l.rev}, next : {l.next}, failed : {l.failed}]

ReadOfJob(d) ==
  /\ pc[d] = "template" => ReadOf(0, local[d].obj, local[d].rev)
  /\ pc[d] = "cronJobs" => /\ LoopFields(local[d])
                           /\ \A i \in CronJobs : ReadOf(i, local[d].objs[i], local[d].rev[i])

JobInv ==
  IsK8sJob => app.cronJobs \in Nat /\ JobFields /\ \A d \in Deploys : ReadOfJob(d)

LEMMA JobInvInit == K8sJobInit => JobInv
PROOF
  <1> SUFFICES ASSUME K8sJobInit PROVE JobInv
    OBVIOUS
  <1>1. app.cronJobs \in Nat
    <2>1. app \in JobApps
      BY DEF K8sJobInit
    <2>2. app.cronJobs \in 0..MaxCronJobs
      BY <2>1 DEF JobApps
    <2> QED BY <2>2
  <1>2. JobFields
    <2>1. remote = [objs |-> [i \in Objects |-> [version |-> Initially, edits |-> 0]],
                    rev |-> [i \in Objects |-> 0], made |-> [i \in Objects |-> 0]]
      BY DEF K8sJobInit
    <2>2. /\ remote.objs = [i \in Objects |-> [version |-> Initially, edits |-> 0]]
          /\ remote.rev = [i \in Objects |-> 0] /\ remote.made = [i \in Objects |-> 0]
          /\ remote = [objs |-> remote.objs, rev |-> remote.rev, made |-> remote.made]
      BY <2>1
    <2>3. \A i \in Objects : /\ remote.objs[i] = [version |-> Initially, edits |-> 0]
                             /\ remote.rev[i] = 0 /\ remote.made[i] = 0
      BY <2>2
    <2>4. \A i \in Objects : EditsFields(remote.objs[i])
      BY <2>3 DEF EditsFields
    <2>5. OfObjects(remote.objs) /\ OfObjects(remote.rev) /\ OfObjects(remote.made)
      BY <2>2 DEF OfObjects
    <2> QED BY <2>2, <2>3, <2>4, <2>5 DEF JobFields
  <1>3. \A d \in Deploys : ReadOfJob(d)
    BY DEF K8sJobInit, DeployInit, ReadOfJob
  <1> QED BY <1>1, <1>2, <1>3 DEF JobInv

(* Objects change with their revision only, and deploys go on with what    *)
(* they have read.                                                          *)
LEMMA JobChanges ==
  ASSUME IsK8sJob, JobInv, app' = app, JobFields',
         \A i \in Objects : \/ remote'.rev[i] = remote.rev[i] + 1
                            \/ remote'.rev[i] = remote.rev[i] /\ remote'.objs[i].edits = remote.objs[i].edits,
         \A e \in Deploys :
           /\ pc'[e] = "template" => pc[e] = "template" /\ local'[e] = local[e]
           /\ pc'[e] = "cronJobs" => /\ pc[e] = "cronJobs" /\ LoopFields(local'[e])
                                     /\ local'[e].objs = local[e].objs /\ local'[e].rev = local[e].rev
  PROVE  JobInv'
PROOF
  <1>1. app.cronJobs \in Nat /\ JobFields /\ \A e \in Deploys : ReadOfJob(e)
    BY DEF JobInv
  <1>2. IsK8sJob' /\ Objects' = Objects /\ CronJobs' = CronJobs /\ 0 \in Objects /\ CronJobs \subseteq Objects
    BY <1>1 DEF IsK8sJob, Objects, CronJobs
  <1>3. ASSUME NEW i \in Objects, NEW obj, NEW rev, ReadOf(i, obj, rev)
        PROVE  ReadOf(i, obj, rev)'
    <2>1. remote.rev[i] \in Nat
      BY <1>1 DEF JobFields
    <2> QED BY <1>3, <2>1 DEF ReadOf
  <1>4. ASSUME NEW e \in Deploys PROVE ReadOfJob(e)'
    <2>1. CASE pc'[e] = "template"
      <3>1. ReadOf(0, local[e].obj, local[e].rev) /\ local'[e] = local[e]
        BY <1>1, <2>1 DEF ReadOfJob
      <3>2. ReadOf(0, local[e].obj, local[e].rev)'
        <4> DEFINE obj == local[e].obj
                   rev == local[e].rev
        <4>1. /\ EditsFields(obj) /\ rev \in Nat /\ rev <= remote'.rev[0]
              /\ rev = remote'.rev[0] => obj.edits = remote'.objs[0].edits
          BY <1>2, <1>3, <3>1 DEF ReadOf
        <4> QED BY <3>1, <4>1 DEF ReadOf
      <3> QED BY <2>1, <3>1, <3>2 DEF ReadOfJob
    <2>2. CASE pc'[e] = "cronJobs"
      <3>1. /\ LoopFields(local'[e]) /\ local'[e].objs = local[e].objs /\ local'[e].rev = local[e].rev
            /\ \A i \in CronJobs : ReadOf(i, local[e].objs[i], local[e].rev[i])
        BY <1>1, <2>2 DEF ReadOfJob
      <3>2. ASSUME NEW i \in CronJobs PROVE ReadOf(i, local[e].objs[i], local[e].rev[i])'
        <4> DEFINE obj == local[e].objs[i]
                   rev == local[e].rev[i]
        <4>1. /\ EditsFields(obj) /\ rev \in Nat /\ rev <= remote'.rev[i]
              /\ rev = remote'.rev[i] => obj.edits = remote'.objs[i].edits
          BY <1>2, <1>3, <3>1 DEF ReadOf
        <4> QED BY <3>1, <4>1 DEF ReadOf
      <3> QED BY <1>2, <2>2, <3>1, <3>2 DEF ReadOfJob
    <2> QED BY <2>1, <2>2 DEF ReadOfJob
  <1> QED BY <1>1, <1>2, <1>4 DEF JobInv

(* Object i is written as it was read, but for the version.                 *)
LEMMA WritesKeep ==
  ASSUME JobInv, IsK8sJob, app' = app, NEW i \in Objects, NEW obj, NEW v,
         EditsFields(obj), obj.edits = remote.objs[i].edits, WritesBack(i, obj, v)
  PROVE  /\ JobFields'
         /\ \A j \in Objects : \/ remote'.rev[j] = remote.rev[j] + 1
                               \/ remote'.rev[j] = remote.rev[j] /\ remote'.objs[j].edits = remote.objs[j].edits
PROOF
  <1> DEFINE new == [obj EXCEPT !.version = v]
  <1>1. JobFields /\ Objects' = Objects
    BY DEF JobInv, Objects
  <1>2. EditsFields(new) /\ new.edits = remote.objs[i].edits
    BY DEF EditsFields
  <1>3. remote' = [objs |-> [remote.objs EXCEPT ![i] = new], rev |-> [remote.rev EXCEPT ![i] = @ + 1],
                   made |-> remote.made]
    BY <1>1 DEF WritesBack, JobFields
  <1> HIDE DEF new
  <1>4. /\ remote' = [objs |-> remote'.objs, rev |-> remote'.rev, made |-> remote'.made]
        /\ remote'.objs = [remote.objs EXCEPT ![i] = new] /\ remote'.rev = [remote.rev EXCEPT ![i] = @ + 1]
        /\ remote'.made = remote.made
    BY <1>3
  <1>5. ASSUME NEW j \in Objects
        PROVE  /\ EditsFields(remote'.objs[j]) /\ remote'.objs[j].edits = remote'.made[j]
               /\ remote'.objs[j].edits = remote.objs[j].edits
               /\ remote'.rev[j] = IF j = i THEN remote.rev[j] + 1 ELSE remote.rev[j]
               /\ remote'.rev[j] \in Nat
    <2>1. /\ remote'.objs[j] = IF j = i THEN new ELSE remote.objs[j]
          /\ remote'.rev[j] = IF j = i THEN remote.rev[j] + 1 ELSE remote.rev[j]
      BY <1>1, <1>4 DEF JobFields, OfObjects
    <2> QED BY <1>1, <1>2, <1>4, <2>1 DEF JobFields
  <1>6. OfObjects(remote'.objs) /\ OfObjects(remote'.rev) /\ OfObjects(remote'.made)
    BY <1>1, <1>4 DEF JobFields, OfObjects
  <1>7. JobFields'
    BY <1>1, <1>4, <1>5, <1>6 DEF JobFields, OfObjects
  <1> QED BY <1>5, <1>7

LEMMA JobStepKeeps ==
  ASSUME JobInv, Functional, K8sJobNext
  PROVE  JobInv' /\ app' = app /\ Functional'
PROOF
  <1>0. IsK8sJob /\ app.cronJobs \in Nat /\ JobFields /\ (\A d \in Deploys : ReadOfJob(d))
        /\ 0 \in Objects /\ CronJobs \subseteq Objects
    BY DEF K8sJobNext, JobInv, Objects, CronJobs
  <1>1. ASSUME NEW d \in Deploys, NEW to, NEW x, Moves(d, to, x), to \notin {"template", "cronJobs"}
        PROVE  /\ app' = app /\ Functional'
               /\ \A e \in Deploys : pc'[e] \in {"template", "cronJobs"} => pc'[e] = pc[e] /\ local'[e] = local[e]
    BY <1>1 DEF Moves
  <1>2. ASSUME app' = app, UNCHANGED remote
        PROVE  JobFields'
    BY <1>0, <1>2 DEF JobFields, OfObjects, Objects
  <1>3. \A e \in Deploys : pc[e] = "cronJobs" => LoopFields(local[e])
    BY <1>0 DEF ReadOfJob
  <1>4. ASSUME NEW d \in Deploys, K8sJobNoVersion(d) \/ CronJobPanics(d) \/ JobDeployed(d) \/ K8sJobCallFails(d)
        PROVE  JobInv' /\ app' = app /\ Functional'
    <2>1. UNCHANGED remote /\ Moves(d, "returned", Nothing)
      BY <1>4, EndsMove, ReturnsMoves DEF K8sJobNoVersion, NoVersionGiven, CronJobPanics, JobDeployed, K8sJobCallFails
    <2>2. /\ app' = app /\ Functional'
          /\ \A e \in Deploys : pc'[e] \in {"template", "cronJobs"} => pc'[e] = pc[e] /\ local'[e] = local[e]
      BY <1>1, <2>1
    <2> QED BY <1>0, <1>2, <1>3, <2>1, <2>2, JobChanges
  <1>5. ASSUME NEW d \in Deploys, GetJobTemplate(d)
        PROVE  JobInv' /\ app' = app /\ Functional'
    <2>1. /\ UNCHANGED remote
          /\ \/ Moves(d, "template", [obj |-> remote.objs[0], rev |-> remote.rev[0]])
             \/ Moves(d, "returned", Nothing)
      BY <1>5, GoesMoves, ReturnsMoves DEF GetJobTemplate, GivesUp
    <2>2. ReadOf(0, remote.objs[0], remote.rev[0])
      BY <1>0 DEF JobFields, ReadOf
    <2>3. JobFields' /\ app' = app /\ Functional'
      BY <1>2, <2>1 DEF Moves
    <2>4. \A e \in Deploys : ReadOfJob(e)'
      BY <1>0, <2>1, <2>2, <2>3 DEF Moves, ReadOfJob, ReadOf, CronJobs
    <2> QED BY <1>0, <2>3, <2>4 DEF JobInv
  <1>6. ASSUME NEW d \in Deploys, ListCronJobs(d)
        PROVE  JobInv' /\ app' = app /\ Functional'
    <2> DEFINE read == [objs |-> remote.objs, rev |-> remote.rev, next |-> 1, failed |-> {}]
    <2>1. UNCHANGED remote /\ Moves(d, "cronJobs", read)
      BY <1>6, GoesMoves DEF ListCronJobs
    <2>2. LoopFields(read) /\ \A i \in CronJobs : ReadOf(i, read.objs[i], read.rev[i])
      BY <1>0 DEF JobFields, ReadOf, LoopFields
    <2>3. JobFields' /\ app' = app /\ Functional'
      BY <1>2, <2>1 DEF Moves
    <2> HIDE DEF read
    <2>4. \A e \in Deploys : ReadOfJob(e)'
      BY <1>0, <2>1, <2>2, <2>3 DEF Moves, ReadOfJob, ReadOf, CronJobs
    <2> QED BY <1>0, <2>3, <2>4 DEF JobInv
  <1>7. ASSUME NEW d \in Deploys, UpdateJobTemplate(d)
        PROVE  JobInv' /\ app' = app /\ Functional'
    <2>1. \E to \in {"returned", "list"} : Moves(d, to, Nothing)
      BY <1>7, EndsMove, GoesMoves DEF UpdateJobTemplate
    <2>2. /\ app' = app /\ Functional'
          /\ \A e \in Deploys : pc'[e] \in {"template", "cronJobs"} => pc'[e] = pc[e] /\ local'[e] = local[e]
      BY <1>1, <2>1
    <2>3. CASE UNCHANGED remote
      BY <1>0, <1>2, <1>3, <2>2, <2>3, JobChanges
    <2>4. CASE remote.rev[0] = local[d].rev /\ WritesBack(0, local[d].obj, version[d])
      <3>1. EditsFields(local[d].obj) /\ local[d].obj.edits = remote.objs[0].edits
        BY <1>0, <1>7, <2>4 DEF UpdateJobTemplate, ReadOfJob, ReadOf
      <3> QED BY <1>0, <1>3, <2>2, <2>4, <3>1, WritesKeep, JobChanges
    <2> QED BY <1>7, <2>3, <2>4 DEF UpdateJobTemplate
  <1>8. ASSUME NEW d \in Deploys, CronJobNotUpdated(d) \/ UpdateCronJobFails(d)
        PROVE  JobInv' /\ app' = app /\ Functional'
    <2>1. UNCHANGED remote /\ app' = app /\ pc' = pc /\ pc[d] = "cronJobs"
          /\ local' = CronJobFailed(d, local[d].next)
      BY <1>8 DEF CronJobNotUpdated, UpdateCronJobFails
    <2>2. /\ Functional' /\ \A e \in Deploys \ {d} : local'[e] = local[e]
          /\ \E next, failed : local'[d] = [local[d] EXCEPT !.next = next, !.failed = failed]
      BY <2>1 DEF CronJobFailed, Functional
    <2>3. LoopFields(local'[d]) /\ local'[d].objs = local[d].objs /\ local'[d].rev = local[d].rev
      <3> DEFINE l == local[d]
      <3>1. LoopFields(l)
        BY <1>3, <2>1
      <3>2. PICK next, failed : local'[d] = [l EXCEPT !.next = next, !.failed = failed]
        BY <2>2
      <3> HIDE DEF l
      <3>3. LET r == [l EXCEPT !.next = next, !.failed = failed]
            IN  LoopFields(r) /\ r.objs = l.objs /\ r.rev = l.rev
        BY <3>1 DEF LoopFields
      <3> QED BY <3>2, <3>3 DEF l
    <2> QED BY <1>0, <1>2, <1>3, <2>1, <2>2, <2>3, JobChanges
  <1>9. ASSUME NEW d \in Deploys, UpdateCronJob(d)
        PROVE  JobInv' /\ app' = app /\ Functional'
    <2> DEFINE i == local[d].next
               l == local[d]
    <2>1. /\ pc[d] = "cronJobs" /\ i \in CronJobs /\ remote.rev[i] = l.rev[i]
          /\ WritesBack(i, l.objs[i], version[d])
          /\ Moves(d, "cronJobs", [l EXCEPT !.next = @ + 1])
      BY <1>9, GoesMoves DEF UpdateCronJob, CronJobDone, Labelled
    <2>2. LoopFields(l) /\ ReadOf(i, l.objs[i], l.rev[i])
      BY <1>0, <2>1 DEF ReadOfJob
    <2>3. EditsFields(l.objs[i]) /\ l.objs[i].edits = remote.objs[i].edits
      BY <2>1, <2>2 DEF ReadOf
    <2>4. LET r == [l EXCEPT !.next = @ + 1] IN LoopFields(r) /\ r.objs = l.objs /\ r.rev = l.rev
      <3> HIDE DEF l
      <3> QED BY <2>2 DEF LoopFields
    <2>5. /\ app' = app /\ Functional'
          /\ \A e \in Deploys : e # d => pc'[e] = pc[e] /\ local'[e] = local[e]
          /\ pc'[d] = "cronJobs" /\ LoopFields(local'[d]) /\ local'[d].objs = l.objs /\ local'[d].rev = l.rev
      BY <2>1, <2>4 DEF Moves
    <2> QED BY <1>0, <1>3, <2>1, <2>3, <2>5, WritesKeep, JobChanges
  <1>10. ASSUME NEW i \in Objects, OthersEditJob(i)
         PROVE  JobInv' /\ app' = app /\ Functional'
    <2> DEFINE new == [remote.objs[i] EXCEPT !.edits = @ + 1]
    <2>1. app' = app /\ pc' = pc /\ local' = local
      BY <1>10 DEF OthersEditJob
    <2>2. remote' = [objs |-> [remote.objs EXCEPT ![i] = new], rev |-> [remote.rev EXCEPT ![i] = @ + 1],
                     made |-> [remote.made EXCEPT ![i] = @ + 1]]
      BY <1>0, <1>10 DEF OthersEditJob, JobFields
    <2>3. EditsFields(new) /\ new.edits = remote.objs[i].edits + 1
      BY <1>0 DEF JobFields, EditsFields
    <2> HIDE DEF new
    <2>4. /\ remote' = [objs |-> remote'.objs, rev |-> remote'.rev, made |-> remote'.made]
          /\ remote'.objs = [remote.objs EXCEPT ![i] = new] /\ remote'.rev = [remote.rev EXCEPT ![i] = @ + 1]
          /\ remote'.made = [remote.made EXCEPT ![i] = @ + 1]
      BY <2>2
    <2>5. ASSUME NEW j \in Objects
          PROVE  /\ EditsFields(remote'.objs[j]) /\ remote'.objs[j].edits = remote'.made[j]
                 /\ remote'.rev[j] \in Nat
                 /\ \/ remote'.rev[j] = remote.rev[j] + 1
                    \/ remote'.rev[j] = remote.rev[j] /\ remote'.objs[j].edits = remote.objs[j].edits
      <3>1. /\ remote'.objs[j] = IF j = i THEN new ELSE remote.objs[j]
            /\ remote'.rev[j] = IF j = i THEN remote.rev[j] + 1 ELSE remote.rev[j]
            /\ remote'.made[j] = IF j = i THEN remote.made[j] + 1 ELSE remote.made[j]
        BY <1>0, <2>4 DEF JobFields, OfObjects
      <3> QED BY <1>0, <2>3, <3>1 DEF JobFields
    <2>6. OfObjects(remote'.objs) /\ OfObjects(remote'.rev) /\ OfObjects(remote'.made) /\ Objects' = Objects
      BY <1>0, <2>1, <2>4 DEF JobFields, OfObjects, Objects
    <2>7. JobFields'
      BY <2>4, <2>5, <2>6 DEF JobFields, OfObjects
    <2> QED BY <1>0, <1>3, <2>1, <2>5, <2>7, JobChanges DEF Functional
  <1> QED BY <1>0, <1>4, <1>5, <1>6, <1>7, <1>8, <1>9, <1>10 DEF K8sJobNext

-----------------------------------------------------------------------------
(* The CDNs: their configurations and revisions are read one by one into   *)
(* two sequences, and written back one by one.                              *)
OfCdns(f) == f = [c \in Cdns |-> f[c]]

CdnFields ==
  /\ remote = [conf |-> remote.conf, rev |-> remote.rev, stale |-> remote.stale, env |-> remote.env,
               made |-> remote.made]
  /\ OfCdns(remote.conf) /\ OfCdns(remote.rev) /\ OfCdns(remote.made)
  /\ \A c \in Cdns : /\ EditsFields(remote.conf[c]) /\ remote.rev[c] \in Nat
                     /\ remote.conf[c].edits = remote.made[c]

(* What was read of CDN c under revision rev.                               *)
ReadOfCdn(c, conf, rev) ==
  /\ EditsFields(conf) /\ rev \in Nat /\ rev <= remote.rev[c]
  /\ rev = remote.rev[c] => conf.edits = remote.conf[c].edits

CdnLocalFields(l) ==
  l \in [next : {l.next}, conf : {l.conf}, rev : {l.rev}, changed : {l.changed}, ids : {l.ids}]

ReadOfCdns(d) ==
  pc[d] \in {"get", "update"} =>
    /\ CdnLocalFields(local[d])
    /\ AnySequence(local[d].conf) /\ AnySequence(local[d].rev) /\ Len(local[d].rev) = Len(local[d].conf)
    /\ pc[d] = "get" => local[d].next \in Cdns /\ Len(local[d].conf) = local[d].next - 1
    /\ pc[d] = "update" => Len(local[d].conf) = app.cdns
    /\ \A c \in 1..Len(local[d].conf) : ReadOfCdn(c, local[d].conf[c], local[d].rev[c])

CdnInv ==
  IsCdn => app.cdns \in Nat /\ CdnFields /\ \A d \in Deploys : ReadOfCdns(d)

LEMMA CdnInvInit == CdnInit => CdnInv
PROOF
  <1> SUFFICES ASSUME CdnInit PROVE CdnInv
    OBVIOUS
  <1>1. app.cdns \in Nat
    <2>1. app \in CdnApps
      BY DEF CdnInit
    <2>2. app.cdns \in 0..MaxCdns
      BY <2>1 DEF CdnApps
    <2> QED BY <2>2
  <1>2. CdnFields
    <2>1. remote = [conf |-> [c \in Cdns |-> [version |-> Initially, edits |-> 0]], rev |-> [c \in Cdns |-> 0],
                    stale |-> [c \in Cdns |-> {}], env |-> Initially, made |-> [c \in Cdns |-> 0]]
      BY DEF CdnInit
    <2>2. /\ remote.conf = [c \in Cdns |-> [version |-> Initially, edits |-> 0]]
          /\ remote.rev = [c \in Cdns |-> 0] /\ remote.made = [c \in Cdns |-> 0]
          /\ remote = [conf |-> remote.conf, rev |-> remote.rev, stale |-> remote.stale, env |-> remote.env,
                       made |-> remote.made]
      BY <2>1
    <2>3. \A c \in Cdns : /\ remote.conf[c] = [version |-> Initially, edits |-> 0]
                          /\ remote.rev[c] = 0 /\ remote.made[c] = 0
      BY <2>2
    <2>4. \A c \in Cdns : EditsFields(remote.conf[c])
      BY <2>3 DEF EditsFields
    <2>5. OfCdns(remote.conf) /\ OfCdns(remote.rev) /\ OfCdns(remote.made)
      BY <2>2 DEF OfCdns
    <2> QED BY <2>2, <2>3, <2>4, <2>5 DEF CdnFields
  <1>3. \A d \in Deploys : ReadOfCdns(d)
    BY DEF CdnInit, DeployInit, ReadOfCdns
  <1> QED BY <1>1, <1>2, <1>3 DEF CdnInv

(* CDNs change with their revision only, and deploys go on with what they  *)
(* have read.                                                               *)
LEMMA CdnChanges ==
  ASSUME IsCdn, CdnInv, app' = app, CdnFields',
         \A c \in Cdns : \/ remote'.rev[c] = remote.rev[c] + 1
                         \/ remote'.rev[c] = remote.rev[c] /\ remote'.conf[c].edits = remote.conf[c].edits,
         \A e \in Deploys : pc'[e] \in {"get", "update"} =>
           /\ pc'[e] = pc[e] /\ CdnLocalFields(local'[e])
           /\ local'[e].conf = local[e].conf /\ local'[e].rev = local[e].rev
           /\ pc[e] = "get" => local'[e].next = local[e].next
  PROVE  CdnInv'
PROOF
  <1>1. app.cdns \in Nat /\ CdnFields /\ \A e \in Deploys : ReadOfCdns(e)
    BY DEF CdnInv
  <1>2. IsCdn' /\ Cdns' = Cdns
    BY DEF IsCdn, Cdns
  <1>3. ASSUME NEW e \in Deploys, pc'[e] \in {"get", "update"}
        PROVE  ReadOfCdns(e)'
    <2> DEFINE conf == local[e].conf
               rev == local[e].rev
    <2>1. /\ CdnLocalFields(local[e]) /\ AnySequence(conf) /\ AnySequence(rev) /\ Len(rev) = Len(conf)
          /\ pc[e] = "get" => local[e].next \in Cdns /\ Len(conf) = local[e].next - 1
          /\ pc[e] = "update" => Len(conf) = app.cdns
          /\ \A c \in 1..Len(conf) : ReadOfCdn(c, conf[c], rev[c])
          /\ pc'[e] = pc[e] /\ CdnLocalFields(local'[e]) /\ local'[e].conf = conf /\ local'[e].rev = rev
          /\ pc[e] = "get" => local'[e].next = local[e].next
      BY <1>1, <1>3 DEF ReadOfCdns
    <2> HIDE DEF conf, rev
    <2>2. 1..Len(conf) \subseteq Cdns
      BY <1>1, <1>3, <2>1 DEF Cdns
    <2>3. ASSUME NEW c \in 1..Len(conf)
          PROVE  /\ EditsFields(conf[c]) /\ rev[c] \in Nat /\ rev[c] <= remote'.rev[c]
                 /\ rev[c] = remote'.rev[c] => conf[c].edits = remote'.conf[c].edits
      BY <1>1, <2>1, <2>2 DEF ReadOfCdn, CdnFields
    <2> QED BY <1>2, <2>1, <2>3 DEF ReadOfCdns, ReadOfCdn
  <1>4. ASSUME NEW e \in Deploys PROVE ReadOfCdns(e)'
    <2>1. CASE pc'[e] \in {"get", "update"}
      BY <1>3, <2>1
    <2>2. CASE pc'[e] \notin {"get", "update"}
      BY <2>2 DEF ReadOfCdns
    <2> QED BY <2>1, <2>2
  <1> QED BY <1>1, <1>2, <1>4 DEF CdnInv

(* Deploy d goes on to other calls than reading and writing CDNs, or with  *)
(* what it has read.                                                        *)
LEMMA CdnMoves ==
  ASSUME IsCdn, CdnInv, NEW d \in Deploys, NEW to, NEW x, Moves(d, to, x),
         \/ to \notin {"get", "update"}
         \/ /\ to = "update" /\ pc[d] = "update" /\ CdnLocalFields(x)
            /\ x.conf = local[d].conf /\ x.rev = local[d].rev
  PROVE  /\ app' = app /\ Functional'
         /\ \A e \in Deploys : pc'[e] \in {"get", "update"} =>
              /\ pc'[e] = pc[e] /\ CdnLocalFields(local'[e])
              /\ local'[e].conf = local[e].conf /\ local'[e].rev = local[e].rev
              /\ pc[e] = "get" => local'[e].next = local[e].next
PROOF
  <1>1. \A e \in Deploys : pc[e] \in {"get", "update"} => CdnLocalFields(local[e])
    BY DEF CdnInv, ReadOfCdns
  <1> QED BY <1>1 DEF Moves

(* The provider's CDNs after a step that leaves configurations alone.       *)
LEMMA CdnsRest ==
  ASSUME IsCdn, CdnInv, app' = app,
         \/ UNCHANGED remote
         \/ \E stale, env : remote' = [remote EXCEPT !.env = env, !.stale = stale]
  PROVE  /\ CdnFields'
         /\ \A c \in Cdns : remote'.rev[c] = remote.rev[c] /\ remote'.conf[c].edits = remote.conf[c].edits
PROOF
  <1>1. CdnFields /\ Cdns' = Cdns
    BY DEF CdnInv, Cdns
  <1>2. PICK stale, env : remote' = [conf |-> remote.conf, rev |-> remote.rev, stale |-> stale, env |-> env,
                                     made |-> remote.made]
    <2>1. CASE UNCHANGED remote
      BY <1>1, <2>1 DEF CdnFields
    <2>2. CASE \E stale, env : remote' = [remote EXCEPT !.env = env, !.stale = stale]
      BY <1>1, <2>2 DEF CdnFields
    <2> QED BY <2>1, <2>2
  <1>3. /\ remote'.conf = remote.conf /\ remote'.rev = remote.rev /\ remote'.made = remote.made
        /\ remote' = [conf |-> remote'.conf, rev |-> remote'.rev, stale |-> remote'.stale, env |-> remote'.env,
                      made |-> remote'.made]
    BY <1>2
  <1> QED BY <1>1, <1>3 DEF CdnFields, OfCdns

(* CDN c gets a new configuration and, with it, a new revision.             *)
LEMMA CdnWritten ==
  ASSUME IsCdn, CdnInv, app' = app, NEW c \in Cdns, NEW new, NEW made, NEW stale, EditsFields(new),
         remote' = [conf |-> [remote.conf EXCEPT ![c] = new], rev |-> [remote.rev EXCEPT ![c] = @ + 1],
                    stale |-> stale, env |-> remote.env, made |-> made],
         OfCdns(made), new.edits = made[c], \A b \in Cdns : b # c => made[b] = remote.made[b]
  PROVE  /\ CdnFields'
         /\ \A b \in Cdns : \/ remote'.rev[b] = remote.rev[b] + 1
                            \/ remote'.rev[b] = remote.rev[b] /\ remote'.conf[b].edits = remote.conf[b].edits
PROOF
  <1>1. CdnFields /\ Cdns' = Cdns
    BY DEF CdnInv, Cdns
  <1>2. /\ remote' = [conf |-> remote'.conf, rev |-> remote'.rev, stale |-> remote'.stale, env |-> remote'.env,
                      made |-> remote'.made]
        /\ remote'.conf = [remote.conf EXCEPT ![c] = new] /\ remote'.rev = [remote.rev EXCEPT ![c] = @ + 1]
        /\ remote'.made = made
    OBVIOUS
  <1>3. ASSUME NEW b \in Cdns
        PROVE  /\ EditsFields(remote'.conf[b]) /\ remote'.conf[b].edits = remote'.made[b]
               /\ remote'.rev[b] \in Nat
               /\ \/ remote'.rev[b] = remote.rev[b] + 1
                  \/ remote'.rev[b] = remote.rev[b] /\ remote'.conf[b].edits = remote.conf[b].edits
    <2>1. /\ remote'.conf[b] = IF b = c THEN new ELSE remote.conf[b]
          /\ remote'.rev[b] = IF b = c THEN remote.rev[b] + 1 ELSE remote.rev[b]
      BY <1>1, <1>2 DEF CdnFields, OfCdns
    <2> QED BY <1>1, <1>2, <2>1 DEF CdnFields
  <1>4. OfCdns(remote'.conf) /\ OfCdns(remote'.rev) /\ OfCdns(remote'.made)
    BY <1>1, <1>2 DEF CdnFields, OfCdns
  <1>5. CdnFields'
    BY <1>1, <1>2, <1>3, <1>4 DEF CdnFields, OfCdns
  <1> QED BY <1>3, <1>5

(* Deploy d reads the CDN that is next.                                     *)
LEMMA ReadsCdnKeeps ==
  ASSUME IsCdn, CdnInv, Functional, NEW d \in Deploys, ReadsCdn(d)
  PROVE  CdnInv' /\ app' = app /\ Functional'
PROOF
  <1> DEFINE l == local[d]
             c == l.next
             next == IF c = app.cdns THEN 1 ELSE c + 1
             to == IF c = app.cdns THEN "update" ELSE "get"
             conf == Append(l.conf, remote.conf[c])
             rev == Append(l.rev, remote.rev[c])
             read == [l EXCEPT !.next = next, !.conf = conf, !.rev = rev]
  <1>0. app.cdns \in Nat /\ CdnFields /\ \A e \in Deploys : ReadOfCdns(e)
    BY DEF CdnInv
  <1>1. /\ CdnLocalFields(l) /\ AnySequence(l.conf) /\ AnySequence(l.rev) /\ Len(l.rev) = Len(l.conf)
        /\ c \in 1..app.cdns /\ Len(l.conf) = c - 1
        /\ \A b \in 1..Len(l.conf) : ReadOfCdn(b, l.conf[b], l.rev[b])
    BY <1>0 DEF ReadsCdn, ReadOfCdns, Cdns
  <1>2. UNCHANGED remote /\ Moves(d, to, read)
    BY GoesMoves DEF ReadsCdn
  <1>3. /\ AnySequence(conf) /\ AnySequence(rev) /\ Len(conf) = c /\ Len(rev) = c
        /\ conf[c] = remote.conf[c] /\ rev[c] = remote.rev[c]
        /\ \A b \in 1..(c - 1) : conf[b] = l.conf[b] /\ rev[b] = l.rev[b]
    <2>1. /\ AnySequence(conf) /\ Len(conf) = Len(l.conf) + 1 /\ conf[Len(l.conf) + 1] = remote.conf[c]
          /\ \A b \in 1..Len(l.conf) : conf[b] = l.conf[b]
      BY <1>1, SequenceGrows
    <2>2. /\ AnySequence(rev) /\ Len(rev) = Len(l.rev) + 1 /\ rev[Len(l.rev) + 1] = remote.rev[c]
          /\ \A b \in 1..Len(l.rev) : rev[b] = l.rev[b]
      BY <1>1, SequenceGrows
    <2> HIDE DEF conf, rev, l
    <2> QED BY <1>1, <2>1, <2>2 DEF c
  <1>4. \A b \in 1..c : ReadOfCdn(b, conf[b], rev[b])
    <2>1. ReadOfCdn(c, remote.conf[c], remote.rev[c])
      BY <1>0, <1>1 DEF CdnFields, ReadOfCdn, Cdns
    <2> HIDE DEF conf, rev, l
    <2>2. ASSUME NEW b \in 1..c PROVE ReadOfCdn(b, conf[b], rev[b])
      <3>1. c \in Nat
        BY <1>1
      <3>2. CASE b = c
        BY <1>3, <2>1, <3>2
      <3>3. CASE b # c
        BY <1>1, <1>3, <3>1, <3>3
      <3> QED BY <3>2, <3>3
    <2> QED BY <2>2
  <1>5. CdnLocalFields(read) /\ read.next = next /\ read.conf = conf /\ read.rev = rev
    <2> HIDE DEF l, next, conf, rev
    <2> QED BY <1>1 DEF CdnLocalFields
  <1>6. next \in Nat /\ (to = "get" => next \in Cdns /\ c = next - 1) /\ (to = "update" => c = app.cdns)
        /\ to \in {"get", "update"}
    <2> HIDE DEF l
    <2> QED BY <1>0, <1>1 DEF Cdns
  <1>7. app' = app /\ Functional' /\ CdnFields'
    BY <1>2, CdnsRest DEF Moves
  <1>8. ASSUME NEW e \in Deploys PROVE ReadOfCdns(e)'
    <2>1. CASE e = d
      <3> HIDE DEF l, conf, rev, next, read, to, c
      <3>1. local'[d] = read /\ pc'[d] = to /\ UNCHANGED <<app, remote>> /\ Cdns' = Cdns
        BY <1>2 DEF Moves, Cdns
      <3>2. \A b \in 1..c : ReadOfCdn(b, local'[d].conf[b], local'[d].rev[b])
        BY <1>4, <1>5, <3>1
      <3> QED BY <1>3, <1>5, <1>6, <2>1, <3>1, <3>2 DEF ReadOfCdns, ReadOfCdn
    <2>2. CASE e # d
      <3>1. pc'[e] = pc[e] /\ local'[e] = local[e] /\ UNCHANGED <<app, remote>> /\ ReadOfCdns(e)
        BY <1>0, <1>2, <2>2 DEF Moves
      <3> QED BY <3>1 DEF ReadOfCdns, ReadOfCdn, Cdns
    <2> QED BY <2>1, <2>2
  <1> QED BY <1>0, <1>7, <1>8 DEF CdnInv

LEMMA CdnStartsKeeps ==
  ASSUME IsCdn, CdnInv, Functional, NEW d \in Deploys, CdnStarts(d)
  PROVE  CdnInv' /\ app' = app /\ Functional'
PROOF
  <1> DEFINE read == [next |-> 1, conf |-> <<>>, rev |-> <<>>, changed |-> FALSE, ids |-> <<>>]
             to == IF Cdns = {} THEN "update" ELSE "get"
  <1>0. app.cdns \in Nat /\ CdnFields /\ \A e \in Deploys : ReadOfCdns(e)
    BY DEF CdnInv
  <1>1. UNCHANGED remote /\ Moves(d, to, read)
    BY GoesMoves DEF CdnStarts
  <1>2. /\ CdnLocalFields(read) /\ AnySequence(read.conf) /\ AnySequence(read.rev) /\ Len(read.conf) = 0
        /\ Len(read.rev) = 0 /\ read.next = 1
    <2>1. AnySequence(<<>>)
      <3>1. <<>> \in Seq({})
        OBVIOUS
      <3> QED BY <3>1 DEF AnySequence
    <2> QED BY <2>1 DEF CdnLocalFields
  <1>3. to \in {"get", "update"} /\ (to = "get" => 1 \in Cdns) /\ (to = "update" => app.cdns = 0)
    <2>1. CASE Cdns = {}
      <3>1. ~ 1 <= app.cdns
        BY <1>0, <2>1 DEF Cdns
      <3> QED BY <1>0, <2>1, <3>1
    <2>2. CASE Cdns # {}
      <3>1. PICK c : c \in Cdns
        BY <2>2
      <3> QED BY <1>0, <2>2, <3>1 DEF Cdns
    <2> QED BY <2>1, <2>2
  <1>4. app' = app /\ Functional' /\ CdnFields'
    BY <1>1, CdnsRest DEF Moves
  <1>5. ASSUME NEW e \in Deploys PROVE ReadOfCdns(e)'
    <2>1. CASE e = d
      <3> HIDE DEF read, to
      <3>1. local'[d] = read /\ pc'[d] = to /\ UNCHANGED <<app, remote>> /\ Cdns' = Cdns
        BY <1>1 DEF Moves, Cdns
      <3> QED BY <1>2, <1>3, <2>1, <3>1 DEF ReadOfCdns
    <2>2. CASE e # d
      <3>1. pc'[e] = pc[e] /\ local'[e] = local[e] /\ UNCHANGED <<app, remote>> /\ ReadOfCdns(e)
        BY <1>0, <1>1, <2>2 DEF Moves
      <3> QED BY <3>1 DEF ReadOfCdns, ReadOfCdn, Cdns
    <2> QED BY <2>1, <2>2
  <1> QED BY <1>0, <1>4, <1>5 DEF CdnInv

(* Deploy d writes the CDN that is next, or is refused.                     *)
LEMMA WritesCdnKeeps ==
  ASSUME IsCdn, CdnInv, Functional, NEW d \in Deploys, WritesCdn(d)
  PROVE  CdnInv' /\ app' = app /\ Functional'
PROOF
  <1> DEFINE l == local[d]
             c == l.next
             conf == l.conf[c]
             new == [conf EXCEPT !.version = version[d]]
             stale == [remote.stale EXCEPT ![c] = @ \cup {d}]
             next == c + 1
             read == [l EXCEPT !.next = next, !.changed = TRUE]
  <1>0. app.cdns \in Nat /\ CdnFields /\ \A e \in Deploys : ReadOfCdns(e)
    BY DEF CdnInv
  <1>1. pc[d] = "update" /\ c \in Cdns /\ CdnLocalFields(l) /\ ReadOfCdn(c, conf, l.rev[c])
    BY <1>0 DEF WritesCdn, ReadOfCdns, Cdns
  <1>2. CdnLocalFields(read) /\ read.conf = l.conf /\ read.rev = l.rev
    <2> HIDE DEF l, next
    <2> QED BY <1>1 DEF CdnLocalFields
  <1>3. Moves(d, "returned", Nothing) \/ Moves(d, "update", read)
    BY EndsMove, GoesMoves DEF WritesCdn
  <1>4. /\ app' = app /\ Functional'
        /\ \A e \in Deploys : pc'[e] \in {"get", "update"} =>
             /\ pc'[e] = pc[e] /\ CdnLocalFields(local'[e])
             /\ local'[e].conf = local[e].conf /\ local'[e].rev = local[e].rev
             /\ pc[e] = "get" => local'[e].next = local[e].next
    <2>1. CASE Moves(d, "returned", Nothing)
      BY <2>1, CdnMoves
    <2>2. CASE Moves(d, "update", read)
      <3> HIDE DEF read
      <3> QED BY <1>1, <1>2, <2>2, CdnMoves
    <2> QED BY <1>3, <2>1, <2>2
  <1>5. CASE UNCHANGED remote
    BY <1>4, <1>5, CdnsRest, CdnChanges
  <1>6. CASE remote.rev[c] = l.rev[c]
    <2>1. EditsFields(conf) /\ conf.edits = remote.conf[c].edits
      BY <1>1, <1>6 DEF ReadOfCdn
    <2>2. EditsFields(new) /\ new.edits = remote.conf[c].edits
      <3> HIDE DEF conf
      <3> QED BY <2>1 DEF EditsFields
    <2>3. remote' = [conf |-> [remote.conf EXCEPT ![c] = new], rev |-> [remote.rev EXCEPT ![c] = @ + 1],
                     stale |-> stale, env |-> remote.env, made |-> remote.made]
      BY <1>0, <1>6 DEF WritesCdn, CdnFields
    <2>4. OfCdns(remote.made) /\ new.edits = remote.made[c]
      BY <1>0, <1>1, <2>2 DEF CdnFields
    <2> HIDE DEF new, stale
    <2>5. /\ CdnFields'
          /\ \A b \in Cdns : \/ remote'.rev[b] = remote.rev[b] + 1
                             \/ remote'.rev[b] = remote.rev[b] /\ remote'.conf[b].edits = remote.conf[b].edits
      BY <1>1, <1>4, <2>2, <2>3, <2>4, CdnWritten
    <2> QED BY <1>4, <2>5, CdnChanges
  <1> QED BY <1>5, <1>6 DEF WritesCdn

(* The steps of a deploy that leave the configurations alone.               *)
LEMMA CdnRestKeeps ==
  ASSUME IsCdn, CdnInv, Functional, NEW d \in Deploys,
         \/ NoCdns(d) \/ CdnNoVersion(d) \/ SkipCdn(d) \/ UpdatesEnd(d) \/ PutEnvVars(d) \/ PutEnvVarsObject(d)
         \/ DropsCache(d) \/ RepeatsRequestId(d) \/ Deployed(d) \/ CdnCallFails(d)
  PROVE  CdnInv' /\ app' = app /\ Functional'
PROOF
  <1>0. CdnFields /\ \A e \in Deploys : ReadOfCdns(e)
    BY DEF CdnInv
  <1>1. \/ UNCHANGED remote
        \/ \E stale, env : remote' = [remote EXCEPT !.env = env, !.stale = stale]
    <2>1. CASE StoresEnv(d)
      BY <2>1 DEF StoresEnv
    <2>2. CASE DropsCache(d)
      <3>1. remote' = [remote EXCEPT !.env = remote.env, !.stale = [remote.stale EXCEPT ![local[d].next] = {}]]
        BY <1>0, <2>2 DEF DropsCache, CdnFields
      <3> QED BY <3>1
    <2> QED BY <2>1, <2>2 DEF NoCdns, CdnNoVersion, NoVersionGiven, SkipCdn, UpdatesEnd, PutEnvVars,
                              PutEnvVarsObject, RepeatsRequestId, Deployed, CdnCallFails
  <1>2. \/ \E to \in {"returned", "putEnv", "purge"} : \E x : Moves(d, to, x)
        \/ SkipCdn(d)
    <2>1. ASSUME PutEnvVarsObject(d)
          PROVE  \E x : Moves(d, "purge", x)
      <3>1. CASE EnvStored(d)
        BY <3>1, GoesMoves DEF EnvStored
      <3>2. CASE ~EnvStored(d)
        BY <2>1, <3>2 DEF PutEnvVarsObject, Moves, Functional
      <3> QED BY <3>1, <3>2
    <2>2. ASSUME UpdatesEnd(d)
          PROVE  \E to \in {"putEnv", "purge"} : \E x : Moves(d, to, x)
      BY <2>2, GoesMoves DEF UpdatesEnd
    <2>3. ASSUME DropsCache(d) \/ RepeatsRequestId(d) \/ PutEnvVars(d)
          PROVE  \E to \in {"returned", "purge"} : \E x : Moves(d, to, x)
      BY <2>3, GoesMoves, EndsMove DEF DropsCache, RepeatsRequestId, InvalidationCreated, PutEnvVars, EnvStored
    <2>4. ASSUME NoCdns(d) \/ CdnNoVersion(d) \/ Deployed(d) \/ CdnCallFails(d)
          PROVE  Moves(d, "returned", Nothing)
      BY <2>4, EndsMove DEF NoCdns, CdnNoVersion, NoVersionGiven, Deployed, CdnCallFails
    <2> QED BY <2>1, <2>2, <2>3, <2>4
  <1>3. /\ app' = app /\ Functional'
        /\ \A e \in Deploys : pc'[e] \in {"get", "update"} =>
             /\ pc'[e] = pc[e] /\ CdnLocalFields(local'[e])
             /\ local'[e].conf = local[e].conf /\ local'[e].rev = local[e].rev
             /\ pc[e] = "get" => local'[e].next = local[e].next
    <2>1. CASE \E to \in {"returned", "putEnv", "purge"} : \E x : Moves(d, to, x)
      BY <2>1, CdnMoves
    <2>2. CASE SkipCdn(d)
      <3> DEFINE l == local[d]
                 next == l.next + 1
                 read == [l EXCEPT !.next = next]
      <3>1. pc[d] = "update" /\ CdnLocalFields(l) /\ Moves(d, "update", read)
        BY <1>0, <2>2, GoesMoves DEF SkipCdn, ReadOfCdns
      <3>2. CdnLocalFields(read) /\ read.conf = l.conf /\ read.rev = l.rev
        <4> HIDE DEF l, next
        <4> QED BY <3>1 DEF CdnLocalFields
      <3> HIDE DEF read
      <3> QED BY <3>1, <3>2, CdnMoves
    <2> QED BY <1>2, <2>1, <2>2
  <1> QED BY <1>1, <1>3, CdnsRest, CdnChanges

LEMMA OthersEditKeeps ==
  ASSUME IsCdn, CdnInv, Functional, NEW c \in Cdns, OthersEdit(c)
  PROVE  CdnInv' /\ app' = app /\ Functional'
PROOF
  <1> DEFINE new == [remote.conf[c] EXCEPT !.edits = @ + 1]
             made == [remote.made EXCEPT ![c] = @ + 1]
  <1>0. CdnFields /\ \A e \in Deploys : ReadOfCdns(e)
    BY DEF CdnInv
  <1>1. app' = app /\ pc' = pc /\ local' = local
    BY DEF OthersEdit
  <1>2. remote' = [conf |-> [remote.conf EXCEPT ![c] = new], rev |-> [remote.rev EXCEPT ![c] = @ + 1],
                   stale |-> remote.stale, env |-> remote.env, made |-> made]
    BY <1>0 DEF OthersEdit, CdnFields
  <1>3. EditsFields(new) /\ new.edits = remote.conf[c].edits + 1
    BY <1>0 DEF CdnFields, EditsFields
  <1>4. OfCdns(made) /\ new.edits = made[c] /\ \A b \in Cdns : b # c => made[b] = remote.made[b]
    <2> HIDE DEF new
    <2> QED BY <1>0, <1>3 DEF CdnFields, OfCdns
  <1> HIDE DEF new, made
  <1>5. /\ CdnFields'
        /\ \A b \in Cdns : \/ remote'.rev[b] = remote.rev[b] + 1
                           \/ remote'.rev[b] = remote.rev[b] /\ remote'.conf[b].edits = remote.conf[b].edits
    BY <1>1, <1>2, <1>3, <1>4, CdnWritten
  <1>6. \A e \in Deploys : pc[e] \in {"get", "update"} => CdnLocalFields(local[e])
    BY <1>0 DEF ReadOfCdns
  <1> QED BY <1>1, <1>5, <1>6, CdnChanges DEF Functional

LEMMA CdnStepKeeps ==
  ASSUME CdnInv, Functional, CdnNext
  PROVE  CdnInv' /\ app' = app /\ Functional'
PROOF
  <1>1. IsCdn
    BY DEF CdnNext, IsCdn
  <1> QED
    BY <1>1, CdnStartsKeeps, ReadsCdnKeeps, WritesCdnKeeps, CdnRestKeeps, OthersEditKeeps
    DEF CdnNext, CdnStep, GetCdns, GetUrlMaps, UpdateCdnVersion, UpdateUrlMapVersion, CreateInvalidation,
        InvalidateCache

-----------------------------------------------------------------------------
(* The app is of one kind for good, so that a step of one module's deploys *)
(* leaves alone what the others claim.                                      *)
Changing == IsCdn \/ IsObject \/ IsDefinition \/ IsLambda \/ IsK8sJob
Storing == IsArtifact \/ IsPush \/ IsImage

LEMMA KindsExclusive ==
  /\ IsCdn => ~(IsObject \/ IsDefinition \/ IsLambda \/ IsK8sJob)
  /\ IsObject => ~(IsDefinition \/ IsLambda \/ IsK8sJob)
  /\ IsDefinition => ~(IsLambda \/ IsK8sJob)
  /\ ~(IsLambda /\ IsK8sJob)
  /\ Storing => ~Changing
PROOF
  <1>1. IsObject <=> app.kind \in {"cloudrun", "cloudrunjob", "functions", "composer", "aca", "acajob", "k8s"}
    BY DEF IsObject, ObjectKinds, Platforms
  <1>2. IsPush <=> app.kind \in {"s3zip", "s3dir", "gcszip", "gcsdir", "blobzip", "blobdir", "ebzip", "dags"}
    BY DEF IsPush, PusherKinds, Pushers
  <1>3. IsImage <=> app.kind \in {"ecr", "gar", "acr"}
    BY DEF IsImage, Registries
  <1> QED BY <1>1, <1>2, <1>3 DEF IsCdn, IsDefinition, IsLambda, IsK8sJob, IsArtifact, Storing, Changing

LEMMA AppKept ==
  ASSUME ArtifactNext \/ PushNext \/ ImageNext
  PROVE  app' = app /\ Storing
PROOF
  <1>1. /\ \A d, to, x : Goes(d, to, x) => app' = app
        /\ \A d : GivesUp(d) => app' = app
        /\ \A d : CallFails(d) => app' = app
        /\ \A d, ref : Succeeds(d, ref) => app' = app
    BY DEF Goes, GivesUp, CallFails, Succeeds, Returns
  <1>2. CASE ArtifactNext
    BY <1>1, <1>2
    DEF ArtifactNext, ArtifactNoVersion, NoVersionGiven, BeanstalkStarts, GetApplicationVersion, Delay, PollsOver,
        UpdateEnvironment, ZipDeploy, SyncFunctionTriggers, Restart, NoCdnAttached, BeginPurgeContent, PurgeEnds,
        ArtifactCallFails, VersionProcessed, Storing
  <1>3. CASE PushNext
    <2>1. /\ \A d, f : Stores(d, f) => app' = app
          /\ \A d, keys : Pulls(d, keys) => app' = app
          /\ \A d, key : PullsZip(d, key) => app' = app
          /\ \A d, prefix : PullsDir(d, prefix) => app' = app
      BY <1>1 DEF Stores, Pulls, PullsZip, PullsDir
    <2>2. /\ \A d, f : S3Upload(d, f) \/ GcsUpload(d, f) \/ DagUpload(d, f) \/ BlobZipUpload(d, f) \/ BlobDirUpload(d, f)
                         => app' = app
          /\ \A d, k : DeleteUnmatched(d, k) \/ Download(d, k) => app' = app
      BY <1>1, <2>1 DEF S3Upload, GcsUpload, DagUpload, BlobZipUpload, BlobDirUpload, DeleteUnmatched, Download
    <2>3. \A d : \/ PushRejected(d) \/ WalkDir(d) \/ Uploaded(d) \/ ListUnmatched(d) \/ SyncComplete(d)
                 \/ CreateAppVersion(d) \/ Pulled(d) \/ ListArtifactVersions(d) \/ PushCallFails(d)
                 => app' = app
      BY <1>1 DEF PushRejected, WalkDir, Uploaded, ListUnmatched, SyncComplete, CreateAppVersion, Pulled,
                  ListArtifactVersions, PushCallFails
    <2>4. \A d : \/ DownloadS3Zip(d) \/ DownloadGcsZip(d) \/ DownloadBlobZip(d) \/ DownloadS3Dir(d)
                 \/ DownloadGcsDir(d) \/ DownloadBlobDir(d) \/ DownloadDags(d)
                 => app' = app
      BY <2>1 DEF DownloadS3Zip, DownloadGcsZip, DownloadBlobZip, DownloadS3Dir, DownloadGcsDir, DownloadBlobDir,
                  DownloadDags
    <2> QED BY <1>3, <2>2, <2>3, <2>4 DEF PushNext, Storing
  <1>4. CASE ImageNext
    BY <1>1, <1>4
    DEF ImageNext, ImageRejected, LoginAuth, ExchangeForAccessToken, ImageTagged, PushImage, PullImage, TagsPage,
        ImageCallFails, Storing
  <1> QED BY <1>2, <1>3, <1>4

-----------------------------------------------------------------------------
DeployersInv ==
  /\ CdnInv /\ ObjectInv /\ DefinitionInv /\ FunctionInv /\ JobInv
  /\ Changing => Functional

LEMMA DeployersInvInit == Init => DeployersInv
PROOF
  <1> SUFFICES ASSUME Init PROVE DeployersInv
    OBVIOUS
  <1>1. Functional
    BY DEF Init, CdnInit, ObjectInit, DefinitionInit, LambdaInit, K8sJobInit, ArtifactInit, PushInit, ImageInit,
           DeployInit, Functional
  <1>2. CASE CdnInit
    <2>1. IsCdn
      BY <1>2 DEF CdnInit, CdnApps, IsCdn
    <2> QED BY <1>1, <1>2, <2>1, KindsExclusive, CdnInvInit
            DEF DeployersInv, ObjectInv, DefinitionInv, FunctionInv, JobInv
  <1>3. CASE ObjectInit
    <2>1. IsObject
      <3>1. app \in ObjectApps
        BY <1>3 DEF ObjectInit
      <3> QED BY <3>1 DEF ObjectApps, IsObject
    <2> QED BY <1>1, <1>3, <2>1, KindsExclusive, ObjectInvInit
            DEF DeployersInv, CdnInv, DefinitionInv, FunctionInv, JobInv
  <1>4. CASE DefinitionInit
    <2>1. IsDefinition
      <3>1. app \in DefinitionApps
        BY <1>4 DEF DefinitionInit
      <3> QED BY <3>1 DEF DefinitionApps, IsDefinition
    <2> QED BY <1>1, <1>4, <2>1, KindsExclusive, DefinitionInvInit
            DEF DeployersInv, CdnInv, ObjectInv, FunctionInv, JobInv
  <1>5. CASE LambdaInit
    <2>1. IsLambda
      BY <1>5 DEF LambdaInit, LambdaApps, IsLambda
    <2> QED BY <1>1, <1>5, <2>1, KindsExclusive, FunctionInvInit
            DEF DeployersInv, CdnInv, ObjectInv, DefinitionInv, JobInv
  <1>6. CASE K8sJobInit
    <2>1. IsK8sJob
      BY <1>6 DEF K8sJobInit, JobApps, IsK8sJob
    <2> QED BY <1>1, <1>6, <2>1, KindsExclusive, JobInvInit
            DEF DeployersInv, CdnInv, ObjectInv, DefinitionInv, FunctionInv
  <1>7. CASE ArtifactInit \/ PushInit \/ ImageInit
    <2>1. ASSUME ArtifactInit PROVE Storing
      <3>1. app \in ArtifactApps
        BY <2>1 DEF ArtifactInit
      <3>2. app.kind \in {"beanstalk", "azurefunctions", "blob"}
        BY <3>1 DEF ArtifactApps
      <3> QED BY <3>2 DEF IsArtifact, Storing
    <2>2. ASSUME PushInit PROVE Storing
      <3>1. app \in PushApps
        BY <2>2, Zenon DEF PushInit
      <3>2. app.kind \in PusherKinds
        <4> HIDE DEF PusherKinds
        <4> QED BY <3>1 DEF PushApps
      <3> QED BY <3>2 DEF IsPush, Storing
    <2>3. ASSUME ImageInit PROVE Storing
      <3>1. app \in ImageApps
        BY <2>3, Zenon DEF ImageInit
      <3>2. app.kind \in DOMAIN Registries
        BY <3>1 DEF ImageApps
      <3> QED BY <3>2 DEF IsImage, Storing
    <2>4. Storing
      BY <1>7, <2>1, <2>2, <2>3
    <2> QED BY <2>4, KindsExclusive
            DEF DeployersInv, CdnInv, ObjectInv, DefinitionInv, FunctionInv, JobInv, Changing
  <1> QED BY <1>2, <1>3, <1>4, <1>5, <1>6, <1>7 DEF Init

(* Deploys that are run again, and steps that change nothing.               *)
LEMMA RestartsKeep ==
  ASSUME DeployersInv, UNCHANGED <<app, remote>>, Changing => Functional',
         \A e \in Deploys : pc'[e] = "start" \/ (pc'[e] = pc[e] /\ local'[e] = local[e])
  PROVE  DeployersInv'
PROOF
  <1>1. CdnInv'
    BY DEF DeployersInv, CdnInv, IsCdn, CdnFields, OfCdns, Cdns, ReadOfCdns, ReadOfCdn
  <1>2. ObjectInv'
    BY DEF DeployersInv, ObjectInv, IsObject, ObjectFields, Kept, Platform, ReadOfObject
  <1>3. DefinitionInv'
    BY DEF DeployersInv, DefinitionInv, IsDefinition, Revisions, ReadOfDefinition
  <1>4. FunctionInv'
    BY DEF DeployersInv, FunctionInv, IsLambda, FunctionFields, ReadOfFunction
  <1>5. JobInv'
    BY DEF DeployersInv, JobInv, IsK8sJob, JobFields, OfObjects, Objects, CronJobs, ReadOfJob, ReadOf
  <1> QED BY <1>1, <1>2, <1>3, <1>4, <1>5
          DEF DeployersInv, Changing, IsCdn, IsObject, IsDefinition, IsLambda, IsK8sJob

LEMMA DeployersInvNext ==
  ASSUME DeployersInv, [Next]_deployVars
  PROVE  DeployersInv'
PROOF
  <1>1. CASE CdnNext
    <2>1. IsCdn
      BY <1>1 DEF CdnNext, IsCdn
    <2>2. CdnInv' /\ app' = app /\ Functional' /\ IsCdn'
      BY <1>1, <2>1, CdnStepKeeps DEF DeployersInv, Changing, IsCdn
    <2> QED BY <2>1, <2>2, KindsExclusive
            DEF DeployersInv, ObjectInv, DefinitionInv, FunctionInv, JobInv, IsObject, IsDefinition, IsLambda, IsK8sJob
  <1>2. CASE ObjectNext
    <2>1. IsObject
      BY <1>2 DEF ObjectNext
    <2>2. ObjectInv' /\ app' = app /\ Functional'
      BY <1>2, <2>1, ObjectStep DEF DeployersInv, Changing
    <2> QED BY <2>1, <2>2, KindsExclusive
            DEF DeployersInv, CdnInv, DefinitionInv, FunctionInv, JobInv, IsCdn, IsDefinition, IsLambda, IsK8sJob
  <1>3. CASE DefinitionNext
    <2>1. IsDefinition
      BY <1>3 DEF DefinitionNext
    <2>2. DefinitionInv' /\ app' = app /\ Functional'
      BY <1>3, <2>1, DefinitionStepKeeps DEF DeployersInv, Changing
    <2> QED BY <2>1, <2>2, KindsExclusive
            DEF DeployersInv, CdnInv, ObjectInv, FunctionInv, JobInv, IsCdn, IsObject, IsLambda, IsK8sJob
  <1>4. CASE LambdaNext
    <2>1. IsLambda
      BY <1>4 DEF LambdaNext
    <2>2. FunctionInv' /\ app' = app /\ Functional'
      BY <1>4, <2>1, FunctionStepKeeps DEF DeployersInv, Changing
    <2> QED BY <2>1, <2>2, KindsExclusive
            DEF DeployersInv, CdnInv, ObjectInv, DefinitionInv, JobInv, IsCdn, IsObject, IsDefinition, IsK8sJob
  <1>5. CASE K8sJobNext
    <2>1. IsK8sJob
      BY <1>5 DEF K8sJobNext
    <2>2. JobInv' /\ app' = app /\ Functional'
      BY <1>5, <2>1, JobStepKeeps DEF DeployersInv, Changing
    <2> QED BY <2>1, <2>2, KindsExclusive
            DEF DeployersInv, CdnInv, ObjectInv, DefinitionInv, FunctionInv, IsCdn, IsObject, IsDefinition, IsLambda
  <1>6. CASE ArtifactNext \/ PushNext \/ ImageNext
    <2>1. app' = app /\ ~Changing
      BY <1>6, AppKept, KindsExclusive
    <2>2. ~(IsCdn \/ IsObject \/ IsDefinition \/ IsLambda \/ IsK8sJob)'
      BY <2>1 DEF Changing, IsCdn, IsObject, IsDefinition, IsLambda, IsK8sJob
    <2> QED BY <2>2 DEF DeployersInv, Changing, CdnInv, ObjectInv, DefinitionInv, FunctionInv, JobInv
  <1>7. ASSUME NEW d \in Deploys, Retries(d)
        PROVE  DeployersInv'
    <2>1. UNCHANGED <<app, remote, local>> /\ pc' = [pc EXCEPT ![d] = "start"]
      BY <1>7 DEF Retries
    <2>2. Changing => Functional' /\ \A e \in Deploys : pc'[e] = "start" \/ pc'[e] = pc[e]
      BY <2>1 DEF DeployersInv, Functional
    <2>3. CASE Changing
      BY <2>1, <2>2, <2>3, RestartsKeep
    <2>4. CASE ~Changing
      <3>1. ~(IsCdn \/ IsObject \/ IsDefinition \/ IsLambda \/ IsK8sJob)'
        BY <2>1, <2>4 DEF Changing, IsCdn, IsObject, IsDefinition, IsLambda, IsK8sJob
      <3> QED BY <3>1 DEF DeployersInv, Changing, CdnInv, ObjectInv, DefinitionInv, FunctionInv, JobInv
    <2> QED BY <2>3, <2>4
  <1>8. CASE AllReturned \/ UNCHANGED deployVars
    <2>1. UNCHANGED <<app, remote, pc, local>>
      BY <1>8 DEF AllReturned, deployVars
    <2>2. Changing => Functional'
      BY <2>1 DEF DeployersInv, Functional
    <2> QED BY <2>1, <2>2, RestartsKeep
  <1> QED BY <1>1, <1>2, <1>3, <1>4, <1>5, <1>6, <1>7, <1>8 DEF Next

(* Whatever the number of deploys, versions, edits, failures and repeated  *)
(* runs: wherever the provider offers a lock, what others changed between  *)
(* the read and the write of a deploy is kept (EditsKept, ObjectEditsKept, *)
(* FunctionEditsKept, JobEditsKept).                                       *)
THEOREM EditsAreKept == Spec => []EditsOfOthersKept
PROOF
  <1>1. DeployersInv => EditsOfOthersKept
    BY DEF DeployersInv, EditsOfOthersKept, EditsKept, ObjectEditsKept, FunctionEditsKept, JobEditsKept, CdnInv,
           CdnFields, ObjectInv, Kept, FunctionInv, JobInv, JobFields
  <1> QED BY <1>1, DeployersInvInit, DeployersInvNext, PTL DEF Spec

(* ECS and Batch: at any moment of any number of deploys, with whatever    *)
(* failures, each inactive revision has a newer active one.                *)
THEOREM NewerIsActive == Spec => []RetiredOnlyForNewer
PROOF
  <1>1. DeployersInv => RetiredOnlyForNewer
    <2> SUFFICES ASSUME DeployersInv, IsDefinition
                 PROVE  \A i \in DOMAIN remote.defs :
                          remote.defs[i].active \/ \E j \in DOMAIN remote.defs : j > i /\ remote.defs[j].active
      BY DEF RetiredOnlyForNewer
    <2>1. Revisions /\ Replaced(remote.defs)
      BY DEF DeployersInv, DefinitionInv
    <2>2. DOMAIN remote.defs = 1..Len(remote.defs)
      BY <2>1, SequenceDomain DEF Revisions
    <2> QED BY <2>1, <2>2 DEF Replaced
  <1> QED BY <1>1, DeployersInvInit, DeployersInvNext, PTL DEF Spec

(* Every deployer: what any step keeps.                                     *)
Shape ==
  /\ pc = [d \in Deploys |-> pc[d]] /\ local = [d \in Deploys |-> local[d]]
  /\ result = [d \in Deploys |-> result[d]] /\ reference = [d \in Deploys |-> reference[d]]
  /\ attempt = [d \in Deploys |-> attempt[d]]

(* How often each deploy was run again.                                    *)
Tried == attempt \in [Deploys -> Nat]

Frame == app' = app /\ version' = version /\ Shape' /\ (Tried => Tried')

LEMMA CallsFrame ==
  ASSUME Shape
  PROVE  /\ \A d, to, x : Goes(d, to, x) => Frame
         /\ \A d : GivesUp(d) => Frame
         /\ \A d : CallFails(d) => Frame
         /\ \A d, ref : Succeeds(d, ref) => Frame
         /\ \A d, res, ref : Returns(d, res, ref) => Frame
PROOF
  <1>1. ASSUME NEW d, NEW to, NEW x, Goes(d, to, x) PROVE Frame
    BY <1>1 DEF Goes, Shape, Frame, Tried
  <1>2. ASSUME NEW d, NEW res, NEW ref, Returns(d, res, ref) PROVE Frame
    BY <1>2 DEF Returns, Shape, Frame, Tried
  <1> QED BY <1>1, <1>2 DEF GivesUp, CallFails, Succeeds

LEMMA CdnFrame ==
  ASSUME Shape, CdnNext PROVE Frame
PROOF
  <1>1. ASSUME NEW d, NoCdns(d) \/ CdnNoVersion(d) \/ CdnStarts(d) \/ GetCdns(d) \/ GetUrlMaps(d) \/ SkipCdn(d)
        PROVE Frame
    BY <1>1, CallsFrame DEF NoCdns, CdnNoVersion, NoVersionGiven, CdnStarts, GetCdns, GetUrlMaps, ReadsCdn, SkipCdn
  <1>2. ASSUME NEW d, UpdateCdnVersion(d) \/ UpdateUrlMapVersion(d) \/ UpdatesEnd(d) \/ PutEnvVars(d) PROVE Frame
    BY <1>2, CallsFrame DEF UpdateCdnVersion, UpdateUrlMapVersion, WritesCdn, UpdatesEnd, PutEnvVars, EnvStored
  <1>3. ASSUME NEW d, PutEnvVarsObject(d) PROVE Frame
    <2>1. CASE EnvStored(d)
      BY <2>1, CallsFrame DEF EnvStored
    <2>2. CASE ~EnvStored(d)
      BY <1>3, <2>2 DEF PutEnvVarsObject, Shape, Frame, Tried
    <2> QED BY <2>1, <2>2
  <1>4. ASSUME NEW d, CreateInvalidation(d) \/ InvalidateCache(d) \/ Deployed(d) \/ CdnCallFails(d) PROVE Frame
    BY <1>4, CallsFrame
    DEF CreateInvalidation, InvalidateCache, DropsCache, RepeatsRequestId, InvalidationCreated, Deployed, CdnCallFails
  <1>5. ASSUME NEW c, OthersEdit(c) PROVE Frame
    BY <1>5 DEF OthersEdit, Shape, Frame, Tried
  <1> QED BY <1>1, <1>2, <1>3, <1>4, <1>5 DEF CdnNext, CdnStep

LEMMA ObjectFrame ==
  ASSUME Shape, ObjectNext PROVE Frame
PROOF
  <1>1. ASSUME NEW d,
               \/ NoObject(d) \/ ObjectNoVersion(d) \/ NoLabels(d) \/ NoMainContainer(d) \/ NothingChanged(d)
               \/ Refused(d) \/ WaitForObject(d) \/ ObjectCallFails(d) \/ GetObject(d) \/ UpdateObject(d)
        PROVE  Frame
    BY <1>1, CallsFrame
    DEF NoObject, ObjectNoVersion, NoVersionGiven, NoLabels, NoMainContainer, NothingChanged, Refused,
        WaitForObject, ObjectCallFails, GetObject, UpdateObject
  <1>2. ASSUME OthersEditObject PROVE Frame
    BY <1>2 DEF OthersEditObject, Shape, Frame, Tried
  <1> QED BY <1>1, <1>2 DEF ObjectNext

LEMMA DefinitionFrame ==
  ASSUME Shape, DefinitionNext PROVE Frame
PROOF
  <1>1. ASSUME NEW d, GetTags(d) PROVE Frame
    <2>1. CASE Goes(d, "register", [local[d] EXCEPT !.tags = TRUE])
      BY <2>1, CallsFrame
    <2>2. CASE ~Goes(d, "register", [local[d] EXCEPT !.tags = TRUE])
      BY <1>1, <2>2 DEF GetTags, Shape, Frame, Tried
    <2> QED BY <2>1, <2>2
  <1>2. ASSUME NEW d, DefinitionStep(d), ~GetTags(d) PROVE Frame
    BY <1>2, CallsFrame
    DEF DefinitionStep, DefinitionNoVersion, NoVersionGiven, NoDefinition, GetTaskDefinition, GetJobDefinition, Got,
        NoMainDefinition, RegisterTaskDefinition, CreateJobDefinition, Registers, NoService, UpdateService,
        DefinitionCallFails, Deregister, DeregisterRefused
  <1> QED BY <1>1, <1>2 DEF DefinitionNext

LEMMA LambdaFrame ==
  ASSUME Shape, LambdaNext PROVE Frame
PROOF
  <1>1. ASSUME NEW d, AnyStep(d) \/ UpdateZipCode(d) \/ UpdateImageCode(d) PROVE Frame
    BY <1>1, CallsFrame
    DEF AnyStep, ConfigStep, LambdaNoVersion, NoVersionGiven, GetConfig, UpdateConfig, Conflict, WaitForChanges,
        LambdaCallFails, UpdateZipCode, UpdateImageCode, UpdatesCode
  <1>2. ASSUME Applied \/ NotApplied \/ OthersEditFunction PROVE Frame
    BY <1>2 DEF Applied, NotApplied, OthersEditFunction, Shape, Frame, Tried
  <1> QED BY <1>1, <1>2 DEF LambdaNext, ImageDeployStep, ZipDeployStep

LEMMA JobFrame ==
  ASSUME Shape, K8sJobNext PROVE Frame
PROOF
  <1>1. ASSUME NEW d, CronJobNotUpdated(d) \/ UpdateCronJobFails(d) PROVE Frame
    BY <1>1 DEF CronJobNotUpdated, UpdateCronJobFails, CronJobFailed, Shape, Frame, Tried
  <1>2. ASSUME NEW i, OthersEditJob(i) PROVE Frame
    BY <1>2 DEF OthersEditJob, Shape, Frame, Tried
  <1>3. ASSUME NEW d,
               \/ K8sJobNoVersion(d) \/ GetJobTemplate(d) \/ UpdateJobTemplate(d) \/ ListCronJobs(d)
               \/ CronJobPanics(d) \/ UpdateCronJob(d) \/ JobDeployed(d) \/ K8sJobCallFails(d)
        PROVE  Frame
    BY <1>3, CallsFrame
    DEF K8sJobNoVersion, NoVersionGiven, GetJobTemplate, UpdateJobTemplate, ListCronJobs, CronJobPanics, UpdateCronJob,
        CronJobDone, JobDeployed, K8sJobCallFails
  <1> QED BY <1>1, <1>2, <1>3 DEF K8sJobNext

LEMMA ArtifactFrame ==
  ASSUME Shape, ArtifactNext PROVE Frame
PROOF
  <1>1. ASSUME NEW v, VersionProcessed(v) PROVE Frame
    BY <1>1 DEF VersionProcessed, Shape, Frame, Tried
  <1>2. ASSUME NEW d,
          \/ ArtifactNoVersion(d) \/ BeanstalkStarts(d) \/ GetApplicationVersion(d) \/ Delay(d) \/ PollsOver(d)
          \/ UpdateEnvironment(d) \/ ZipDeploy(d) \/ SyncFunctionTriggers(d) \/ Restart(d) \/ NoCdnAttached(d)
          \/ BeginPurgeContent(d) \/ PurgeEnds(d) \/ ArtifactCallFails(d)
        PROVE  Frame
    BY <1>2, CallsFrame
    DEF ArtifactNoVersion, NoVersionGiven, BeanstalkStarts, GetApplicationVersion, Delay, PollsOver,
        UpdateEnvironment, ZipDeploy, SyncFunctionTriggers, Restart, NoCdnAttached, BeginPurgeContent, PurgeEnds,
        ArtifactCallFails
  <1> QED BY <1>1, <1>2 DEF ArtifactNext

LEMMA PushFrame ==
  ASSUME Shape, PushNext PROVE Frame
PROOF
  <1>1. /\ \A d, f : Stores(d, f) => Frame
        /\ \A d, keys : Pulls(d, keys) => Frame
        /\ \A d, key : PullsZip(d, key) => Frame
        /\ \A d, prefix : PullsDir(d, prefix) => Frame
    BY CallsFrame DEF Stores, Pulls, PullsZip, PullsDir
  <1>2. /\ \A d, f : S3Upload(d, f) \/ GcsUpload(d, f) \/ DagUpload(d, f) \/ BlobZipUpload(d, f) \/ BlobDirUpload(d, f)
                       => Frame
        /\ \A d, k : DeleteUnmatched(d, k) \/ Download(d, k) => Frame
    BY CallsFrame, <1>1 DEF S3Upload, GcsUpload, DagUpload, BlobZipUpload, BlobDirUpload, DeleteUnmatched, Download
  <1>3. \A d : \/ PushRejected(d) \/ WalkDir(d) \/ Uploaded(d) \/ ListUnmatched(d) \/ SyncComplete(d)
               \/ CreateAppVersion(d) \/ Pulled(d) \/ ListArtifactVersions(d) \/ PushCallFails(d)
               => Frame
    BY CallsFrame DEF PushRejected, WalkDir, Uploaded, ListUnmatched, SyncComplete, CreateAppVersion, Pulled,
                ListArtifactVersions, PushCallFails
  <1>4. \A d : \/ DownloadS3Zip(d) \/ DownloadGcsZip(d) \/ DownloadBlobZip(d) \/ DownloadS3Dir(d)
               \/ DownloadGcsDir(d) \/ DownloadBlobDir(d) \/ DownloadDags(d)
               => Frame
    BY <1>1 DEF DownloadS3Zip, DownloadGcsZip, DownloadBlobZip, DownloadS3Dir, DownloadGcsDir, DownloadBlobDir,
                DownloadDags
  <1> QED BY <1>2, <1>3, <1>4 DEF PushNext

LEMMA ImageFrame ==
  ASSUME Shape, ImageNext PROVE Frame
  BY CallsFrame
  DEF ImageNext, ImageRejected, LoginAuth, ExchangeForAccessToken, ImageTagged, PushImage, PullImage, TagsPage,
      ImageCallFails

(* A caller runs a failed deploy again, or nothing happens.                 *)
Again(d) ==
  /\ UNCHANGED <<app, version, local, reference, failures, remote>>
  /\ pc[d] = "returned" /\ result[d] = "error"
  /\ pc' = [pc EXCEPT ![d] = "start"] /\ result' = [result EXCEPT ![d] = "none"]
  /\ attempt' = [attempt EXCEPT ![d] = @ + 1]

Rest == UNCHANGED deployVars \/ \E d \in Deploys : Again(d)

LEMMA OneKind ==
  /\ IsCdn => ~(IsObject \/ IsDefinition \/ IsLambda \/ IsK8sJob \/ IsArtifact \/ IsPush \/ IsImage)
  /\ IsObject => ~(IsDefinition \/ IsLambda \/ IsK8sJob \/ IsArtifact \/ IsPush \/ IsImage)
  /\ IsDefinition => ~(IsLambda \/ IsK8sJob \/ IsArtifact \/ IsPush \/ IsImage)
  /\ IsK8sJob => ~(IsLambda \/ IsArtifact \/ IsPush \/ IsImage)
  /\ IsLambda => ~(IsArtifact \/ IsPush \/ IsImage)
  /\ IsArtifact => ~(IsPush \/ IsImage)
  /\ ~(IsPush /\ IsImage)
PROOF
  <1>1. IsPush <=> app.kind \in {"s3zip", "s3dir", "gcszip", "gcsdir", "blobzip", "blobdir", "ebzip", "dags"}
    BY DEF IsPush, PusherKinds, Pushers
  <1>2. IsImage <=> app.kind \in {"ecr", "gar", "acr"}
    BY DEF IsImage, Registries
  <1>3. (IsArtifact => ~(IsPush \/ IsImage)) /\ ~(IsPush /\ IsImage)
    BY <1>1, <1>2 DEF IsArtifact
  <1> QED BY <1>3, KindsExclusive, Zenon DEF Storing, Changing

LEMMA KindsOfInit ==
  /\ (CdnInit => IsCdn) /\ (ObjectInit => IsObject) /\ (DefinitionInit => IsDefinition)
  /\ (LambdaInit => IsLambda) /\ (K8sJobInit => IsK8sJob) /\ (ArtifactInit => IsArtifact)
  /\ (PushInit => IsPush) /\ (ImageInit => IsImage)
PROOF
  <1>1. CdnInit => IsCdn
    BY DEF CdnInit, CdnApps, IsCdn
  <1>2. ASSUME ObjectInit PROVE IsObject
    <2>1. app \in ObjectApps
      BY <1>2, Zenon DEF ObjectInit
    <2> QED BY <2>1 DEF ObjectApps, IsObject
  <1>3. ASSUME DefinitionInit PROVE IsDefinition
    <2>1. app \in DefinitionApps
      BY <1>3 DEF DefinitionInit
    <2> QED BY <2>1 DEF DefinitionApps, IsDefinition
  <1>4. (LambdaInit => IsLambda) /\ (K8sJobInit => IsK8sJob)
    BY DEF LambdaInit, LambdaApps, IsLambda, K8sJobInit, JobApps, IsK8sJob
  <1>5. ASSUME ArtifactInit PROVE IsArtifact
    <2>1. app \in ArtifactApps
      BY <1>5 DEF ArtifactInit
    <2> QED BY <2>1 DEF ArtifactApps, IsArtifact
  <1>6. ASSUME PushInit PROVE IsPush
    <2>1. app \in PushApps
      BY <1>6, Zenon DEF PushInit
    <2>2. app.kind \in PusherKinds
      <3> HIDE DEF PusherKinds
      <3> QED BY <2>1 DEF PushApps
    <2> QED BY <2>2 DEF IsPush
  <1>7. ASSUME ImageInit PROVE IsImage
    <2>1. app \in ImageApps
      BY <1>7, Zenon DEF ImageInit
    <2> QED BY <2>1 DEF ImageApps, IsImage
  <1> QED BY <1>1, <1>2, <1>3, <1>4, <1>5, <1>6, <1>7

LEMMA InitOfKind ==
  ASSUME Init
  PROVE  /\ IsCdn => CdnInit
         /\ IsObject => ObjectInit
         /\ IsDefinition => DefinitionInit
         /\ IsK8sJob => K8sJobInit
         /\ IsLambda => LambdaInit
         /\ IsArtifact => ArtifactInit
         /\ IsPush => PushInit
         /\ IsImage => ImageInit
  BY KindsOfInit, OneKind, Zenon DEF Init

LEMMA StepOfKind ==
  ASSUME Shape, [Next]_deployVars
  PROVE  /\ Frame
         /\ IsCdn => CdnNext \/ Rest
         /\ IsObject => ObjectNext \/ Rest
         /\ IsDefinition => DefinitionNext \/ Rest
         /\ IsK8sJob => K8sJobNext \/ Rest
         /\ IsLambda => LambdaNext \/ Rest
         /\ IsArtifact => ArtifactNext \/ Rest
         /\ IsPush => PushNext \/ Rest
         /\ IsImage => ImageNext \/ Rest
PROOF
  <1>1. ASSUME Rest PROVE Frame
    <2>1. CASE UNCHANGED deployVars
      BY <2>1 DEF Frame, Shape, Tried, deployVars
    <2>2. ASSUME NEW d, Again(d) PROVE Frame
      <3>1. ASSUME Tried PROVE Tried'
        <4>1. attempt \in [Deploys -> Nat] /\ attempt' = [attempt EXCEPT ![d] = attempt[d] + 1]
          BY <2>2, <3>1 DEF Again, Tried
        <4>2. \A e \in Deploys : attempt'[e] = attempt[e] \/ (attempt[e] \in Nat /\ attempt'[e] = attempt[e] + 1)
          BY <4>1
        <4>3. \A e \in Deploys : attempt'[e] \in Nat
          BY <4>1, <4>2
        <4> QED BY <4>1, <4>3 DEF Tried
      <3>2. app' = app /\ version' = version /\ Shape'
        BY <2>2 DEF Again, Shape
      <3> QED BY <3>1, <3>2 DEF Frame
    <2> QED BY <1>1, <2>1, <2>2 DEF Rest
  <1>2. (\E d \in Deploys : Retries(d)) \/ AllReturned \/ UNCHANGED deployVars => Rest
    BY DEF Rest, Retries, Again, AllReturned
  <1>3. /\ CdnNext => IsCdn
        /\ ObjectNext => IsObject
        /\ DefinitionNext => IsDefinition
        /\ LambdaNext => IsLambda
        /\ K8sJobNext => IsK8sJob
        /\ ArtifactNext => IsArtifact
        /\ PushNext => IsPush
        /\ ImageNext => IsImage
    BY DEF CdnNext, IsCdn, ObjectNext, DefinitionNext, LambdaNext, K8sJobNext, ArtifactNext, PushNext, ImageNext,
           ImageRejected, LoginAuth
  <1>6. \/ CdnNext \/ ObjectNext \/ DefinitionNext \/ LambdaNext \/ K8sJobNext \/ ArtifactNext \/ PushNext
        \/ ImageNext \/ Rest
    BY <1>2, Zenon DEF Next
  <1>7. Frame
    BY <1>1, <1>6, CdnFrame, ObjectFrame, DefinitionFrame, LambdaFrame, JobFrame, ArtifactFrame, PushFrame,
       ImageFrame, Zenon
  <1> QED BY <1>3, <1>6, <1>7, OneKind, Zenon

(* Without a version no deploy gets further than its first call.            *)
Versioned == version \in [Deploys -> Versions \cup {NoVersion}]

LEMMA FrameInit == Init => Shape /\ Versioned
  BY DEF Init, CdnInit, ObjectInit, DefinitionInit, LambdaInit, K8sJobInit, ArtifactInit, PushInit, ImageInit,
         DeployInit, Shape, Versioned

LEMMA FrameNext ==
  ASSUME Shape, Versioned, [Next]_deployVars
  PROVE  Shape' /\ Versioned'
  BY StepOfKind DEF Frame, Versioned

(* Only deploy d moves: to the call "to", having read x, with the result   *)
(* res and the reference ref.                                               *)
Steps(d, to, x, res, ref) ==
  /\ pc'[d] = to /\ local'[d] = x /\ result'[d] = res /\ reference'[d] = ref
  /\ UNCHANGED <<app, version, attempt>> /\ Shape'
  /\ \A e \in Deploys \ {d} :
       pc'[e] = pc[e] /\ local'[e] = local[e] /\ result'[e] = result[e] /\ reference'[e] = reference[e]

LEMMA CallsStep ==
  ASSUME Shape, NEW d \in Deploys
  PROVE  /\ \A to, x : Goes(d, to, x) => Steps(d, to, x, result[d], reference[d])
         /\ GivesUp(d) => Steps(d, "returned", Nothing, "error", NoReference)
         /\ CallFails(d) => Steps(d, "returned", Nothing, "error", NoReference)
         /\ \A ref : Succeeds(d, ref) => Steps(d, "returned", Nothing, "ok", ref)
         /\ \A res, ref : Returns(d, res, ref) => Steps(d, "returned", Nothing, res, ref)
PROOF
  <1>1. ASSUME NEW to, NEW x, Goes(d, to, x) PROVE Steps(d, to, x, result[d], reference[d])
    BY <1>1 DEF Goes, Shape, Steps
  <1>2. ASSUME NEW res, NEW ref, Returns(d, res, ref) PROVE Steps(d, "returned", Nothing, res, ref)
    BY <1>2 DEF Returns, Shape, Steps
  <1> QED BY <1>1, <1>2 DEF GivesUp, CallFails, Succeeds

-----------------------------------------------------------------------------
(* The CronJobs that deploy d has passed: each has labels, and has failed  *)
(* or left the version that ran before any deploy, as the template has;    *)
(* what is listed from one without labels on nobody has changed.           *)
AllNew == \A i \in Objects : remote.objs[i].version # Initially
OldFromUnlabelled ==
  \A j \in app.noLabels, i \in CronJobs : j <= i => remote.objs[i].version = Initially

Passed(d) ==
  /\ pc[d] \in {"start", "returned"} \/ version[d] # NoVersion
  /\ pc[d] \in {"list", "cronJobs"} => remote.objs[0].version # Initially
  /\ pc[d] = "cronJobs" =>
       /\ local[d].next \in Nat \ {0}
       /\ \A j \in app.noLabels : local[d].next <= j
       /\ \A i \in CronJobs : i < local[d].next /\ i \notin local[d].failed => remote.objs[i].version # Initially
  /\ result[d] = "ok" => AllNew

JobStory == IsK8sJob => app.noLabels \subseteq CronJobs /\ OldFromUnlabelled /\ \A d \in Deploys : Passed(d)

LEMMA JobStoryInit == Init => JobStory
PROOF
  <1> SUFFICES ASSUME Init, IsK8sJob PROVE JobStory
    BY DEF JobStory
  <1>1. K8sJobInit
    BY InitOfKind
  <1>2. app.noLabels \subseteq CronJobs
    <2>1. app.noMain \cup app.noLabels \subseteq 1..app.cronJobs
      BY <1>1 DEF K8sJobInit
    <2> QED BY <2>1 DEF CronJobs
  <1>3. \A i \in CronJobs : remote.objs[i].version = Initially
    BY <1>1 DEF K8sJobInit, CronJobs, Objects
  <1>4. \A d \in Deploys : pc[d] = "start" /\ result[d] = "none"
    BY <1>1 DEF K8sJobInit, DeployInit
  <1> QED BY <1>2, <1>3, <1>4 DEF JobStory, OldFromUnlabelled, Passed

(* A new version stays, or gives way to another new one.                    *)
LEMMA LoopGoesOn ==
  ASSUME IsK8sJob, JobStory, app.cronJobs \in Nat, app' = app, version' = version, OldFromUnlabelled',
         \A i \in Objects : remote.objs[i].version # Initially => remote'.objs[i].version # Initially,
         \A e \in Deploys :
           /\ pc'[e] \in {"start", "returned"} \/ version[e] # NoVersion
           /\ pc'[e] \in {"list", "cronJobs"} => pc[e] \in {"list", "cronJobs"} \/ remote'.objs[0].version # Initially
           /\ result'[e] = "ok" => result[e] = "ok" \/ AllNew'
           /\ pc'[e] = "cronJobs" =>
                \/ pc[e] = "cronJobs" /\ local'[e] = local[e]
                \/ local'[e].next = 1
                \/ /\ pc[e] = "cronJobs" /\ local'[e].next = local[e].next + 1
                   /\ local[e].failed \subseteq local'[e].failed /\ local[e].next \notin app.noLabels
                   /\ local[e].next \in local'[e].failed \/ remote'.objs[local[e].next].version # Initially
  PROVE  JobStory'
PROOF
  <1>0. app.noLabels' \subseteq CronJobs' /\ Objects' = Objects /\ CronJobs \subseteq Objects /\ 0 \in Objects
    BY DEF JobStory, CronJobs, Objects
  <1> SUFFICES ASSUME NEW e \in Deploys PROVE Passed(e)'
    BY <1>0 DEF JobStory
  <1>1. Passed(e) /\ CronJobs' = CronJobs /\ CronJobs \subseteq Nat \ {0} /\ app.noLabels \subseteq CronJobs
    BY DEF JobStory, CronJobs
  <1>2. /\ pc'[e] \in {"list", "cronJobs"} => remote'.objs[0].version # Initially
        /\ result'[e] = "ok" => AllNew'
    BY <1>0, <1>1 DEF Passed, AllNew
  <1> DEFINE Behind == /\ local'[e].next \in Nat \ {0}
                       /\ \A j \in app.noLabels : local'[e].next <= j
                       /\ \A i \in CronJobs : i < local'[e].next /\ i \notin local'[e].failed
                                              => remote'.objs[i].version # Initially
  <1>3. CASE pc'[e] = "cronJobs" /\ pc[e] = "cronJobs" /\ local'[e] = local[e]
    <2>1. Behind
      BY <1>0, <1>1, <1>3 DEF Passed
    <2> QED BY <1>1, <1>2, <1>3, <2>1 DEF Passed
  <1>4. CASE pc'[e] = "cronJobs" /\ local'[e].next = 1
    <2>0. local'[e].next = 1 /\ \A i \in CronJobs : 1 <= i /\ ~(i < 1)
      BY <1>4 DEF CronJobs
    <2>1. \A j \in app.noLabels : local'[e].next <= j
      BY <1>1, <2>0
    <2>3. local'[e].next \in Nat \ {0}
      BY <2>0
    <2>2. \A i \in CronJobs : ~(i < local'[e].next)
      BY <2>0
    <2> QED BY <1>1, <1>2, <1>4, <2>1, <2>2, <2>3 DEF Passed
  <1>5. CASE /\ pc'[e] = "cronJobs" /\ pc[e] = "cronJobs" /\ local'[e].next = local[e].next + 1
             /\ local[e].failed \subseteq local'[e].failed /\ local[e].next \notin app.noLabels
             /\ local[e].next \in local'[e].failed \/ remote'.objs[local[e].next].version # Initially
    <2>1. local[e].next \in Nat \ {0} /\ \A j \in app.noLabels : local[e].next <= j
      BY <1>1, <1>5 DEF Passed
    <2>2. ASSUME NEW i \in CronJobs, i < local'[e].next, i \notin local'[e].failed
          PROVE  remote'.objs[i].version # Initially
      <3>1. i < local[e].next \/ i = local[e].next
        BY <1>1, <1>5, <2>1, <2>2
      <3> QED BY <1>0, <1>1, <1>5, <2>2, <3>1 DEF Passed
    <2>3. local'[e].next \in Nat \ {0}
      BY <1>5, <2>1
    <2>4. \A j \in app.noLabels : local'[e].next <= j
      <3> SUFFICES ASSUME NEW j \in app.noLabels PROVE local'[e].next <= j
        OBVIOUS
      <3>1. j \in Nat /\ local[e].next <= j /\ j # local[e].next
        BY <1>1, <1>5, <2>1
      <3> QED BY <1>5, <2>1, <3>1
    <2> QED BY <1>1, <1>2, <1>5, <2>2, <2>3, <2>4 DEF Passed
  <1>6. CASE pc'[e] # "cronJobs"
    BY <1>1, <1>2, <1>6 DEF Passed
  <1> QED BY <1>3, <1>4, <1>5, <1>6

LEMMA JobStoryNext ==
  ASSUME Shape, Versioned, JobInv, JobStory, K8sJobNext
  PROVE  JobStory'
PROOF
  <1>0. /\ IsK8sJob /\ JobFields /\ \A d \in Deploys : ReadOfJob(d) /\ Passed(d)
        /\ app' = app /\ version' = version /\ CronJobs \subseteq Objects /\ 0 \in Objects /\ app.cronJobs \in Nat
        /\ app.noLabels \subseteq CronJobs /\ CronJobs \subseteq Nat \ {0} /\ OldFromUnlabelled
    BY JobFrame DEF K8sJobNext, JobInv, JobStory, Frame, CronJobs, Objects
  <1>1. ASSUME NEW d \in Deploys, NEW to, NEW x, NEW res, NEW ref, Steps(d, to, x, res, ref), to # "cronJobs",
               to = "returned" \/ version[d] # NoVersion,
               to = "list" => remote'.objs[0].version # Initially,
               res = "ok" => result[d] = "ok" \/ AllNew',
               \A i \in Objects : remote.objs[i].version # Initially => remote'.objs[i].version # Initially,
               OldFromUnlabelled'
        PROVE  JobStory'
    <2>1. \A e \in Deploys :
            /\ pc'[e] \in {"start", "returned"} \/ version[e] # NoVersion
            /\ pc'[e] = "cronJobs" => pc[e] = "cronJobs" /\ local'[e] = local[e]
            /\ pc'[e] \in {"list", "cronJobs"} => pc[e] \in {"list", "cronJobs"} \/ remote'.objs[0].version # Initially
            /\ result'[e] = "ok" => result[e] = "ok" \/ AllNew'
      BY <1>0, <1>1 DEF Steps, Passed
    <2> QED BY <1>0, <1>1, <2>1, LoopGoesOn
  <1>2. ASSUME NEW i \in Objects, NEW obj, NEW d \in Deploys, version[d] # NoVersion, EditsFields(obj),
               WritesBack(i, obj, version[d]), i \in CronJobs => \A j \in app.noLabels : i < j
        PROVE  /\ remote'.objs[i].version # Initially
               /\ \A j \in Objects : remote.objs[j].version # Initially => remote'.objs[j].version # Initially
               /\ OldFromUnlabelled'
    <2> DEFINE new == [obj EXCEPT !.version = version[d]]
    <2>1. new.version # Initially
      BY <1>2, VersionAssumption DEF EditsFields, Versioned
    <2>2. remote'.objs = [remote.objs EXCEPT ![i] = new]
      BY <1>0, <1>2 DEF WritesBack, JobFields
    <2> HIDE DEF new
    <2>3. \A j \in Objects : remote'.objs[j] = IF j = i THEN new ELSE remote.objs[j]
      BY <1>0, <2>2 DEF JobFields, OfObjects
    <2>4. OldFromUnlabelled'
      <3> SUFFICES ASSUME NEW j \in app.noLabels, NEW k \in CronJobs, j <= k
                   PROVE  remote'.objs[k].version = Initially
        BY <1>0 DEF OldFromUnlabelled, CronJobs
      <3>0. j <= k
        OBVIOUS
      <3>1. k # i
        <4>1. k \in Nat /\ j \in Nat
          BY <1>0
        <4>2. i \in CronJobs => i < j
          BY <1>2
        <4> QED BY <3>0, <4>1, <4>2
      <3> QED BY <1>0, <2>3, <3>1 DEF OldFromUnlabelled
    <2> QED BY <1>0, <2>1, <2>3, <2>4
  <1>3. remote' = remote => /\ OldFromUnlabelled'
                            /\ \A i \in Objects : remote.objs[i].version # Initially => remote'.objs[i].version # Initially
    BY <1>0 DEF OldFromUnlabelled, CronJobs
  <1>4. ASSUME NEW d \in Deploys,
               K8sJobNoVersion(d) \/ GetJobTemplate(d) \/ JobDeployed(d) \/ K8sJobCallFails(d) \/ CronJobPanics(d)
        PROVE  JobStory'
    <2>1. remote' = remote
      BY <1>4 DEF K8sJobNoVersion, NoVersionGiven, GetJobTemplate, JobDeployed, K8sJobCallFails, CronJobPanics
    <2>2. CASE \E res, ref : Steps(d, "returned", Nothing, res, ref) /\ res # "ok"
      BY <1>1, <1>3, <2>1, <2>2
    <2>3. CASE Goes(d, "template", [obj |-> remote.objs[0], rev |-> remote.rev[0]]) /\ At(d, "start")
      <3>1. /\ Steps(d, "template", [obj |-> remote.objs[0], rev |-> remote.rev[0]], result[d], reference[d])
            /\ version[d] # NoVersion
        BY <2>3, CallsStep DEF At
      <3> QED BY <1>1, <1>3, <2>1, <3>1
    <2>4. CASE JobDeployed(d) /\ Succeeds(d, NoReference)
      <3>1. Steps(d, "returned", Nothing, "ok", NoReference)
        BY <2>4, CallsStep
      <3>2. pc[d] = "cronJobs" /\ local[d].next \notin CronJobs /\ (local[d].failed = {} \/ GivesUp(d))
        BY <2>4 DEF JobDeployed
      <3>3. ~GivesUp(d)
        BY <3>1, CallsStep DEF Steps
      <3>4. local[d].next \in Nat \ {0} /\ app.cronJobs \in Nat
        BY <1>0, <3>2 DEF Passed, JobInv
      <3>5. \A i \in CronJobs : i < local[d].next
        BY <3>2, <3>4 DEF CronJobs
      <3>6. \A i \in CronJobs : remote.objs[i].version # Initially
        BY <1>0, <3>2, <3>3, <3>5 DEF Passed
      <3>7. remote.objs[0].version # Initially
        BY <1>0, <3>2 DEF Passed
      <3>8. Objects' = {0} \cup CronJobs
        BY <1>0, <3>4 DEF Objects, CronJobs
      <3>9. AllNew'
        BY <2>1, <3>6, <3>7, <3>8 DEF AllNew
      <3> QED BY <1>1, <1>3, <2>1, <3>1, <3>9
    <2>5. CASE GivesUp(d) \/ CallFails(d) \/ Returns(d, "panic", NoReference)
      <3>1. \/ Steps(d, "returned", Nothing, "error", NoReference)
            \/ Steps(d, "returned", Nothing, "panic", NoReference)
        BY <2>5, CallsStep
      <3> QED BY <2>2, <3>1
    <2> QED BY <1>4, <2>3, <2>4, <2>5
            DEF K8sJobNoVersion, NoVersionGiven, GetJobTemplate, JobDeployed, K8sJobCallFails, CronJobPanics
  <1>5. ASSUME NEW d \in Deploys, UpdateJobTemplate(d) PROVE JobStory'
    <2>1. pc[d] = "template" /\ version[d] # NoVersion
      BY <1>0, <1>5 DEF UpdateJobTemplate, Passed
    <2>2. CASE WritesBack(0, local[d].obj, version[d])
      <3>1. /\ remote'.objs[0].version # Initially /\ OldFromUnlabelled'
            /\ \A j \in Objects : remote.objs[j].version # Initially => remote'.objs[j].version # Initially
        <4>1. EditsFields(local[d].obj) /\ 0 \notin CronJobs
          BY <1>0, <2>1 DEF ReadOfJob, ReadOf
        <4> QED BY <1>0, <1>2, <2>1, <2>2, <4>1
      <3>2. \E to \in {"returned", "list"} : \E res, ref :
              Steps(d, to, Nothing, res, ref) /\ (res = "ok" => result[d] = "ok")
        BY <1>5, CallsStep DEF UpdateJobTemplate
      <3> QED BY <1>1, <2>1, <3>1, <3>2
    <2>3. CASE GivesUp(d) /\ UNCHANGED remote
      <3>1. Steps(d, "returned", Nothing, "error", NoReference) /\ remote' = remote
        BY <2>3, CallsStep
      <3> QED BY <1>1, <1>3, <3>1
    <2> QED BY <1>5, <2>2, <2>3 DEF UpdateJobTemplate
  <1>6. ASSUME NEW d \in Deploys, ListCronJobs(d) PROVE JobStory'
    <2> DEFINE x == [objs |-> remote.objs, rev |-> remote.rev, next |-> 1, failed |-> {}]
    <2>1. /\ remote' = remote /\ Steps(d, "cronJobs", x, result[d], reference[d]) /\ version[d] # NoVersion
          /\ pc[d] = "list"
      BY <1>0, <1>6, CallsStep DEF ListCronJobs, Passed
    <2>2. x.next = 1
      OBVIOUS
    <2> HIDE DEF x
    <2>3. \A e \in Deploys : /\ pc'[e] \in {"start", "returned"} \/ version[e] # NoVersion
                             /\ pc'[e] \in {"list", "cronJobs"} => pc[e] \in {"list", "cronJobs"}
                             /\ result'[e] = "ok" => result[e] = "ok"
                             /\ pc'[e] = "cronJobs" => \/ pc[e] = "cronJobs" /\ local'[e] = local[e]
                                                       \/ local'[e].next = 1
      BY <1>0, <2>1, <2>2 DEF Steps, Passed
    <2> QED BY <1>0, <1>3, <2>1, <2>3, LoopGoesOn
  <1>7. ASSUME NEW d \in Deploys, CronJobNotUpdated(d) \/ UpdateCronJobFails(d) PROVE JobStory'
    <2> DEFINE l == local[d]
               i == local[d].next
    <2>1. /\ remote' = remote /\ pc' = pc /\ result' = result /\ pc[d] = "cronJobs" /\ i \notin app.noLabels
          /\ local' = CronJobFailed(d, i)
      BY <1>7 DEF CronJobNotUpdated, UpdateCronJobFails, Labelled
    <2>2. LoopFields(l)
      BY <1>0, <2>1 DEF ReadOfJob
    <2>3. /\ \A e \in Deploys \ {d} : local'[e] = local[e]
          /\ local'[d] = [l EXCEPT !.next = @ + 1, !.failed = @ \cup {i}]
      BY <2>1 DEF CronJobFailed, Shape
    <2>4. local'[d].next = i + 1 /\ local'[d].failed = l.failed \cup {i}
      <3> DEFINE j == i
      <3>1. l.next = j /\ local'[d] = [l EXCEPT !.next = @ + 1, !.failed = @ \cup {j}]
        BY <2>3
      <3> HIDE DEF l, j
      <3>2. local'[d].next = j + 1 /\ local'[d].failed = l.failed \cup {j}
        BY <2>2, <3>1 DEF LoopFields
      <3> QED BY <3>2 DEF j, l
    <2>5. \A e \in Deploys :
            /\ pc'[e] \in {"start", "returned"} \/ version[e] # NoVersion
            /\ pc'[e] \in {"list", "cronJobs"} => pc[e] \in {"list", "cronJobs"}
            /\ result'[e] = "ok" => result[e] = "ok"
            /\ pc'[e] = "cronJobs" =>
                 \/ pc[e] = "cronJobs" /\ local'[e] = local[e]
                 \/ /\ pc[e] = "cronJobs" /\ local'[e].next = local[e].next + 1
                    /\ local[e].failed \subseteq local'[e].failed /\ local[e].next \notin app.noLabels
                    /\ local[e].next \in local'[e].failed
      BY <1>0, <2>1, <2>3, <2>4 DEF Passed
    <2> QED BY <1>0, <1>3, <2>1, <2>5, LoopGoesOn
  <1>8. ASSUME NEW d \in Deploys, UpdateCronJob(d) PROVE JobStory'
    <2> DEFINE l == local[d]
               i == local[d].next
               x == [l EXCEPT !.next = @ + 1]
    <2>1. /\ pc[d] = "cronJobs" /\ i \in CronJobs /\ i \notin app.noLabels
          /\ WritesBack(i, l.objs[i], version[d])
          /\ Steps(d, "cronJobs", x, result[d], reference[d]) /\ version[d] # NoVersion
      BY <1>0, <1>8, CallsStep DEF UpdateCronJob, CronJobDone, Passed, Labelled
    <2>2. LoopFields(l) /\ EditsFields(l.objs[i])
      BY <1>0, <2>1 DEF ReadOfJob, ReadOf
    <2>3. x.next = i + 1 /\ x.failed = l.failed
      <3> DEFINE j == i
      <3>1. l.next = j
        OBVIOUS
      <3> HIDE DEF l, j
      <3>2. x.next = j + 1 /\ x.failed = l.failed
        BY <2>2, <3>1 DEF LoopFields
      <3> QED BY <3>2 DEF j, l
    <2>4. /\ remote'.objs[i].version # Initially /\ OldFromUnlabelled'
          /\ \A j \in Objects : remote.objs[j].version # Initially => remote'.objs[j].version # Initially
      <3>1. \A j \in app.noLabels : i < j
        <4> SUFFICES ASSUME NEW j \in app.noLabels PROVE i < j
          OBVIOUS
        <4>1. i <= j /\ i # j /\ i \in Nat /\ j \in Nat
          BY <1>0, <2>1 DEF Passed
        <4> QED BY <4>1
      <3> QED BY <1>0, <1>2, <2>1, <2>2, <3>1
    <2> HIDE DEF x
    <2>5. \A e \in Deploys :
            /\ pc'[e] \in {"start", "returned"} \/ version[e] # NoVersion
            /\ pc'[e] \in {"list", "cronJobs"} => pc[e] \in {"list", "cronJobs"}
            /\ result'[e] = "ok" => result[e] = "ok"
            /\ pc'[e] = "cronJobs" =>
                 \/ pc[e] = "cronJobs" /\ local'[e] = local[e]
                 \/ /\ pc[e] = "cronJobs" /\ local'[e].next = local[e].next + 1
                    /\ local[e].failed \subseteq local'[e].failed /\ local[e].next \notin app.noLabels
                    /\ remote'.objs[local[e].next].version # Initially
      BY <1>0, <2>1, <2>3, <2>4 DEF Steps, Passed
    <2> QED BY <1>0, <2>4, <2>5, LoopGoesOn
  <1>9. ASSUME NEW i \in Objects, OthersEditJob(i) PROVE JobStory'
    <2> DEFINE new == [remote.objs[i] EXCEPT !.edits = @ + 1]
    <2>1. remote'.objs = [remote.objs EXCEPT ![i] = new]
      BY <1>0, <1>9 DEF OthersEditJob, JobFields
    <2>2. new.version = remote.objs[i].version
      BY <1>0 DEF JobFields, EditsFields
    <2> HIDE DEF new
    <2>3. \A j \in Objects : remote'.objs[j].version = remote.objs[j].version
      BY <1>0, <2>1, <2>2 DEF JobFields, OfObjects
    <2>4. pc' = pc /\ local' = local /\ result' = result
      BY <1>9 DEF OthersEditJob
    <2>5. OldFromUnlabelled'
      BY <1>0, <2>3 DEF OldFromUnlabelled, CronJobs
    <2> QED BY <1>0, <2>3, <2>4, <2>5, LoopGoesOn DEF Passed
  <1> QED BY <1>4, <1>5, <1>6, <1>7, <1>8, <1>9 DEF K8sJobNext

LEMMA JobStoryKept ==
  ASSUME Shape, Versioned, DeployersInv, JobStory, [Next]_deployVars
  PROVE  JobStory'
PROOF
  <1> SUFFICES ASSUME IsK8sJob' PROVE JobStory'
    BY DEF JobStory
  <1>1. IsK8sJob /\ app' = app /\ version' = version /\ app.cronJobs \in Nat
    BY StepOfKind DEF Frame, IsK8sJob, DeployersInv, JobInv
  <1>2. CASE K8sJobNext
    BY <1>2, JobStoryNext DEF DeployersInv
  <1>3. CASE Rest
    <2>1. /\ remote' = remote /\ local' = local
          /\ \A e \in Deploys : (pc'[e] = pc[e] \/ pc'[e] = "start") /\ result'[e] \in {result[e], "none"}
      BY <1>3 DEF Rest, deployVars, Again, Shape
    <2>2. OldFromUnlabelled'
      BY <1>1, <2>1 DEF JobStory, OldFromUnlabelled, CronJobs
    <2> QED BY <1>1, <2>1, <2>2, LoopGoesOn DEF JobStory, Passed
  <1> QED BY <1>1, <1>2, <1>3, StepOfKind

(* Whatever fails, is edited or is run again, and however many deploys run *)
(* at a time: a deploy leaves a CronJob behind at the old version only if  *)
(* its own update failed, and reports success only if it left none; but    *)
(* one whose pods have no labels ends every loop, and it and all that are  *)
(* listed behind it stay old for ever.                                      *)
THEOREM FailuresStayAlone == Spec => []CronJobsFailAlone
PROOF
  <1>1. JobStory => CronJobsFailAlone
    BY DEF JobStory, CronJobsFailAlone, Passed, AllNew, OldFromUnlabelled
  <1> QED BY <1>1, JobStoryInit, FrameInit, FrameNext, DeployersInvInit, DeployersInvNext, JobStoryKept, PTL DEF Spec

-----------------------------------------------------------------------------
(* The containers of the object deployers: what runs, and what each deploy *)
(* has read, tells one version and keeps what the plan left out or took     *)
(* from a secret.                                                           *)
OneVersion(c) ==
  LET told == Told(c.env, Versions \cup {Initially}) \ (IF Platform.rules.otel = "kept" THEN {Initially} ELSE {})
  IN \A v \in told : c.image.tags \in {<<>>, <<v>>} /\ (c.image.tags = <<>> => v = Initially)

Planned(c) ==
  \A n \in VarNames \ app.user :
    /\ app.planned[n] = Absent => c.env[n] = Absent
    /\ app.planned[n] = Secret => c.env[n] = Secret

ContainerInv(c) ==
  /\ c.env = [n \in VarNames |-> c.env[n]]
  /\ c.image.digest => c.image.tags = <<>>
  /\ app.kind # "composer" => OneVersion(c)
  /\ Platform.rules.otel = "kept" => c.env["otel"] \notin Versions
  /\ app.kind # "functions" => Planned(c)

(* Whose rollout the reference names.                                       *)
RolloutIsOwn(d) ==
  reference[d][1] = "rollout" /\ ~Platform.waits =>
    reference[d][2] \in 1..Len(remote.ops) /\ remote.ops[reference[d][2]] = d

ObjectOf(d) ==
  /\ pc[d] \in {"start", "returned"} \/ version[d] # NoVersion
  /\ pc[d] = "update" => ContainerInv(local[d].container)
  /\ pc[d] = "wait" => Platform.waits
  /\ RolloutIsOwn(d)

ObjectStory ==
  IsObject => /\ app.user \subseteq {"extra", "version"} /\ AnySequence(remote.ops)
              /\ ContainerInv(remote.container)
              /\ \A d \in Deploys : ObjectOf(d)

(* What the platforms have in common.                                       *)
LEMMA PlatformRules ==
  ASSUME IsObject
  PROVE  /\ Platform.rules.adds => app.kind = "functions"
         /\ Platform.rules.otel \in {"replaced", "kept", "expanded"}
PROOF
  <1>1. app.kind \in {"cloudrun", "cloudrunjob", "functions", "composer", "aca", "acajob", "k8s"}
    BY DEF IsObject, ObjectKinds, Platforms
  <1>2. /\ Platforms.cloudrun = CloudRunService /\ Platforms.cloudrunjob = CloudRunJob
        /\ Platforms.functions = CloudFunction /\ Platforms.composer = Environment
        /\ Platforms.aca = ContainerApp /\ Platforms.acajob = ContainerAppJob /\ Platforms.k8s = K8sDeployment
    BY DEF Platforms
  <1>3. /\ CloudRunService.rules = CloudRunRules /\ CloudRunJob.rules = CloudRunRules
        /\ CloudFunction.rules = FunctionsRules /\ Environment.rules = ComposerRules
        /\ ContainerApp.rules = AcaRules /\ ContainerAppJob.rules = AcaRules /\ K8sDeployment.rules = K8sRules
    BY DEF CloudRunService, CloudRunJob, CloudFunction, Environment, ContainerApp, ContainerAppJob, K8sDeployment,
           Defaults
  <1>4. /\ \A r \in {CloudRunRules, ComposerRules, AcaRules, K8sRules} : ~r.adds
        /\ \A r \in {CloudRunRules, ComposerRules, AcaRules, K8sRules, FunctionsRules} :
             r.otel \in {"replaced", "kept", "expanded"}
    BY DEF CloudRunRules, FunctionsRules, ComposerRules, AcaRules, K8sRules
  <1> QED BY <1>1, <1>2, <1>3, <1>4 DEF Platform

(* The update of the env vars, one by one.                                  *)
LEMMA UpdatedEnvVars ==
  ASSUME NEW rules, NEW env, NEW v, NEW names, env = [n \in VarNames |-> env[n]], names \subseteq {"extra", "version"}
  PROVE  LET new == UpdatedEnv(rules, env, v, names)
             kept == \/ env["otel"] \in {Absent, Secret}
                     \/ rules.otel = "expanded" /\ env["otel"] = Expansion
                     \/ rules.otel = "kept"
         IN  /\ new = [n \in VarNames |-> new[n]]
             /\ new["version"] = IF rules.user /\ "version" \in names THEN UserValue
                                 ELSE IF env["version"] = Secret \/ (env["version"] = Absent /\ ~rules.adds)
                                      THEN env["version"] ELSE v
             /\ new["extra"] = IF rules.user /\ "extra" \in names THEN UserValue ELSE env["extra"]
             /\ new["otel"] = IF kept THEN env["otel"] ELSE v
PROOF
  <1> DEFINE std == ReplaceStandard(rules, env, v)
             user == ApplyUser(rules, std, names)
             new == ReplaceOtel(rules, user, v)
  <1>1. /\ std = [n \in VarNames |-> std[n]]
        /\ std["version"] = IF env["version"] = Secret \/ (env["version"] = Absent /\ ~rules.adds)
                            THEN env["version"] ELSE v
        /\ std["extra"] = env["extra"] /\ std["otel"] = env["otel"]
    BY DEF ReplaceStandard, VarNames
  <1> HIDE DEF std
  <1>2. /\ user = [n \in VarNames |-> user[n]]
        /\ user["version"] = IF rules.user /\ "version" \in names THEN UserValue ELSE std["version"]
        /\ user["extra"] = IF rules.user /\ "extra" \in names THEN UserValue ELSE std["extra"]
        /\ user["otel"] = std["otel"]
    BY <1>1 DEF ApplyUser, VarNames
  <1> HIDE DEF user
  <1>3. /\ new = [n \in VarNames |-> new[n]]
        /\ new["version"] = user["version"] /\ new["extra"] = user["extra"]
        /\ new["otel"] = IF \/ user["otel"] \in {Absent, Secret}
                            \/ rules.otel = "expanded" /\ user["otel"] = Expansion
                            \/ rules.otel = "kept"
                         THEN user["otel"] ELSE v
    BY <1>2 DEF ReplaceOtel, VarNames
  <1> HIDE DEF new
  <1>4. UpdatedEnv(rules, env, v, names) = new
    BY DEF UpdatedEnv, new, user, std
  <1> QED BY <1>1, <1>2, <1>3, <1>4

(* Any image is given the one new tag, as long as a digest has none.        *)
LEMMA RetaggedImage ==
  ASSUME NEW rules, NEW image, NEW v, NEW own, image.digest => image.tags = <<>>
  PROVE  Retagged(rules, image, v, own) = ImageTag(v)
PROOF
  <1>1. ImageRepo(image) = <<>>
    BY DEF ImageRepo
  <1>2. <<>> \o <<v>> = <<v>>
    OBVIOUS
  <1> QED BY <1>1, <1>2 DEF Retagged, ImageTag

LEMMA WrittenKeeps ==
  ASSUME IsObject, NEW d \in Deploys, version[d] \in Versions, ContainerInv(local[d].container),
         app.user \subseteq {"extra", "version"}
  PROVE  ContainerInv(Written(d))
PROOF
  <1> DEFINE rules == Platform.rules
             read == local[d].container
             env == read.env
             v == version[d]
             new == UpdatedEnv(rules, env, v, app.user)
             w == Written(d)
  <1>1. /\ w.env = new
        /\ app.kind # "composer" => w.image = ImageTag(v)
        /\ app.kind = "composer" => w.image = read.image
    BY RetaggedImage DEF Written, ContainerInv
  <1>2. /\ new = [n \in VarNames |-> new[n]]
        /\ new["version"] = IF rules.user /\ "version" \in app.user THEN UserValue
                            ELSE IF env["version"] = Secret \/ (env["version"] = Absent /\ ~rules.adds)
                                 THEN env["version"] ELSE v
        /\ new["extra"] = IF rules.user /\ "extra" \in app.user THEN UserValue ELSE env["extra"]
        /\ new["otel"] = IF \/ env["otel"] \in {Absent, Secret}
                            \/ rules.otel = "expanded" /\ env["otel"] = Expansion
                            \/ rules.otel = "kept"
                         THEN env["otel"] ELSE v
    <2> HIDE DEF rules, env, v
    <2> QED BY UpdatedEnvVars DEF ContainerInv, env
  <1>3. (rules.adds => app.kind = "functions") /\ rules.otel \in {"replaced", "kept", "expanded"}
    BY PlatformRules
  <1> HIDE DEF rules, new, w
  <1>4. w.image.digest => w.image.tags = <<>>
    BY <1>1 DEF ContainerInv, ImageTag
  <1>5. rules.otel = "kept" => new["otel"] \notin Versions
    BY <1>2 DEF ContainerInv, rules
  <1>6. ASSUME app.kind # "composer" PROVE OneVersion(w)
    <2>1. w.image.tags = <<v>>
      BY <1>1, <1>6 DEF ImageTag
    <2>2. {new["version"], new["otel"]} \cap (Versions \cup {Initially}) \subseteq
            {v} \cup (IF rules.otel = "kept" THEN {Initially} ELSE {})
      <3>1. new["version"] \in {UserValue, Secret, Absent, v}
        BY <1>2
      <3>2. new["otel"] \in {Absent, Secret, Expansion, v} \/ (rules.otel = "kept" /\ new["otel"] \notin Versions)
        <4>1. CASE rules.otel = "kept"
          BY <1>5, <4>1
        <4>2. CASE rules.otel # "kept"
          BY <1>2, <4>2
        <4> QED BY <4>1, <4>2
      <3>3. Versions \cap {Absent, Secret, Expansion, UserValue} = {} /\ Initially \notin {Absent, Secret, Expansion, UserValue}
        BY ValueAssumption DEF Initially, Absent, Secret, Expansion, UserValue
      <3> QED BY <3>1, <3>2, <3>3
    <2>3. \A t \in Told(w.env, Versions \cup {Initially}) \ (IF rules.otel = "kept" THEN {Initially} ELSE {}) : t = v
      BY <1>1, <2>2 DEF Told
    <2>4. <<v>> # <<>>
      OBVIOUS
    <2> QED BY <2>1, <2>3, <2>4 DEF OneVersion, rules
  <1>7. ASSUME app.kind # "functions" PROVE Planned(w)
    <2>1. ASSUME NEW n \in VarNames \ app.user
          PROVE  /\ env[n] = Absent => new[n] = Absent
                 /\ env[n] = Secret => new[n] = Secret
      <3>1. n \in {"version", "otel", "extra"}
        BY DEF VarNames
      <3> QED BY <1>2, <1>3, <1>7, <3>1 DEF Absent, Secret
    <2>2. Planned(read)
      BY <1>7 DEF ContainerInv
    <2> QED BY <1>1, <2>1, <2>2 DEF Planned
  <1>8. w.env = [n \in VarNames |-> w.env[n]]
    BY <1>1, <1>2
  <1> QED BY <1>1, <1>4, <1>5, <1>6, <1>7, <1>8 DEF ContainerInv, rules, w

LEMMA ObjectStoryInit == ObjectInit => ObjectStory
PROOF
  <1> SUFFICES ASSUME ObjectInit PROVE ObjectStory
    OBVIOUS
  <1>1. app \in ObjectApps
    BY Zenon DEF ObjectInit
  <1>2. /\ app.user \subseteq {"extra", "version"} /\ app.image \in {ImageTag(Initially), ImageDigest}
        /\ app.planned \in PlannedEnvs(Initially) /\ app.kind \in ObjectKinds
    <2>1. /\ app.user \in {{}, {"extra"}, {"version"}} /\ app.image \in {ImageTag(Initially), ImageDigest}
          /\ app.planned \in PlannedEnvs(Initially) /\ app.kind \in ObjectKinds
      BY <1>1 DEF ObjectApps
    <2> QED BY <2>1
  <1>3. /\ remote.container = [image |-> app.image, env |-> app.planned] /\ remote.ops = <<>>
        /\ \A d \in Deploys : pc[d] = "start" /\ reference[d] = NoReference
    BY DEF ObjectInit, DeployInit
  <1>4. /\ app.planned = [n \in VarNames |-> app.planned[n]]
        /\ app.planned["version"] \in {Initially, Absent, Secret} /\ app.planned["otel"] \in {Initially, Expansion, Secret}
    BY <1>2 DEF PlannedEnvs, VarNames
  <1>5. app.planned["version"] \notin Versions /\ app.planned["otel"] \notin Versions
    BY <1>4, ValueAssumption, VersionAssumption
  <1>6. ContainerInv(remote.container)
    <2> DEFINE c == remote.container
    <2>1. c.image = app.image /\ c.env = app.planned
      BY <1>3
    <2> HIDE DEF c
    <2>2. c.image.digest => c.image.tags = <<>>
      BY <1>2, <2>1 DEF ImageTag, ImageDigest
    <2>3. OneVersion(c)
      <3>1. Told(c.env, Versions \cup {Initially}) \subseteq {Initially}
        BY <1>5, <2>1 DEF Told
      <3>2. c.image.tags \in {<<>>, <<Initially>>}
        BY <1>2, <2>1 DEF ImageTag, ImageDigest
      <3> QED BY <3>1, <3>2 DEF OneVersion
    <2> QED BY <1>4, <1>5, <2>1, <2>2, <2>3 DEF ContainerInv, Planned, c
  <1>7. AnySequence(remote.ops)
    <2>1. <<>> \in Seq({})
      OBVIOUS
    <2> QED BY <1>3, <2>1 DEF AnySequence
  <1>8. \A d \in Deploys : ObjectOf(d)
    <2>1. NoReference[1] # "rollout"
      BY DEF NoReference
    <2> QED BY <1>3, <2>1 DEF ObjectOf, RolloutIsOwn
  <1> QED BY <1>2, <1>6, <1>7, <1>8 DEF ObjectStory

(* A step that leaves the container and the rollouts alone.                 *)
LEMMA ObjectStays ==
  ASSUME IsObject, ObjectStory, UNCHANGED <<app, version>>, remote'.container = remote.container, remote'.ops = remote.ops,
         \A e \in Deploys :
           \/ pc'[e] = pc[e] /\ local'[e] = local[e] /\ reference'[e] = reference[e]
           \/ pc'[e] \in {"start", "returned"} /\ (reference'[e] = reference[e] \/ reference'[e][1] # "rollout")
           \/ /\ pc'[e] = "update" /\ version[e] # NoVersion /\ local'[e].container = remote.container
              /\ reference'[e] = reference[e]
           \/ pc'[e] = "returned" /\ Platform.waits
  PROVE  ObjectStory'
PROOF
  <1>1. Platform' = Platform /\ IsObject'
    BY DEF Platform, IsObject
  <1>2. \A c : ContainerInv(c) => ContainerInv(c)'
    BY <1>1 DEF ContainerInv, OneVersion, Planned
  <1>3. ContainerInv(remote.container)'
    BY <1>1 DEF ObjectStory, ContainerInv, OneVersion, Planned
  <1>4. ASSUME NEW e \in Deploys PROVE ObjectOf(e)'
    <2>1. ObjectOf(e)
      BY DEF ObjectStory
    <2>2. RolloutIsOwn(e)'
      BY <1>1, <2>1 DEF ObjectOf, RolloutIsOwn
    <2>3. pc'[e] = "update" => ContainerInv(local[e].container)'
      <3>1. CASE pc[e] = "update" /\ local'[e] = local[e]
        <4>1. ContainerInv(local[e].container) /\ local'[e] = local[e]
          BY <2>1, <3>1 DEF ObjectOf
        <4> QED BY <1>1, <4>1 DEF ContainerInv, OneVersion, Planned
      <3>2. CASE local'[e].container = remote.container
        BY <1>1, <3>2 DEF ObjectStory, ContainerInv, OneVersion, Planned
      <3> QED BY <3>1, <3>2
    <2>4. pc'[e] = "wait" => Platform'.waits
      BY <1>1, <2>1 DEF ObjectOf
    <2> QED BY <2>1, <2>2, <2>3, <2>4 DEF ObjectOf
  <1> QED BY <1>1, <1>3, <1>4 DEF ObjectStory

LEMMA UpdateObjectKeeps ==
  ASSUME Shape, Versioned, ObjectInv, ObjectStory, NEW d \in Deploys, UpdateObject(d)
  PROVE  ObjectStory'
PROOF
  <1> DEFINE n == Len(remote.ops)
  <1>0. /\ IsObject /\ ObjectFields /\ app.user \subseteq {"extra", "version"} /\ AnySequence(remote.ops)
        /\ pc[d] = "update" /\ \A e \in Deploys : ObjectOf(e)
    BY DEF UpdateObject, Writable, ObjectStory, ObjectInv
  <1>1. ContainerInv(Written(d))
    <2>1. version[d] \in Versions
      BY <1>0 DEF ObjectOf, Versioned
    <2> QED BY <1>0, <2>1, WrittenKeeps DEF ObjectOf
  <1>2. remote'.container = Written(d) /\ remote'.ops = Append(remote.ops, d)
    BY <1>0 DEF UpdateObject, Write, ObjectFields
  <1>3. /\ AnySequence(remote'.ops) /\ Len(remote'.ops) = n + 1 /\ remote'.ops[n + 1] = d /\ n \in Nat
        /\ \A i \in 1..n : remote'.ops[i] = remote.ops[i]
    BY <1>0, <1>2, SequenceGrows, SequenceDomain
  <1>4. \/ ~Platform.waits /\ Steps(d, "returned", Nothing, "ok", <<"rollout", n + 1>>)
        \/ Platform.waits /\ Steps(d, "wait", Nothing, result[d], reference[d])
        \/ Steps(d, "returned", Nothing, "error", NoReference)
    BY CallsStep DEF UpdateObject
  <1>5. app' = app /\ version' = version /\ Platform' = Platform /\ IsObject'
    BY <1>0, <1>4 DEF Steps, Platform, IsObject
  <1>6. ContainerInv(remote.container)'
    BY <1>1, <1>2, <1>5 DEF ContainerInv, OneVersion, Planned
  <1>7. ASSUME NEW e \in Deploys PROVE ObjectOf(e)'
    <2>1. CASE e # d
      <3>1. pc'[e] = pc[e] /\ local'[e] = local[e] /\ reference'[e] = reference[e] /\ ObjectOf(e)
        BY <1>0, <1>4, <2>1 DEF Steps
      <3>2. RolloutIsOwn(e)'
        BY <1>3, <1>5, <3>1 DEF ObjectOf, RolloutIsOwn
      <3> QED BY <1>5, <3>1, <3>2 DEF ObjectOf, ContainerInv, OneVersion, Planned
    <2>2. CASE e = d
      <3>1. ObjectOf(d)
        BY <1>0
      <3>2. CASE ~Platform.waits /\ Steps(d, "returned", Nothing, "ok", <<"rollout", n + 1>>)
        BY <1>3, <1>5, <2>2, <3>2 DEF Steps, ObjectOf, RolloutIsOwn
      <3>3. CASE Platform.waits /\ Steps(d, "wait", Nothing, result[d], reference[d])
        BY <1>0, <1>5, <2>2, <3>1, <3>3 DEF Steps, ObjectOf, RolloutIsOwn
      <3>4. CASE Steps(d, "returned", Nothing, "error", NoReference)
        BY <1>5, <2>2, <3>4 DEF Steps, ObjectOf, RolloutIsOwn, NoReference
      <3> QED BY <1>4, <3>2, <3>3, <3>4
    <2> QED BY <2>1, <2>2
  <1> QED BY <1>0, <1>3, <1>5, <1>6, <1>7 DEF ObjectStory

LEMMA ObjectStoryNext ==
  ASSUME Shape, Versioned, ObjectInv, ObjectStory, ObjectNext
  PROVE  ObjectStory'
PROOF
  <1>0. IsObject /\ ObjectFields /\ \A e \in Deploys : ObjectOf(e)
    BY DEF ObjectNext, ObjectStory, ObjectInv
  <1>1. ASSUME NEW d \in Deploys, NEW x, NEW res, NEW ref, Steps(d, "returned", x, res, ref),
               ref[1] # "rollout" \/ Platform.waits, UNCHANGED remote
        PROVE  ObjectStory'
    BY <1>0, <1>1, ObjectStays DEF Steps
  <1>2. NoReference[1] # "rollout" /\ <<"noop", 0>>[1] # "rollout"
    BY DEF NoReference
  <1>3. ASSUME NEW d \in Deploys,
               \/ NoObject(d) \/ ObjectNoVersion(d) \/ NoLabels(d) \/ NoMainContainer(d)
               \/ NothingChanged(d) \/ Refused(d) \/ ObjectCallFails(d)
        PROVE  ObjectStory'
    <2>1. UNCHANGED remote
      BY <1>3 DEF NoObject, ObjectNoVersion, NoVersionGiven, NoLabels, NoMainContainer, NothingChanged, Refused,
                  ObjectCallFails
    <2>2. \E res : \E ref \in {NoReference, <<"noop", 0>>} : Steps(d, "returned", Nothing, res, ref)
      BY <1>3, CallsStep
      DEF NoObject, ObjectNoVersion, NoVersionGiven, NoLabels, NoMainContainer, NothingChanged, Refused,
          ObjectCallFails
    <2> QED BY <1>1, <1>2, <2>1, <2>2
  <1>4. ASSUME NEW d \in Deploys, WaitForObject(d) PROVE ObjectStory'
    <2>1. Platform.waits /\ UNCHANGED remote
      BY <1>0, <1>4 DEF WaitForObject, ObjectOf
    <2>2. \E ref : Steps(d, "returned", Nothing, "ok", ref)
      BY <1>4, CallsStep DEF WaitForObject
    <2> QED BY <1>1, <2>1, <2>2
  <1>5. ASSUME NEW d \in Deploys, GetObject(d) PROVE ObjectStory'
    <2> DEFINE x == [container |-> remote.container, edits |-> remote.edits, rev |-> remote.rev]
    <2>1. Steps(d, "update", x, result[d], reference[d]) /\ UNCHANGED remote /\ version[d] # NoVersion
      BY <1>5, CallsStep DEF GetObject, At
    <2>2. x.container = remote.container
      OBVIOUS
    <2> HIDE DEF x
    <2> QED BY <1>0, <2>1, <2>2, ObjectStays DEF Steps
  <1>6. ASSUME OthersEditObject PROVE ObjectStory'
    <2>1. /\ UNCHANGED <<app, version, pc, local, reference>>
          /\ remote'.container = remote.container /\ remote'.ops = remote.ops
      BY <1>0, <1>6 DEF OthersEditObject, ObjectFields
    <2> QED BY <1>0, <2>1, ObjectStays
  <1> QED BY <1>3, <1>4, <1>5, <1>6, UpdateObjectKeeps DEF ObjectNext

LEMMA ObjectStoryKept ==
  ASSUME Shape, Versioned, DeployersInv, ObjectStory, [Next]_deployVars
  PROVE  ObjectStory'
PROOF
  <1> SUFFICES ASSUME IsObject' PROVE ObjectStory'
    BY DEF ObjectStory
  <1>1. IsObject /\ app' = app /\ version' = version
    BY StepOfKind DEF Frame, IsObject
  <1>2. CASE ObjectNext
    BY <1>2, ObjectStoryNext DEF DeployersInv
  <1>3. CASE Rest
    <2>1. /\ UNCHANGED <<remote, local, reference>>
          /\ \A e \in Deploys : pc'[e] = pc[e] \/ pc'[e] = "start"
      BY <1>3 DEF Rest, deployVars, Again, Shape
    <2> QED BY <1>1, <2>1, ObjectStays
  <1> QED BY <1>1, <1>2, <1>3, StepOfKind

-----------------------------------------------------------------------------
(* ECS and Batch: what each revision tells, and whose the deployments are.  *)
ContainersOf(cs) ==
  /\ cs = [c \in 1..app.n |-> cs[c]]
  /\ \A c \in 1..app.n : /\ cs[c].env = [n \in VarNames |-> cs[c].env[n]]
                         /\ cs[c].image.digest => cs[c].image.tags = <<>>

TellsVersion(cs, v) ==
  /\ cs[Main].image = ImageTag(v)
  /\ \A c \in 1..app.n : cs[c].env["version"] \in {Absent, Secret, v}

RevisionInv(f) ==
  /\ ContainersOf(f.containers)
  /\ f.by \in Deploys => TellsVersion(f.containers, version[f.by])

DeploymentOf(d) ==
  reference[d][1] = "deployment" =>
    /\ reference[d][2] \in 1..Len(remote.deployments)
    /\ remote.deployments[reference[d][2]] \in 1..Len(remote.defs)
    /\ remote.defs[remote.deployments[reference[d][2]]].by = d

DefinitionOf(d) ==
  /\ pc[d] \in {"start", "returned"} \/ version[d] # NoVersion
  /\ pc[d] \in {"tags", "register"} => local[d].from \in 1..Len(remote.defs)
  /\ pc[d] = "deregister" => remote.defs[local[d].new].by = d
  /\ DeploymentOf(d)

DefinitionAppOk == app.n \in {1, 2} /\ (app.kind = "batch" => app.n = 1) /\ app.user \subseteq {"extra"}

DefinitionStory ==
  IsDefinition => /\ DefinitionAppOk /\ AnySequence(remote.deployments)
                  /\ \A i \in 1..Len(remote.defs) : RevisionInv(remote.defs[i])
                  /\ \A d \in Deploys : DefinitionOf(d)

LEMMA MainInRange ==
  ASSUME IsDefinition, DefinitionAppOk, Main # 0
  PROVE  Main \in 1..app.n
  BY DEF IsDefinition, DefinitionAppOk, Main, EcsMainContainer, NamedContainer

(* The definition that deploy d makes of the one it read.                   *)
LEMMA UpdatedTaskTells ==
  ASSUME IsDefinition, DefinitionAppOk, Main # 0, NEW d \in Deploys,
         ContainersOf(remote.defs[local[d].from].containers)
  PROVE  ContainersOf(UpdatedTask(d)) /\ TellsVersion(UpdatedTask(d), version[d])
PROOF
  <1> DEFINE v == version[d]
             read == remote.defs[local[d].from].containers
             std(i) == ApplyUser(EcsRules, ReplaceStandard(EcsRules, read[i].env, v), app.user)
             has == {i \in DOMAIN read : std(i)["otel"] \notin {Absent, Secret}}
             env(i) == IF i \in has /\ \A j \in has : i <= j THEN ReplaceOtel(EcsRules, std(i), v) ELSE std(i)
             new(i) == [image |-> IF i = Main THEN Retagged(EcsRules, read[i].image, v, FALSE) ELSE read[i].image,
                        env |-> env(i)]
             cs == UpdatedTask(d)
  <1>1. cs = [i \in 1..app.n |-> new(i)]
    BY Zenon DEF UpdatedTask, ContainersOf
  <1>2. ASSUME NEW i \in 1..app.n
        PROVE  /\ env(i) = [n \in VarNames |-> env(i)[n]]
               /\ env(i)["version"] \in {Absent, Secret, v}
    <2>1. read[i].env = [n \in VarNames |-> read[i].env[n]]
      BY Zenon DEF ContainersOf
    <2>2. /\ std(i) = [n \in VarNames |-> std(i)[n]]
          /\ std(i)["version"] \in {Absent, Secret, v}
      <3> DEFINE e == read[i].env
                 r == ReplaceStandard(EcsRules, e, v)
      <3>1. e = [n \in VarNames |-> e[n]]
        BY <2>1, Zenon
      <3> HIDE DEF e
      <3>2. r = [n \in VarNames |-> r[n]] /\ r["version"] \in {Absent, Secret, v}
        BY <3>1 DEF ReplaceStandard, VarNames, EcsRules
      <3> HIDE DEF r
      <3>3. LET u == ApplyUser(EcsRules, r, app.user)
            IN  u = [n \in VarNames |-> u[n]] /\ u["version"] \in {Absent, Secret, v}
        BY <3>2 DEF ApplyUser, VarNames, EcsRules, DefinitionAppOk
      <3> QED BY <3>3, Zenon DEF r, e
    <2> HIDE DEF std
    <2>3. LET o == ReplaceOtel(EcsRules, std(i), v)
          IN  o = [n \in VarNames |-> o[n]] /\ o["version"] \in {Absent, Secret, v}
      BY <2>2 DEF ReplaceOtel, VarNames
    <2> HIDE DEF has
    <2> QED BY <2>2, <2>3
  <1>3. ASSUME NEW i \in 1..app.n
        PROVE  /\ i = Main => new(i).image = ImageTag(v)
               /\ new(i).image.digest => new(i).image.tags = <<>>
    <2> DEFINE image == read[i].image
               e == env(i)
    <2>1. image.digest => image.tags = <<>>
      BY Zenon DEF ContainersOf
    <2>2. Retagged(EcsRules, image, v, FALSE) = ImageTag(v)
      BY <2>1, RetaggedImage
    <2> DEFINE tagged == Retagged(EcsRules, image, v, FALSE)
               im == IF i = Main THEN tagged ELSE image
               f == new(i)
    <2>3. f = [image |-> im, env |-> e]
      OBVIOUS
    <2> HIDE DEF f, im, e
    <2>5. f.image = im
      BY <2>3
    <2>4. new(i).image = IF i = Main THEN ImageTag(v) ELSE image
      <3> HIDE DEF image, v, env, new
      <3> QED BY <2>2, <2>5 DEF im, f
    <2> HIDE DEF new, image, v
    <2> QED BY <2>1, <2>4 DEF ImageTag
  <1>4. \A i \in 1..app.n : cs[i] = new(i) /\ new(i).env = env(i)
    <2> HIDE DEF env
    <2> QED BY <1>1, Zenon
  <1>5. cs = [i \in 1..app.n |-> cs[i]]
    <2> HIDE DEF new
    <2> QED BY <1>1
  <1>6. ASSUME NEW i \in 1..app.n
        PROVE  /\ cs[i].env = [n \in VarNames |-> cs[i].env[n]]
               /\ cs[i].env["version"] \in {Absent, Secret, v}
    <2> DEFINE e == env(i)
               f == cs[i].env
    <2>1. f = e
      BY <1>4, Zenon
    <2>2. e = [n \in VarNames |-> e[n]] /\ e["version"] \in {Absent, Secret, v}
      BY <1>2, Zenon
    <2> HIDE DEF e, f
    <2>3. f = [n \in VarNames |-> f[n]] /\ f["version"] \in {Absent, Secret, v}
      BY <2>1, <2>2
    <2> QED BY <2>3 DEF f
  <1>7. Main \in 1..app.n
    BY MainInRange
  <1> HIDE DEF new, env, v
  <1>8. /\ cs[Main].image = ImageTag(v)
        /\ \A i \in 1..app.n : cs[i].image.digest => cs[i].image.tags = <<>>
    <2> HIDE DEF cs
    <2> QED BY <1>3, <1>4, <1>7
  <1> HIDE DEF cs
  <1>9. ContainersOf(cs) /\ TellsVersion(cs, v)
    BY <1>5, <1>6, <1>8, Zenon DEF ContainersOf, TellsVersion
  <1> QED BY <1>9 DEF cs, v

LEMMA UpdatedJobTells ==
  ASSUME IsDefinition, DefinitionAppOk, app.kind = "batch", NEW d \in Deploys,
         ContainersOf(remote.defs[local[d].from].containers)
  PROVE  ContainersOf(UpdatedJob(d)) /\ TellsVersion(UpdatedJob(d), version[d])
PROOF
  <1> DEFINE v == version[d]
             read == remote.defs[local[d].from].containers[1]
             env == read.env
             image == read.image
             new == UpdatedEnv(BatchRules, env, v, app.user)
             f == [image |-> Retagged(BatchRules, image, v, FALSE), env |-> new]
             cs == UpdatedJob(d)
  <1>1. app.n = 1 /\ Main = 1 /\ cs = <<f>>
    BY DEF DefinitionAppOk, Main, UpdatedJob
  <1>2. env = [n \in VarNames |-> env[n]] /\ (image.digest => image.tags = <<>>)
    <2> DEFINE all == remote.defs[local[d].from].containers
    <2>1. ContainersOf(all) /\ 1 \in 1..app.n
      BY <1>1
    <2> HIDE DEF all
    <2>2. /\ all[1].env = [n \in VarNames |-> all[1].env[n]]
          /\ all[1].image.digest => all[1].image.tags = <<>>
      BY <2>1, Zenon DEF ContainersOf
    <2> QED BY <2>2, Zenon DEF all
  <1> HIDE DEF env, image, v
  <1>3. Retagged(BatchRules, image, v, FALSE) = ImageTag(v)
    BY <1>2, RetaggedImage
  <1>4. /\ new = [n \in VarNames |-> new[n]]
        /\ new["version"] \in {Absent, Secret, v}
    <2>1. app.user \subseteq {"extra", "version"} /\ "version" \notin app.user
      BY DEF DefinitionAppOk
    <2> QED BY <1>2, <2>1, UpdatedEnvVars DEF BatchRules
  <1> HIDE DEF new
  <1>5. f.image = ImageTag(v) /\ f.env = new
    BY <1>3
  <1> HIDE DEF f, cs
  <1>6. cs = [c \in 1..app.n |-> cs[c]] /\ cs[1] = f /\ 1..app.n = {1}
    BY <1>1
  <1>7. cs[1].image = ImageTag(v) /\ cs[1].env = [n \in VarNames |-> cs[1].env[n]]
        /\ cs[1].env["version"] \in {Absent, Secret, v} /\ ~ImageTag(v).digest
    BY <1>4, <1>5, <1>6 DEF ImageTag
  <1>8. ContainersOf(cs) /\ TellsVersion(cs, v)
    BY <1>1, <1>6, <1>7 DEF ContainersOf, TellsVersion
  <1> QED BY <1>8 DEF cs, v

LEMMA DefinitionStoryInit == DefinitionInit => DefinitionStory
PROOF
  <1> SUFFICES ASSUME DefinitionInit PROVE DefinitionStory
    OBVIOUS
  <1>1. app \in DefinitionApps /\ (app.kind = "batch" => app.n = 1)
    BY DEF DefinitionInit
  <1>2. DefinitionAppOk
    BY <1>1 DEF DefinitionApps, DefinitionAppOk
  <1>3. PICK first \in PlannedEnvs(Initially), second \in PlannedEnvs(Initially) :
          remote = [defs |-> <<[by |-> "plan", active |-> TRUE, tags |-> TRUE,
                                containers |-> [i \in 1..app.n |-> [image |-> ImageDigest,
                                                                    env |-> IF i = 1 THEN first ELSE second]]]>>,
                    service |-> 1, deployments |-> <<1>>]
    BY DEF DefinitionInit
  <1> DEFINE cs == [i \in 1..app.n |-> [image |-> ImageDigest, env |-> IF i = 1 THEN first ELSE second]]
             f == [by |-> "plan", active |-> TRUE, tags |-> TRUE, containers |-> cs]
  <1>4. first = [n \in VarNames |-> first[n]] /\ second = [n \in VarNames |-> second[n]]
    BY DEF PlannedEnvs
  <1>5. ContainersOf(cs)
    BY <1>4 DEF ContainersOf, ImageDigest
  <1> HIDE DEF cs
  <1>6. RevisionInv(f)
    BY <1>5, PlanAssumption DEF RevisionInv
  <1>7. remote.defs = <<f>> /\ remote.deployments = <<1>>
    BY <1>3 DEF cs
  <1> HIDE DEF f
  <1>8. AnySequence(remote.deployments) /\ \A i \in 1..Len(remote.defs) : RevisionInv(remote.defs[i])
    <2>1. <<1>> \in Seq({1}) /\ Len(<<f>>) = 1 /\ 1..1 = {1} /\ <<f>>[1] = f
      OBVIOUS
    <2>2. AnySequence(remote.deployments)
      BY <1>7, <2>1 DEF AnySequence
    <2>3. 1..Len(remote.defs) = {1} /\ remote.defs[1] = f
      BY <1>7, <2>1
    <2> QED BY <1>6, <2>2, <2>3
  <1>9. \A d \in Deploys : DefinitionOf(d)
    <2>1. NoReference[1] # "deployment"
      BY DEF NoReference
    <2> QED BY <2>1 DEF DefinitionInit, DeployInit, DefinitionOf, DeploymentOf
  <1> QED BY <1>2, <1>8, <1>9 DEF DefinitionStory

(* Revisions keep their makers and containers, deployments their revision.  *)
Extended ==
  /\ Len(remote.defs) \in Nat /\ Len(remote'.defs) \in Nat /\ Len(remote.deployments) \in Nat
  /\ Len(remote'.deployments) \in Nat
  /\ Len(remote.defs) <= Len(remote'.defs) /\ Len(remote.deployments) <= Len(remote'.deployments)
  /\ \A i \in 1..Len(remote.defs) : /\ remote'.defs[i].by = remote.defs[i].by
                                    /\ remote'.defs[i].containers = remote.defs[i].containers
  /\ \A i \in 1..Len(remote.deployments) : remote'.deployments[i] = remote.deployments[i]

LEMMA DefinitionGoesOn ==
  ASSUME IsDefinition, DefinitionInv, DefinitionStory, UNCHANGED <<app, version>>, Extended,
         AnySequence(remote'.deployments),
         \A i \in 1..Len(remote'.defs) : i \notin 1..Len(remote.defs) => RevisionInv(remote'.defs[i]),
         \A e \in Deploys :
           /\ pc'[e] \in {"start", "returned"} \/ version[e] # NoVersion
           /\ pc'[e] \in {"tags", "register"} =>
                \/ pc[e] \in {"tags", "register"} /\ local'[e].from = local[e].from
                \/ local'[e].from \in 1..Len(remote.defs)
           /\ pc'[e] = "deregister" =>
                \/ pc[e] = "deregister" /\ local'[e].new = local[e].new
                \/ remote'.defs[local'[e].new].by = e
           /\ reference'[e] = reference[e] \/ DeploymentOf(e)'
  PROVE  DefinitionStory'
PROOF
  <1>1. /\ DefinitionAppOk /\ (\A i \in 1..Len(remote.defs) : RevisionInv(remote.defs[i]))
        /\ \A e \in Deploys : DefinitionOf(e) /\ ReadOfDefinition(e)
    BY DEF DefinitionStory, DefinitionInv
  <1>2. IsDefinition' /\ DefinitionAppOk' /\ Main' = Main
    BY <1>1 DEF IsDefinition, DefinitionAppOk, Main
  <1>3. ASSUME NEW i \in 1..Len(remote'.defs) PROVE RevisionInv(remote.defs[i])'
    <2>1. RevisionInv(remote'.defs[i])
      <3>1. CASE i \in 1..Len(remote.defs)
        <4>1. RevisionInv(remote.defs[i]) /\ remote'.defs[i].by = remote.defs[i].by
              /\ remote'.defs[i].containers = remote.defs[i].containers
          BY <1>1, <3>1 DEF Extended
        <4> QED BY <4>1 DEF RevisionInv
      <3> QED BY <3>1
    <2> QED BY <1>2, <2>1, Zenon DEF RevisionInv, ContainersOf, TellsVersion
  <1>4. ASSUME NEW e \in Deploys PROVE DefinitionOf(e)'
    <2>1. DefinitionOf(e) /\ ReadOfDefinition(e)
      BY <1>1
    <2>2. DeploymentOf(e)'
      <3>1. CASE reference'[e] = reference[e]
        <4> DEFINE k == reference[e][2]
        <4>1. CASE reference[e][1] = "deployment"
          <5>1. /\ k \in 1..Len(remote.deployments) /\ remote.deployments[k] \in 1..Len(remote.defs)
                /\ remote.defs[remote.deployments[k]].by = e
            BY <2>1, <4>1 DEF DefinitionOf, DeploymentOf
          <5> DEFINE j == remote.deployments[k]
          <5>4. remote'.deployments[k] = j
            <6> HIDE DEF k
            <6> QED BY <5>1 DEF Extended
          <5>5. j \in 1..Len(remote.defs) /\ remote.defs[j].by = e
            BY <5>1
          <5> HIDE DEF j, k
          <5>6. j \in 1..Len(remote'.defs) /\ remote'.defs[j].by = e
            BY <5>5 DEF Extended
          <5>2. k \in 1..Len(remote'.deployments)
            BY <5>1 DEF Extended
          <5>3. reference'[e][2] = k
            BY <3>1 DEF k
          <5> QED BY <5>2, <5>3, <5>4, <5>6 DEF DeploymentOf
        <4> QED BY <3>1, <4>1 DEF DeploymentOf
      <3> QED BY <3>1
    <2>3. pc'[e] \in {"tags", "register"} => local'[e].from \in 1..Len(remote'.defs)
      BY <2>1 DEF DefinitionOf, Extended
    <2>4. pc'[e] = "deregister" => remote'.defs[local'[e].new].by = e
      BY <2>1 DEF DefinitionOf, Extended, ReadOfDefinition
    <2> QED BY <2>2, <2>3, <2>4 DEF DefinitionOf
  <1> QED BY <1>2, <1>3, <1>4 DEF DefinitionStory

(* The revisions and the deployments stay, and deploy d returns.            *)
LEMMA DefinitionStays ==
  ASSUME IsDefinition, DefinitionInv, DefinitionStory, UNCHANGED <<app, version, remote>>,
         \A e \in Deploys :
           \/ pc'[e] = pc[e] /\ local'[e] = local[e] /\ reference'[e] = reference[e]
           \/ /\ pc'[e] \in {"start", "returned"}
              /\ reference'[e] = reference[e] \/ reference'[e][1] # "deployment"
           \/ /\ pc'[e] \in {"tags", "register"} /\ reference'[e] = reference[e] /\ version[e] # NoVersion
              /\ \/ pc[e] \in {"tags", "register"} /\ local'[e].from = local[e].from
                 \/ local'[e].from \in 1..Len(remote.defs)
  PROVE  DefinitionStory'
PROOF
  <1>1. Extended /\ AnySequence(remote'.deployments)
    BY SequenceDomain DEF DefinitionInv, Revisions, DefinitionStory, Extended
  <1>2. \A e \in Deploys : DefinitionOf(e)
    BY DEF DefinitionStory
  <1>3. \A e \in Deploys : reference'[e] = reference[e] \/ DeploymentOf(e)'
    BY DEF DeploymentOf
  <1>4. \A e \in Deploys :
           /\ pc'[e] \in {"start", "returned"} \/ version[e] # NoVersion
           /\ pc'[e] \in {"tags", "register"} =>
                \/ pc[e] \in {"tags", "register"} /\ local'[e].from = local[e].from
                \/ local'[e].from \in 1..Len(remote.defs)
           /\ pc'[e] = "deregister" =>
                \/ pc[e] = "deregister" /\ local'[e].new = local[e].new
                \/ remote'.defs[local'[e].new].by = e
    BY <1>2 DEF DefinitionOf
  <1> QED BY <1>1, <1>3, <1>4, DefinitionGoesOn

LEMMA RegisterTells ==
  ASSUME Shape, Versioned, DefinitionInv, DefinitionStory, IsDefinition, NEW d \in Deploys, pc[d] = "register",
         NEW containers, ContainersOf(containers), TellsVersion(containers, version[d]),
         Registers(d, containers, local[d].old)
  PROVE  DefinitionStory'
PROOF
  <1> DEFINE n == Len(remote.defs)
             def == [by |-> d, active |-> TRUE, tags |-> local[d].tags, containers |-> containers]
             read == [local[d] EXCEPT !.new = n + 1, !.old = local[d].old]
  <1>0. /\ Revisions /\ AnySequence(remote.defs) /\ AnySequence(remote.deployments)
        /\ \A e \in Deploys : ReadOfDefinition(e) /\ DefinitionOf(e)
    BY DEF DefinitionInv, DefinitionStory, Revisions
  <1>1. remote' = [defs |-> Append(remote.defs, def), service |-> remote.service, deployments |-> remote.deployments]
    BY <1>0 DEF Registers, Revisions
  <1>2. def.by = d /\ def.containers = containers
    OBVIOUS
  <1> HIDE DEF def
  <1>3. /\ remote'.defs = Append(remote.defs, def) /\ remote'.deployments = remote.deployments
        /\ n \in Nat /\ Len(remote.deployments) \in Nat
    BY <1>0, <1>1, SequenceDomain
  <1>4. /\ Len(remote'.defs) = n + 1 /\ remote'.defs[n + 1] = def
        /\ \A i \in 1..n : remote'.defs[i] = remote.defs[i]
    BY <1>0, <1>3, SequenceGrows
  <1>5. Extended
    BY <1>3, <1>4 DEF Extended
  <1>6. \A i \in 1..Len(remote'.defs) : i \notin 1..n => RevisionInv(remote'.defs[i])
    <2>1. \A i \in 1..Len(remote'.defs) : i \notin 1..n => i = n + 1
      BY <1>3, <1>4
    <2>2. RevisionInv(def)
      BY <1>2 DEF RevisionInv
    <2> QED BY <1>4, <2>1, <2>2
  <1>7. read.new = n + 1
    <2> DEFINE l == local[d]
               m == n + 1
               old == local[d].old
    <2>1. PlanFields(l)
      BY <1>0 DEF ReadOfDefinition
    <2> HIDE DEF l, m, old
    <2>2. [l EXCEPT !.new = m, !.old = old].new = m
      BY <2>1 DEF PlanFields
    <2> QED BY <2>2 DEF l, m, old
  <1>8. \/ Steps(d, "deregister", read, result[d], reference[d])
        \/ Steps(d, "returned", Nothing, "error", NoReference)
    BY CallsStep DEF Registers
  <1> HIDE DEF read
  <1>9. ASSUME NEW e \in Deploys
        PROVE  /\ pc'[e] \in {"start", "returned"} \/ version[e] # NoVersion
               /\ pc'[e] \in {"tags", "register"} => pc[e] \in {"tags", "register"} /\ local'[e].from = local[e].from
               /\ pc'[e] = "deregister" =>
                    \/ pc[e] = "deregister" /\ local'[e].new = local[e].new
                    \/ remote'.defs[local'[e].new].by = e
               /\ reference'[e] = reference[e] \/ DeploymentOf(e)'
    <2>1. CASE e # d
      BY <1>0, <1>8, <2>1 DEF Steps, DefinitionOf
    <2>2. CASE e = d /\ Steps(d, "deregister", read, result[d], reference[d])
      BY <1>0, <1>2, <1>4, <1>7, <2>2 DEF Steps, DefinitionOf
    <2>3. CASE e = d /\ Steps(d, "returned", Nothing, "error", NoReference)
      BY <2>3 DEF Steps, DeploymentOf, NoReference
    <2> QED BY <1>8, <2>1, <2>2, <2>3
  <1>10. UNCHANGED <<app, version>> /\ AnySequence(remote'.deployments)
    BY <1>0, <1>3, <1>8 DEF Steps
  <1> QED BY <1>5, <1>6, <1>9, <1>10, DefinitionGoesOn

LEMMA DeregisterTells ==
  ASSUME Shape, DefinitionInv, DefinitionStory, IsDefinition, NEW d \in Deploys, NEW i \in DOMAIN remote.defs,
         Deregister(d, i)
  PROVE  DefinitionStory'
PROOF
  <1> DEFINE n == Len(remote.defs)
             def == [remote.defs[i] EXCEPT !.active = FALSE]
             read == [local[d] EXCEPT !.old = local[d].old \ {i}]
  <1>0. /\ Revisions /\ AnySequence(remote.defs) /\ AnySequence(remote.deployments)
        /\ pc[d] = "deregister" /\ i \in 1..n /\ n \in Nat /\ Len(remote.deployments) \in Nat
        /\ \A e \in Deploys : ReadOfDefinition(e) /\ DefinitionOf(e)
    BY SequenceDomain DEF DefinitionInv, DefinitionStory, Revisions, Deregister
  <1>1. remote' = [defs |-> [remote.defs EXCEPT ![i] = def], service |-> remote.service,
                   deployments |-> remote.deployments]
    BY <1>0 DEF Deregister, Revisions
  <1>2. def.by = remote.defs[i].by /\ def.containers = remote.defs[i].containers
    <2> DEFINE f == remote.defs[i]
    <2>1. DefinitionFields(f)
      BY <1>0 DEF Revisions
    <2>2. def = [by |-> f.by, active |-> FALSE, tags |-> f.tags, containers |-> f.containers]
      BY <2>1, DefinitionChanges
    <2> QED BY <2>2
  <1> HIDE DEF def
  <1>3. remote'.defs = [remote.defs EXCEPT ![i] = def] /\ remote'.deployments = remote.deployments
    BY <1>1
  <1>4. Len(remote'.defs) = n /\ remote'.defs[i] = def /\ \A j \in 1..n : j # i => remote'.defs[j] = remote.defs[j]
    BY <1>0, <1>3, SequenceChanges
  <1>5. Extended
    BY <1>0, <1>2, <1>3, <1>4 DEF Extended
  <1>6. read.new = local[d].new
    <2> DEFINE l == local[d]
               old == local[d].old \ {i}
    <2>1. PlanFields(l)
      BY <1>0 DEF ReadOfDefinition
    <2> HIDE DEF l, old
    <2>2. [l EXCEPT !.old = old].new = l.new
      BY <2>1 DEF PlanFields
    <2> QED BY <2>2 DEF l, old
  <1>7. \/ Steps(d, "deregister", read, result[d], reference[d])
        \/ Steps(d, "returned", Nothing, "error", NoReference)
    BY CallsStep DEF Deregister
  <1> HIDE DEF read
  <1>8. ASSUME NEW e \in Deploys
        PROVE  /\ pc'[e] \in {"start", "returned"} \/ version[e] # NoVersion
               /\ pc'[e] \in {"tags", "register"} => pc[e] \in {"tags", "register"} /\ local'[e].from = local[e].from
               /\ pc'[e] = "deregister" => pc[e] = "deregister" /\ local'[e].new = local[e].new
               /\ reference'[e] = reference[e] \/ DeploymentOf(e)'
    <2>1. CASE e # d
      BY <1>0, <1>7, <2>1 DEF Steps, DefinitionOf
    <2>2. CASE e = d /\ Steps(d, "deregister", read, result[d], reference[d])
      BY <1>0, <1>6, <2>2 DEF Steps, DefinitionOf
    <2>3. CASE e = d /\ Steps(d, "returned", Nothing, "error", NoReference)
      BY <2>3 DEF Steps, DeploymentOf, NoReference
    <2> QED BY <1>7, <2>1, <2>2, <2>3
  <1>9. /\ UNCHANGED <<app, version>> /\ AnySequence(remote'.deployments)
        /\ \A j \in 1..Len(remote'.defs) : j \notin 1..Len(remote.defs) => RevisionInv(remote'.defs[j])
    BY <1>0, <1>3, <1>4, <1>7 DEF Steps
  <1> QED BY <1>5, <1>8, <1>9, DefinitionGoesOn

(* The deployment that a deploy is told of is of the revision it registered.*)
LEMMA ServiceTells ==
  ASSUME Shape, DefinitionInv, DefinitionStory, IsDefinition, NEW d \in Deploys, UpdateService(d)
  PROVE  DefinitionStory'
PROOF
  <1> DEFINE m == Len(remote.deployments)
             new == local[d].new
  <1>0. /\ Revisions /\ AnySequence(remote.defs) /\ AnySequence(remote.deployments)
        /\ pc[d] = "deregister" /\ Len(remote.defs) \in Nat /\ m \in Nat
        /\ new \in 1..Len(remote.defs) /\ remote.defs[new].by = d
        /\ \A e \in Deploys : DefinitionOf(e)
    BY SequenceDomain DEF DefinitionInv, DefinitionStory, Revisions, UpdateService, ReadOfDefinition, DefinitionOf
  <1>1. CASE GivesUp(d) /\ UNCHANGED remote
    <2>1. Steps(d, "returned", Nothing, "error", NoReference) /\ NoReference[1] # "deployment"
      BY <1>1, CallsStep DEF NoReference
    <2> QED BY <1>1, <2>1, DefinitionStays DEF Steps
  <1>2. CASE /\ remote' = [remote EXCEPT !.service = new, !.deployments = Append(@, new)]
             /\ Succeeds(d, <<"deployment", m + 1>>) \/ CallFails(d)
    <2>1. remote' = [defs |-> remote.defs, service |-> new, deployments |-> Append(remote.deployments, new)]
      <3> HIDE DEF new
      <3> QED BY <1>0, <1>2 DEF Revisions
    <2>2. /\ remote'.defs = remote.defs /\ remote'.deployments = Append(remote.deployments, new)
      BY <2>1
    <2> HIDE DEF new
    <2>3. /\ AnySequence(remote'.deployments) /\ Len(remote'.deployments) = m + 1 /\ remote'.deployments[m + 1] = new
          /\ \A i \in 1..m : remote'.deployments[i] = remote.deployments[i]
      BY <1>0, <2>2, SequenceGrows
    <2>4. Extended
      BY <1>0, <2>2, <2>3 DEF Extended
    <2>5. \/ Steps(d, "returned", Nothing, "ok", <<"deployment", m + 1>>)
          \/ Steps(d, "returned", Nothing, "error", NoReference)
      BY <1>2, CallsStep
    <2>6. ASSUME NEW e \in Deploys
          PROVE  /\ pc'[e] \in {"start", "returned"} \/ version[e] # NoVersion
                 /\ pc'[e] \in {"tags", "register"} => pc[e] \in {"tags", "register"} /\ local'[e].from = local[e].from
                 /\ pc'[e] = "deregister" => pc[e] = "deregister" /\ local'[e].new = local[e].new
                 /\ reference'[e] = reference[e] \/ DeploymentOf(e)'
      <3>1. CASE e # d
        BY <1>0, <2>5, <3>1 DEF Steps, DefinitionOf
      <3>2. CASE e = d /\ Steps(d, "returned", Nothing, "ok", <<"deployment", m + 1>>)
        <4>1. DeploymentOf(d)'
          BY <1>0, <2>2, <2>3, <3>2 DEF Steps, DeploymentOf
        <4> QED BY <3>2, <4>1 DEF Steps
      <3>3. CASE e = d /\ Steps(d, "returned", Nothing, "error", NoReference)
        BY <3>3 DEF Steps, DeploymentOf, NoReference
      <3> QED BY <2>5, <3>1, <3>2, <3>3
    <2>7. UNCHANGED <<app, version>>
      BY <2>5 DEF Steps
    <2>8. \A j \in 1..Len(remote'.defs) : j \notin 1..Len(remote.defs) => RevisionInv(remote'.defs[j])
      BY <2>2
    <2> QED BY <2>3, <2>4, <2>6, <2>7, <2>8, DefinitionGoesOn
  <1> QED BY <1>1, <1>2 DEF UpdateService

LEMMA DefinitionStoryNext ==
  ASSUME Shape, Versioned, DefinitionInv, DefinitionStory, DefinitionNext
  PROVE  DefinitionStory'
PROOF
  <1>0. PICK d \in Deploys : DefinitionStep(d)
    BY DEF DefinitionNext
  <1>1. /\ IsDefinition /\ Revisions /\ DefinitionAppOk /\ Active \subseteq 1..Len(remote.defs)
        /\ (\A i \in 1..Len(remote.defs) : RevisionInv(remote.defs[i]))
        /\ \A e \in Deploys : ReadOfDefinition(e) /\ DefinitionOf(e)
    BY SequenceDomain DEF DefinitionNext, DefinitionInv, DefinitionStory, Revisions, Active
  <1>2. CASE \/ DefinitionNoVersion(d) \/ NoDefinition(d) \/ NoMainDefinition(d) \/ NoService(d)
             \/ DefinitionCallFails(d) \/ \E i \in DOMAIN remote.defs : DeregisterRefused(d, i)
    <2>1. UNCHANGED remote /\ \E res : Steps(d, "returned", Nothing, res, NoReference)
      BY <1>2, CallsStep DEF DefinitionNoVersion, NoVersionGiven, NoDefinition, NoMainDefinition, NoService,
                             DefinitionCallFails, DeregisterRefused
    <2>2. NoReference[1] # "deployment"
      BY DEF NoReference
    <2> QED BY <1>1, <2>1, <2>2, DefinitionStays DEF Steps
  <1>3. CASE GetTaskDefinition(d) \/ GetJobDefinition(d)
    <2>1. /\ \E to \in {"tags", "register"} : \E old : Got(d, to, old)
          /\ Active # {} /\ version[d] # NoVersion
      BY <1>3 DEF GetTaskDefinition, GetJobDefinition, At
    <2>2. PICK to \in {"tags", "register"} : \E old : Got(d, to, old)
      BY <2>1
    <2>3. UNCHANGED remote /\ \E x : Steps(d, to, x, result[d], reference[d]) /\ x.from = Latest
      BY <2>2, CallsStep DEF Got
    <2>4. Latest \in 1..Len(remote.defs)
      BY <1>1, <2>1, LatestIsActive
    <2> QED BY <1>1, <2>1, <2>3, <2>4, DefinitionStays DEF Steps
  <1>4. CASE GetTags(d)
    <2>1. /\ UNCHANGED <<app, version, remote, reference>> /\ pc[d] = "tags" /\ pc'[d] = "register"
          /\ local'[d] \in {local[d], [local[d] EXCEPT !.tags = TRUE]}
          /\ \A e \in Deploys \ {d} : pc'[e] = pc[e] /\ local'[e] = local[e]
      BY <1>4 DEF GetTags, Goes, Shape
    <2>2. local'[d].from = local[d].from
      <3> DEFINE l == local[d]
      <3>1. PlanFields(l)
        BY <1>1, <2>1 DEF ReadOfDefinition
      <3> HIDE DEF l
      <3>2. [l EXCEPT !.tags = TRUE].from = l.from
        BY <3>1 DEF PlanFields
      <3> QED BY <2>1, <3>2 DEF l
    <2>3. version[d] # NoVersion
      BY <1>1, <2>1 DEF DefinitionOf
    <2> QED BY <1>1, <2>1, <2>2, <2>3, DefinitionStays
  <1>5. CASE RegisterTaskDefinition(d) \/ CreateJobDefinition(d)
    <2>1. pc[d] = "register"
      BY <1>5 DEF RegisterTaskDefinition, CreateJobDefinition
    <2>2. ContainersOf(remote.defs[local[d].from].containers)
      BY <1>1, <2>1 DEF DefinitionOf, RevisionInv
    <2>3. CASE RegisterTaskDefinition(d)
      BY <1>1, <2>1, <2>2, <2>3, UpdatedTaskTells, RegisterTells DEF RegisterTaskDefinition
    <2>4. CASE CreateJobDefinition(d)
      BY <1>1, <2>1, <2>2, <2>4, UpdatedJobTells, RegisterTells DEF CreateJobDefinition
    <2> QED BY <1>5, <2>3, <2>4
  <1>6. CASE UpdateService(d)
    BY <1>1, <1>6, ServiceTells
  <1>7. CASE \E i \in DOMAIN remote.defs : Deregister(d, i)
    BY <1>1, <1>7, DeregisterTells
  <1> QED BY <1>0, <1>2, <1>3, <1>4, <1>5, <1>6, <1>7 DEF DefinitionStep

LEMMA DefinitionStoryKept ==
  ASSUME Shape, Versioned, DeployersInv, DefinitionStory, [Next]_deployVars
  PROVE  DefinitionStory'
PROOF
  <1> SUFFICES ASSUME IsDefinition' PROVE DefinitionStory'
    BY DEF DefinitionStory
  <1>1. IsDefinition /\ app' = app /\ version' = version
    BY StepOfKind DEF Frame, IsDefinition
  <1>2. CASE DefinitionNext
    BY <1>2, DefinitionStoryNext DEF DeployersInv
  <1>3. CASE Rest
    <2>1. /\ UNCHANGED <<remote, local, reference>>
          /\ \A e \in Deploys : pc'[e] = pc[e] \/ pc'[e] = "start"
      BY <1>3 DEF Rest, deployVars, Again, Shape
    <2> QED BY <1>1, <2>1, DefinitionStays DEF DeployersInv
  <1> QED BY <1>1, <1>2, <1>3, StepOfKind

-----------------------------------------------------------------------------
StoriesInv == DeployersInv /\ Shape /\ Versioned /\ ObjectStory /\ DefinitionStory

LEMMA StoriesInvariant == Spec => []StoriesInv
PROOF
  <1>1. Init => StoriesInv
    BY DeployersInvInit, FrameInit, InitOfKind, ObjectStoryInit, DefinitionStoryInit
    DEF StoriesInv, ObjectStory, DefinitionStory
  <1>2. StoriesInv /\ [Next]_deployVars => StoriesInv'
    BY DeployersInvNext, FrameNext, ObjectStoryKept, DefinitionStoryKept DEF StoriesInv
  <1> QED BY <1>1, <1>2, PTL DEF Spec

(* Whatever the deploys, their failures and their order: the image that    *)
(* runs and the version that its env vars tell are of one deploy, in every *)
(* object but Composer's and in every revision that a deploy registered.   *)
(* Lambda functions and Kubernetes jobs are outside of this.               *)
THEOREM VersionsNeverMix == Spec => []OneVersionRuns
PROOF
  <1>1. StoriesInv => ObjectOneVersion
    BY DEF StoriesInv, ObjectStory, ContainerInv, OneVersion, ObjectOneVersion
  <1>2. StoriesInv => DefinitionOneVersion
    <2> SUFFICES ASSUME StoriesInv, IsDefinition, NEW i \in DOMAIN remote.defs, remote.defs[i].by \in Deploys
                 PROVE  LET def == remote.defs[i]
                        IN  /\ def.containers[Main].image = ImageTag(version[def.by])
                            /\ \A c \in DOMAIN def.containers :
                                 def.containers[c].env["version"] \in {Absent, Secret, version[def.by]}
      BY DEF DefinitionOneVersion
    <2>1. RevisionInv(remote.defs[i])
      BY SequenceDomain DEF StoriesInv, DefinitionStory, DeployersInv, DefinitionInv, Revisions
    <2> DEFINE cs == remote.defs[i].containers
               v == version[remote.defs[i].by]
    <2>2. ContainersOf(cs) /\ TellsVersion(cs, v)
      BY <2>1 DEF RevisionInv
    <2> HIDE DEF cs, v
    <2>3. cs[Main].image = ImageTag(v) /\ \A c \in DOMAIN cs : cs[c].env["version"] \in {Absent, Secret, v}
      BY <2>2 DEF ContainersOf, TellsVersion
    <2> QED BY <2>3 DEF cs, v
  <1>3. StoriesInv => OneVersionRuns
    BY <1>1, <1>2 DEF OneVersionRuns
  <1> QED BY <1>3, StoriesInvariant, PTL

(* The reference of a deploy names a rollout or a deployment that the very *)
(* deploy began, however many run at a time.                               *)
THEOREM ReferencesAreOwn == Spec => []ReferenceIsOwn
PROOF
  <1>1. StoriesInv => ObjectReferenceIsOwn
    <2>1. StoriesInv /\ IsObject => DOMAIN remote.ops = 1..Len(remote.ops)
      BY SequenceDomain DEF StoriesInv, ObjectStory
    <2> QED BY <2>1 DEF StoriesInv, ObjectStory, ObjectOf, RolloutIsOwn, ObjectReferenceIsOwn
  <1>2. StoriesInv => DeploymentIsOwn
    BY DEF StoriesInv, DefinitionStory, DefinitionOf, DeploymentOf, DeploymentIsOwn
  <1>3. StoriesInv => ReferenceIsOwn
    BY <1>1, <1>2 DEF ReferenceIsOwn
  <1> QED BY <1>3, StoriesInvariant, PTL

(* No deploy adds an env var that the plan left out, nor replaces a        *)
(* reference to a secret, unless the user names it (Cloud Functions apart).*)
THEOREM PlanIsKept == Spec => []PlanKept
PROOF
  <1>1. StoriesInv => PlanKept
    BY DEF StoriesInv, ObjectStory, ContainerInv, Planned, PlanKept
  <1> QED BY <1>1, StoriesInvariant, PTL

-----------------------------------------------------------------------------
(* The pushers of artifacts: what each push has stored and what each pull  *)
(* has still to fetch.                                                      *)
PushFields ==
  /\ remote = [objs |-> remote.objs, versions |-> remote.versions, got |-> remote.got]
  /\ remote.got = [d \in Deploys |-> remote.got[d]]

(* Of the files of deploy d all but the rest are stored.                    *)
Stored(d, rest) == app.kind # "dags" => \A f \in SourceFiles(d) \ rest : KeyOf(d, f) \in Keys

(* Of the version of d alone.                                               *)
OfVersion(d, xs) == app.kind # "dags" /\ app.sep => \A x \in xs : x[1] = version[d]

(* Each file that one of the pushes stored is fetched or to be fetched.     *)
HasFiles(pushes, xs) ==
  app.kind # "dags" /\ app.sep => \A e \in pushes : \A f \in SourceFiles(e) : \E x \in xs : x[2] = f

Pulling(d, l) ==
  /\ l = [todo |-> l.todo, files |-> l.files, after |-> l.after]
  /\ OfVersion(d, l.todo) /\ OfVersion(d, l.files)
  /\ HasFiles(l.after, l.todo \cup l.files)

PushOf(d) ==
  /\ pc[d] \in {"upload", "create", "unmatched", "delete"} => app.mode[d] = "push"
  /\ pc[d] = "download" => app.mode[d] = "pull"
  /\ pc[d] \in {"unmatched", "delete"} => app.kind = "dags"
  /\ pc[d] = "delete" => \A k \in local[d] : k[2] \notin app.tree[d]
  /\ pc[d] = "upload" => Stored(d, local[d])
  /\ app.mode[d] = "push" /\ (pc[d] = "create" \/ result[d] = "ok") => Stored(d, {})
  /\ pc[d] = "download" => Pulling(d, local[d])
  /\ app.mode[d] = "pull" /\ result[d] = "ok" =>
       /\ OfVersion(d, remote.got[d].files)
       /\ HasFiles(remote.got[d].after, remote.got[d].files)

PushStory ==
  IsPush => PushFields /\ DagsNeverMissing /\ \A d \in Deploys : PushOf(d)

(* What is stored stays stored, but for the DAGs.                           *)
LEMMA PushGoesOn ==
  ASSUME IsPush, PushStory, UNCHANGED <<app, version>>, PushFields', DagsNeverMissing',
         app.kind # "dags" => Keys \subseteq Keys', NEW d \in Deploys, PushOf(d)',
         \A e \in Deploys \ {d} :
           pc'[e] = pc[e] /\ local'[e] = local[e] /\ result'[e] = result[e] /\ remote'.got[e] = remote.got[e]
  PROVE  PushStory'
PROOF
  <1>1. IsPush' /\ Pusher' = Pusher
    BY DEF IsPush, Pusher
  <1>2. \A e, f : KeyOf(e, f)' = KeyOf(e, f)
    BY DEF KeyOf, S3Key, GcsZipKey, GcsDirKey, BlobKey, DagKey, Trimmed, ArtifactsKey
  <1>3. \A e : SourceFiles(e)' = SourceFiles(e)
    BY <1>1 DEF SourceFiles
  <1>4. ASSUME NEW e \in Deploys \ {d} PROVE PushOf(e)'
    <2>1. PushOf(e)
      BY DEF PushStory
    <2>2. \A rest : Stored(e, rest) => (app.kind # "dags" => \A f \in SourceFiles(e) \ rest : KeyOf(e, f) \in Keys')
      BY DEF Stored
    <2>3. Stored(e, {}) => Stored(e, {})'
      BY <1>2, <1>3, <2>2 DEF Stored
    <2>4. Stored(e, local[e]) => Stored(e, local[e])'
      BY <1>2, <1>3, <2>2 DEF Stored
    <2>5. Pulling(e, local[e]) => Pulling(e, local[e])'
      BY <1>3 DEF Pulling, OfVersion, HasFiles
    <2>6. /\ OfVersion(e, remote.got[e].files) => OfVersion(e, remote.got[e].files)'
          /\ HasFiles(remote.got[e].after, remote.got[e].files) => HasFiles(remote.got[e].after, remote.got[e].files)'
      BY <1>3 DEF OfVersion, HasFiles
    <2> QED BY <2>1, <2>3, <2>4, <2>5, <2>6 DEF PushOf
  <1> QED BY <1>1, <1>4 DEF PushStory

LEMMA PushStoryInit == PushInit => PushStory
PROOF
  <1> SUFFICES ASSUME PushInit PROVE PushStory
    OBVIOUS
  <1> DEFINE objs == IF app.kind = "dags" THEN [k \in {<<Initially, f, FALSE>> : f \in Files} |-> NoOne] ELSE <<>>
             got == [d \in Deploys |-> Nothing]
  <1>1. remote = [objs |-> objs, versions |-> {}, got |-> got]
    BY DEF PushInit
  <1>2. DagsNeverMissing
    <2>1. CASE app.kind = "dags"
      <3>1. Keys = {<<Initially, f, FALSE>> : f \in Files}
        BY <1>1, <2>1 DEF Keys
      <3>2. \A f \in Files : <<Initially, f, FALSE>> \in Keys /\ <<Initially, f, FALSE>>[2] = f
        BY <3>1
      <3> QED BY <3>2 DEF DagsNeverMissing
    <2> QED BY <2>1 DEF DagsNeverMissing
  <1>3. PushFields
    <2> HIDE DEF objs
    <2>1. remote.got = got /\ remote = [objs |-> remote.objs, versions |-> remote.versions, got |-> remote.got]
      BY <1>1
    <2> QED BY <2>1 DEF PushFields
  <1>4. \A d \in Deploys : pc[d] = "start" /\ result[d] = "none"
    BY DEF PushInit, DeployInit
  <1> QED BY <1>2, <1>3, <1>4 DEF PushStory, PushOf

(* Deploy d goes on or returns with an error, storing and fetching nothing. *)
LEMMA PushRests ==
  ASSUME IsPush, PushStory, NEW d \in Deploys, NEW to, NEW x, NEW res, NEW ref, Steps(d, to, x, res, ref),
         UNCHANGED remote, PushOf(d)'
  PROVE  PushStory'
PROOF
  <1>1. UNCHANGED <<app, version>> /\ PushFields /\ DagsNeverMissing
    BY DEF Steps, PushStory
  <1>2. PushFields' /\ DagsNeverMissing' /\ Keys' = Keys
    BY <1>1 DEF PushFields, DagsNeverMissing, Keys, IsPush
  <1> QED BY <1>1, <1>2, PushGoesOn DEF Steps

LEMMA PushFails ==
  ASSUME IsPush, PushStory, NEW d \in Deploys, UNCHANGED remote,
         Steps(d, "returned", Nothing, "error", NoReference)
  PROVE  PushStory'
PROOF
  <1>1. PushOf(d)'
    BY DEF Steps, PushOf
  <1> QED BY <1>1, PushRests

(* Deploy d stores a file.                                                  *)
LEMMA StoresKeeps ==
  ASSUME IsPush, PushStory, Shape, NEW d \in Deploys, NEW f, pc[d] = "upload", f \in local[d], Stores(d, f)
  PROVE  PushStory'
PROOF
  <1> DEFINE objs == [k \in Keys \cup {KeyOf(d, f)} |-> IF k = KeyOf(d, f) THEN d ELSE remote.objs[k]]
  <1>0. PushFields /\ DagsNeverMissing /\ PushOf(d)
    BY DEF PushStory
  <1>1. remote' = [objs |-> objs, versions |-> remote.versions, got |-> remote.got]
    BY <1>0 DEF Stores, PushFields
  <1>2. remote'.got = remote.got /\ PushFields' /\ Keys' = Keys \cup {KeyOf(d, f)}
    <2>1. remote'.objs = objs /\ remote'.got = remote.got
      BY <1>1
    <2>2. Keys' = Keys \cup {KeyOf(d, f)}
      BY <2>1 DEF Keys
    <2> HIDE DEF objs
    <2> QED BY <1>0, <1>1, <2>1, <2>2 DEF PushFields
  <1>3. \/ Steps(d, "upload", local[d] \ {f}, result[d], reference[d])
        \/ Steps(d, "returned", Nothing, "error", NoReference)
    BY CallsStep DEF Stores
  <1>4. UNCHANGED <<app, version>>
    BY <1>3 DEF Steps
  <1>5. DagsNeverMissing'
    <2>1. \A g : (\E k \in Keys : k[2] = g) => \E k \in Keys' : k[2] = g
      BY <1>2
    <2> QED BY <1>0, <1>4, <2>1 DEF DagsNeverMissing, IsPush
  <1>6. PushOf(d)'
    <2>1. CASE Steps(d, "returned", Nothing, "error", NoReference)
      BY <2>1 DEF Steps, PushOf
    <2>2. CASE Steps(d, "upload", local[d] \ {f}, result[d], reference[d])
      <3>1. app.mode[d] = "push" /\ Stored(d, local[d]) /\ (result[d] = "ok" => Stored(d, {}))
        BY <1>0 DEF PushOf
      <3>2. \A g : KeyOf(d, g)' = KeyOf(d, g)
        BY <1>4 DEF KeyOf, S3Key, GcsZipKey, GcsDirKey, BlobKey, DagKey, Trimmed, ArtifactsKey
      <3>3. SourceFiles(d)' = SourceFiles(d)
        BY <1>4 DEF SourceFiles, Pusher
      <3>4. Stored(d, local[d])' /\ (result[d] = "ok" => Stored(d, {})')
        <4>1. local'[d] = local[d] \ {f}
          BY <2>2 DEF Steps
        <4> QED BY <1>2, <1>4, <3>1, <3>2, <3>3, <4>1 DEF Stored
      <3> QED BY <1>4, <2>2, <3>1, <3>4 DEF Steps, PushOf
    <2> QED BY <1>3, <2>1, <2>2
  <1>7. \A e \in Deploys \ {d} : pc'[e] = pc[e] /\ local'[e] = local[e] /\ result'[e] = result[e]
    BY <1>3 DEF Steps
  <1> QED BY <1>2, <1>4, <1>5, <1>6, <1>7, PushGoesOn

(* Deploy d deletes a file that its source lacks.                           *)
LEMMA DeleteKeeps ==
  ASSUME IsPush, PushStory, Shape, NEW d \in Deploys, NEW k, DeleteUnmatched(d, k)
  PROVE  PushStory'
PROOF
  <1> DEFINE objs == [j \in Keys \ {k} |-> remote.objs[j]]
  <1>0. /\ PushFields /\ DagsNeverMissing /\ PushOf(d) /\ pc[d] = "delete" /\ k \in local[d]
        /\ app.kind = "dags" /\ app.mode[d] = "push" /\ k[2] \notin app.tree[d]
    BY DEF PushStory, DeleteUnmatched, PushOf
  <1>1. CASE GivesUp(d) /\ UNCHANGED remote
    BY <1>1, CallsStep, PushFails
  <1>2. CASE /\ remote' = [remote EXCEPT !.objs = [j \in Keys \ {k} |-> @[j]]]
             /\ Goes(d, "delete", local[d] \ {k}) \/ CallFails(d)
    <2>1. remote' = [objs |-> objs, versions |-> remote.versions, got |-> remote.got]
      BY <1>0, <1>2 DEF PushFields
    <2>2. remote'.got = remote.got /\ PushFields' /\ Keys' = Keys \ {k}
      <3>1. remote'.objs = objs /\ remote'.got = remote.got
        BY <2>1
      <3>2. Keys' = Keys \ {k}
        BY <3>1 DEF Keys
      <3> HIDE DEF objs
      <3> QED BY <1>0, <2>1, <3>1, <3>2 DEF PushFields
    <2>3. \/ Steps(d, "delete", local[d] \ {k}, result[d], reference[d])
          \/ Steps(d, "returned", Nothing, "error", NoReference)
      BY <1>2, CallsStep
    <2>4. UNCHANGED <<app, version>>
      BY <2>3 DEF Steps
    <2>5. DagsNeverMissing'
      <3>1. ASSUME NEW f \in Files, \A e \in Deploys : app.mode[e] = "push" => f \in app.tree[e]
            PROVE  \E j \in Keys' : j[2] = f
        <4>1. PICK j \in Keys : j[2] = f
          BY <1>0, <3>1 DEF DagsNeverMissing
        <4>2. j # k
          BY <1>0, <3>1, <4>1
        <4> QED BY <2>2, <4>1, <4>2
      <3> QED BY <2>4, <3>1 DEF DagsNeverMissing
    <2>6. PushOf(d)'
      BY <1>0, <2>3, <2>4 DEF Steps, PushOf, Stored
    <2>7. \A e \in Deploys \ {d} : pc'[e] = pc[e] /\ local'[e] = local[e] /\ result'[e] = result[e]
      BY <2>3 DEF Steps
    <2> QED BY <1>0, <2>2, <2>4, <2>5, <2>6, <2>7, PushGoesOn
  <1> QED BY <1>1, <1>2 DEF DeleteUnmatched

(* A pull begins: with the keys of its version, all that were stored.       *)
LEMMA PullBegins ==
  ASSUME IsPush, PushStory, Shape, NEW d \in Deploys, app.mode[d] = "pull", NEW keys, Pulls(d, keys),
         OfVersion(d, keys),
         \A e \in Deploys : app.mode[e] = "push" /\ result[e] = "ok" /\ version[e] = version[d] => HasFiles({e}, keys)
  PROVE  PushStory'
PROOF
  <1> DEFINE after == {e \in Deploys : app.mode[e] = "push" /\ result[e] = "ok" /\ version[e] = version[d]}
             x == [todo |-> keys, files |-> {}, after |-> after]
  <1>1. Steps(d, "download", x, result[d], reference[d]) /\ UNCHANGED remote
    BY CallsStep DEF Pulls
  <1>2. HasFiles(after, keys)
    BY DEF HasFiles
  <1>3. Pulling(d, x)
    <2> HIDE DEF after
    <2>1. x.todo = keys /\ x.files = {} /\ x.after = after /\ keys \cup {} = keys
      OBVIOUS
    <2>2. x = [todo |-> x.todo, files |-> x.files, after |-> x.after]
      OBVIOUS
    <2> HIDE DEF x
    <2> QED BY <1>2, <2>1, <2>2 DEF Pulling, OfVersion
  <1> HIDE DEF x
  <1>4. UNCHANGED <<app, version>> /\ local'[d] = x /\ pc'[d] = "download" /\ result'[d] = result[d]
    BY <1>1 DEF Steps
  <1>5. SourceFiles(d)' = SourceFiles(d) /\ \A e : SourceFiles(e)' = SourceFiles(e)
    BY <1>4 DEF SourceFiles, Pusher
  <1>6. Pulling(d, local[d])'
    BY <1>3, <1>4, <1>5 DEF Pulling, OfVersion, HasFiles
  <1>7. PushOf(d)'
    <2>1. PushOf(d)
      BY DEF PushStory
    <2>2. app.mode[d] = "pull" /\ result[d] = "ok" =>
            OfVersion(d, remote.got[d].files)' /\ HasFiles(remote.got[d].after, remote.got[d].files)'
      BY <1>1, <1>4, <1>5, <2>1 DEF PushOf, OfVersion, HasFiles
    <2> QED BY <1>1, <1>4, <1>6, <2>2 DEF PushOf
  <1> QED BY <1>1, <1>7, PushRests

(* The third place of each key.                                             *)
Third(third) == \A e, f : KeyOf(e, f) = <<version[e], f, third>>

LEMMA DirPullsKeep ==
  ASSUME IsPush, PushStory, Shape, NEW d \in Deploys, app.kind # "dags", NEW prefix, PullsDir(d, prefix),
         prefix[1] = version[d], Third(prefix[3])
  PROVE  PushStory'
PROOF
  <1>0. app.mode[d] = "pull"
    BY DEF PullsDir, MayStart
  <1> DEFINE keys == {k \in Keys : InPrefix(k, prefix)}
  <1>1. Pulls(d, keys)
    BY DEF PullsDir
  <1>2. OfVersion(d, keys)
    BY DEF OfVersion, InPrefix
  <1>3. ASSUME NEW e \in Deploys, app.mode[e] = "push", result[e] = "ok", version[e] = version[d]
        PROVE  HasFiles({e}, keys)
    <2>0. PushOf(e)
      BY DEF PushStory
    <2>2. Stored(e, {})
      BY <1>3, <2>0 DEF PushOf
    <2>3. ASSUME NEW f \in SourceFiles(e) PROVE KeyOf(e, f) \in keys /\ KeyOf(e, f)[2] = f
      <3> DEFINE key == <<version[e], f, prefix[3]>>
      <3>1. KeyOf(e, f) = key
        BY DEF Third
      <3>2. KeyOf(e, f) \in Keys
        BY <2>2 DEF Stored
      <3>3. key[1] = version[d] /\ key[2] = f /\ key[3] = prefix[3]
        BY <1>3
      <3> HIDE DEF key
      <3>4. InPrefix(key, prefix)
        BY <3>3 DEF InPrefix
      <3> QED BY <3>1, <3>2, <3>3, <3>4
    <2> HIDE DEF keys
    <2> QED BY <2>3 DEF HasFiles
  <1> HIDE DEF keys
  <1> QED BY <1>0, <1>1, <1>2, <1>3, PullBegins

LEMMA PullsKeep ==
  ASSUME IsPush, PushStory, Shape, NEW d \in Deploys,
         \/ DownloadS3Zip(d) \/ DownloadGcsZip(d) \/ DownloadBlobZip(d) \/ DownloadS3Dir(d) \/ DownloadGcsDir(d)
         \/ DownloadBlobDir(d) \/ DownloadDags(d)
  PROVE  PushStory'
PROOF
  <1>0. app.mode[d] = "pull"
    BY DEF DownloadS3Zip, DownloadGcsZip, DownloadBlobZip, DownloadS3Dir, DownloadGcsDir, DownloadBlobDir, DownloadDags,
           PullsDir, MayStart
  <1>1. ASSUME NEW third, app.kind \in {"s3zip", "ebzip", "gcszip", "blobzip"}, PullsZip(d, <<version[d], ZipFile, third>>)
        PROVE  PushStory'
    <2> DEFINE key == <<version[d], ZipFile, third>>
    <2>1. CASE GivesUp(d) /\ UNCHANGED remote
      BY <2>1, CallsStep, PushFails
    <2>2. CASE Pulls(d, {key})
      <3>1. key[1] = version[d] /\ key[2] = ZipFile
        OBVIOUS
      <3>2. \A e : SourceFiles(e) = {ZipFile}
        <4>1. ~Pusher.dir
          BY <1>1 DEF Pusher, Pushers, S3ZipPusher, GcsZipPusher, BlobZipPusher, BeanstalkPusher
        <4> QED BY <4>1 DEF SourceFiles
      <3> HIDE DEF key
      <3>3. OfVersion(d, {key}) /\ \A e \in Deploys : HasFiles({e}, {key})
        BY <3>1, <3>2 DEF OfVersion, HasFiles
      <3> QED BY <1>0, <2>2, <3>3, PullBegins
    <2> QED BY <1>1, <2>1, <2>2 DEF PullsZip
  <1>3. CASE DownloadS3Zip(d)
    BY <1>1, <1>3 DEF DownloadS3Zip, S3Key, ArtifactsKey
  <1>4. CASE DownloadGcsZip(d) \/ DownloadBlobZip(d)
    BY <1>1, <1>4 DEF DownloadGcsZip, DownloadBlobZip, GcsZipReadKey, BlobKey, Trimmed, ArtifactsKey
  <1>5. CASE DownloadS3Dir(d)
    <2> DEFINE prefix == <<version[d], "", app.lead>>
    <2>1. app.kind # "dags" /\ PullsDir(d, prefix)
      BY <1>5 DEF DownloadS3Dir, S3Key, ArtifactsKey
    <2>2. prefix[1] = version[d] /\ prefix[3] = app.lead
      OBVIOUS
    <2>3. Third(app.lead)
      BY <1>5 DEF Third, DownloadS3Dir, KeyOf, S3Key, ArtifactsKey
    <2> HIDE DEF prefix
    <2> QED BY <2>1, <2>2, <2>3, DirPullsKeep
  <1>6. CASE DownloadGcsDir(d) \/ DownloadBlobDir(d)
    <2> DEFINE prefix == <<version[d], "", FALSE>>
    <2>1. app.kind # "dags" /\ PullsDir(d, prefix)
      BY <1>6 DEF DownloadGcsDir, DownloadBlobDir, GcsDirKey, BlobKey, Trimmed, ArtifactsKey
    <2>2. prefix[1] = version[d] /\ prefix[3] = FALSE
      OBVIOUS
    <2>3. Third(prefix[3])
      BY <1>6 DEF Third, DownloadGcsDir, DownloadBlobDir, KeyOf, GcsDirKey, BlobKey, Trimmed, ArtifactsKey
    <2> HIDE DEF prefix
    <2> QED BY <2>1, <2>2, <2>3, DirPullsKeep
  <1>7. CASE DownloadDags(d)
    <2>1. app.kind = "dags" /\ \E keys : Pulls(d, keys)
      BY <1>7 DEF DownloadDags, PullsDir
    <2> QED BY <1>0, <2>1, PullBegins DEF OfVersion, HasFiles
  <1> QED BY <1>3, <1>4, <1>5, <1>6, <1>7

(* Where the keys stay, what is stored stays stored.                        *)
LEMMA StoredStays ==
  ASSUME UNCHANGED <<app, version>>, Keys' = Keys
  PROVE  \A d, rest : /\ Stored(d, rest) => Stored(d, rest)'
                      /\ OfVersion(d, rest) => OfVersion(d, rest)'
                      /\ HasFiles(d, rest) => HasFiles(d, rest)'
PROOF
  <1>1. \A d, f : KeyOf(d, f)' = KeyOf(d, f)
    BY DEF KeyOf, S3Key, GcsZipKey, GcsDirKey, BlobKey, DagKey, Trimmed, ArtifactsKey
  <1>2. \A d : SourceFiles(d)' = SourceFiles(d)
    BY DEF SourceFiles, Pusher
  <1> QED BY <1>1, <1>2 DEF Stored, OfVersion, HasFiles

(* Deploy d returns, the objects as they were.                              *)
LEMMA PushReturns ==
  ASSUME IsPush, PushStory, NEW d \in Deploys, NEW res, Steps(d, "returned", Nothing, res, NoReference),
         PushFields', remote'.objs = remote.objs, \A e \in Deploys \ {d} : remote'.got[e] = remote.got[e],
         app.mode[d] = "push" /\ res = "ok" => Stored(d, {}),
         app.mode[d] = "pull" /\ res = "ok" =>
           OfVersion(d, remote'.got[d].files) /\ HasFiles(remote'.got[d].after, remote'.got[d].files)
  PROVE  PushStory'
PROOF
  <1>1. UNCHANGED <<app, version>> /\ Keys' = Keys
    BY DEF Steps, Keys
  <1>2. DagsNeverMissing'
    BY <1>1 DEF PushStory, DagsNeverMissing, IsPush
  <1>3. PushOf(d)'
    <2>1. app'.mode[d] = "push" /\ result'[d] = "ok" => Stored(d, {})'
      BY <1>1, StoredStays DEF Steps
    <2>4. app'.mode[d] = "pull" /\ result'[d] = "ok" =>
            OfVersion(d, remote.got[d].files)' /\ HasFiles(remote.got[d].after, remote.got[d].files)'
      <3>1. ASSUME app.mode[d] = "pull", res = "ok"
            PROVE  OfVersion(d, remote.got[d].files)' /\ HasFiles(remote.got[d].after, remote.got[d].files)'
        <4>1. SourceFiles(d)' = SourceFiles(d) /\ \A e : SourceFiles(e)' = SourceFiles(e)
          BY <1>1 DEF SourceFiles, Pusher
        <4> QED BY <1>1, <3>1, <4>1 DEF OfVersion, HasFiles
      <3> QED BY <1>1, <3>1 DEF Steps
    <2> QED BY <2>1, <2>4 DEF Steps, PushOf
  <1> QED BY <1>1, <1>2, <1>3, PushGoesOn DEF Steps

LEMMA DownloadKeeps ==
  ASSUME IsPush, PushStory, Shape, NEW d \in Deploys, NEW k, Download(d, k)
  PROVE  PushStory'
PROOF
  <1> DEFINE l == local[d]
             file == <<k[1], k[2], remote.objs[k]>>
             x == [todo |-> l.todo \ {k}, after |-> l.after, files |-> l.files \cup {file}]
  <1>1. pc[d] = "download" /\ k \in l.todo /\ UNCHANGED remote /\ PushOf(d)
    BY DEF Download, PushStory
  <1>2. CASE GivesUp(d)
    BY <1>1, <1>2, CallsStep, PushFails
  <1>3. CASE Goes(d, "download", x)
    <2>1. Steps(d, "download", x, result[d], reference[d])
      BY <1>3, CallsStep
    <2>2. Pulling(d, l)
      BY <1>1 DEF PushOf
    <2>3. file[1] = k[1] /\ file[2] = k[2]
      OBVIOUS
    <2> HIDE DEF l, file
    <2>5. x = [todo |-> x.todo, files |-> x.files, after |-> x.after]
      OBVIOUS
    <2>6. x.todo = l.todo \ {k} /\ x.files = l.files \cup {file} /\ x.after = l.after
      OBVIOUS
    <2> HIDE DEF x
    <2>7. HasFiles(x.after, x.todo \cup x.files)
      <3>1. \A y \in l.todo \cup l.files : \E z \in x.todo \cup x.files : z[2] = y[2]
        BY <2>3, <2>6
      <3> QED BY <2>2, <2>6, <3>1 DEF Pulling, HasFiles
    <2>8. OfVersion(d, x.todo) /\ OfVersion(d, x.files)
      BY <1>1, <2>2, <2>3, <2>6 DEF Pulling, OfVersion
    <2>9. Pulling(d, x)
      BY <2>5, <2>6, <2>7, <2>8 DEF Pulling
    <2>10. UNCHANGED <<app, version>> /\ Keys' = Keys /\ local'[d] = x /\ pc'[d] = "download" /\ result'[d] = result[d]
      BY <1>1, <2>1 DEF Steps, Keys
    <2>11. Pulling(d, local[d])'
      BY <2>9, <2>10, StoredStays DEF Pulling
    <2>12. app.mode[d] = "pull"
      BY <1>1 DEF PushOf
    <2>13. app'.mode[d] = "pull" /\ result'[d] = "ok" =>
             OfVersion(d, remote.got[d].files)' /\ HasFiles(remote.got[d].after, remote.got[d].files)'
      BY <1>1, <2>10, <2>12, StoredStays DEF PushOf
    <2>14. PushOf(d)'
      BY <2>10, <2>11, <2>12, <2>13 DEF PushOf
    <2> QED BY <1>1, <2>1, <2>14, PushRests
  <1> QED BY <1>2, <1>3 DEF Download

(* What Pull or ListArtifactVersions returns.                               *)
LEMMA GotKeeps ==
  ASSUME PushFields, NEW d \in Deploys, NEW r, remote' = [remote EXCEPT !.got[d] = r]
  PROVE  /\ PushFields' /\ remote'.objs = remote.objs /\ remote'.got[d] = r
         /\ \A e \in Deploys \ {d} : remote'.got[e] = remote.got[e]
PROOF
  <1> DEFINE got == [remote.got EXCEPT ![d] = r]
  <1>1. remote' = [objs |-> remote.objs, versions |-> remote.versions, got |-> got]
    BY DEF PushFields
  <1>2. got = [e \in Deploys |-> got[e]] /\ got[d] = r /\ \A e \in Deploys \ {d} : got[e] = remote.got[e]
    BY DEF PushFields
  <1> HIDE DEF got
  <1>3. remote'.objs = remote.objs /\ remote'.versions = remote.versions /\ remote'.got = got
    BY <1>1
  <1> QED BY <1>1, <1>2, <1>3 DEF PushFields

LEMMA PushStoryNext ==
  ASSUME Shape, PushStory, PushNext
  PROVE  PushStory'
PROOF
  <1>0. IsPush /\ PushFields /\ DagsNeverMissing /\ \A d \in Deploys : PushOf(d)
    BY DEF PushNext, PushStory
  <1>1. ASSUME NEW d \in Deploys, PushRejected(d) \/ PushCallFails(d) PROVE PushStory'
    BY <1>0, <1>1, CallsStep, PushFails DEF PushRejected, PushCallFails
  <1>2. ASSUME NEW d \in Deploys, WalkDir(d) PROVE PushStory'
    <2>1. Steps(d, "upload", SourceFiles(d), result[d], reference[d]) /\ UNCHANGED remote /\ app.mode[d] = "push"
      BY <1>2, CallsStep DEF WalkDir, MayStart
    <2>2. UNCHANGED <<app, version>> /\ Keys' = Keys
      BY <2>1 DEF Steps, Keys
    <2>3. Stored(d, local[d])'
      <3>1. Stored(d, SourceFiles(d)) /\ local'[d] = SourceFiles(d)
        BY <2>1 DEF Stored, Steps
      <3>2. Stored(d, SourceFiles(d))' /\ SourceFiles(d)' = SourceFiles(d)
        BY <2>2, <3>1 DEF Stored, SourceFiles, Pusher
      <3> QED BY <3>1, <3>2
    <2>4. result[d] = "ok" => Stored(d, {})'
      BY <1>0, <2>1, <2>2, StoredStays DEF PushOf
    <2>5. PushOf(d)'
      BY <2>1, <2>2, <2>3, <2>4 DEF PushOf, Steps
    <2> QED BY <1>0, <2>1, <2>5, PushRests
  <1>3. ASSUME NEW d \in Deploys, Uploaded(d) PROVE PushStory'
    <2>1. /\ local[d] = {} /\ pc[d] = "upload" /\ UNCHANGED remote /\ app.mode[d] = "push" /\ Stored(d, {})
          /\ UNCHANGED remote
      BY <1>0, <1>3 DEF Uploaded, PushOf
    <2>2. ASSUME NEW to \in {"unmatched", "create"}, to = "unmatched" => app.kind = "dags", Goes(d, to, Nothing)
          PROVE  PushStory'
      <3>1. Steps(d, to, Nothing, result[d], reference[d])
        BY <2>2, CallsStep
      <3>2. UNCHANGED <<app, version>> /\ Keys' = Keys
        BY <2>1, <3>1 DEF Steps, Keys
      <3>3. Stored(d, {})'
        BY <2>1, <3>2, StoredStays
      <3>4. PushOf(d)'
        BY <2>1, <2>2, <3>1, <3>2, <3>3 DEF PushOf, Steps
      <3> QED BY <1>0, <2>1, <3>1, <3>4, PushRests
    <2>3. CASE Succeeds(d, NoReference)
      <3>1. Steps(d, "returned", Nothing, "ok", NoReference)
        BY <2>3, CallsStep
      <3>2. PushFields'
        BY <1>0, <2>1 DEF PushFields
      <3> QED BY <1>0, <2>1, <3>1, <3>2, PushReturns
    <2> QED BY <1>3, <2>2, <2>3 DEF Uploaded
  <1>4. ASSUME NEW d \in Deploys, ListUnmatched(d) PROVE PushStory'
    <2> DEFINE old == {k \in Keys : k[2] \notin app.tree[d]}
    <2>1. Steps(d, "delete", old, result[d], reference[d]) /\ UNCHANGED remote /\ pc[d] = "unmatched"
      BY <1>4, CallsStep DEF ListUnmatched
    <2>2. app.mode[d] = "push" /\ app.kind = "dags" /\ UNCHANGED <<app, version>>
      BY <1>0, <2>1 DEF PushOf, Steps
    <2>3. PushOf(d)'
      BY <2>1, <2>2 DEF PushOf, Stored, Steps
    <2> QED BY <1>0, <2>1, <2>3, PushRests
  <1>5. ASSUME NEW d \in Deploys, SyncComplete(d) PROVE PushStory'
    <2>1. Steps(d, "returned", Nothing, "ok", NoReference) /\ UNCHANGED remote /\ pc[d] = "delete"
      BY <1>5, CallsStep DEF SyncComplete
    <2>2. app.mode[d] = "push" /\ Stored(d, {}) /\ PushFields'
      BY <1>0, <2>1 DEF PushOf, Stored, PushFields
    <2> QED BY <1>0, <2>1, <2>2, PushReturns
  <1>6. ASSUME NEW d \in Deploys, CreateAppVersion(d) PROVE PushStory'
    <2>1. app.mode[d] = "push" /\ Stored(d, {})
      BY <1>0, <1>6 DEF CreateAppVersion, PushOf
    <2>2. CASE GivesUp(d) /\ UNCHANGED remote
      BY <1>0, <2>2, CallsStep, PushFails
    <2>3. CASE /\ remote' = [remote EXCEPT !.versions = @ \cup {version[d]}]
               /\ Succeeds(d, NoReference) \/ CallFails(d)
      <3>1. remote' = [objs |-> remote.objs, versions |-> remote.versions \cup {version[d]}, got |-> remote.got]
        BY <1>0, <2>3 DEF PushFields
      <3>2. remote'.objs = remote.objs /\ remote'.got = remote.got /\ PushFields'
        BY <1>0, <3>1 DEF PushFields
      <3>3. \E res : Steps(d, "returned", Nothing, res, NoReference)
        BY <2>3, CallsStep
      <3> QED BY <1>0, <2>1, <3>2, <3>3, PushReturns
    <2> QED BY <1>6, <2>2, <2>3 DEF CreateAppVersion
  <1>7. ASSUME NEW d \in Deploys, Pulled(d) PROVE PushStory'
    <2> DEFINE r == [files |-> local[d].files, after |-> local[d].after]
    <2>1. Steps(d, "returned", Nothing, "ok", NoReference) /\ remote' = [remote EXCEPT !.got[d] = r]
      BY <1>7, CallsStep DEF Pulled
    <2>2. Pulling(d, local[d]) /\ app.mode[d] = "pull" /\ local[d].todo = {}
      BY <1>0, <1>7 DEF Pulled, PushOf
    <2>3. r.files = local[d].files /\ r.after = local[d].after
      OBVIOUS
    <2> HIDE DEF r
    <2>4. OfVersion(d, r.files) /\ HasFiles(r.after, r.files)
      <3>1. local[d].todo \cup local[d].files = local[d].files
        BY <2>2
      <3> QED BY <2>2, <2>3, <3>1 DEF Pulling
    <2>5. /\ PushFields' /\ remote'.objs = remote.objs /\ remote'.got[d] = r
          /\ \A e \in Deploys \ {d} : remote'.got[e] = remote.got[e]
      BY <1>0, <2>1, GotKeeps
    <2> QED BY <1>0, <2>1, <2>2, <2>4, <2>5, PushReturns
  <1>8. ASSUME NEW d \in Deploys, ListArtifactVersions(d) PROVE PushStory'
    <2>1. /\ Steps(d, "returned", Nothing, "ok", NoReference) /\ app.mode[d] = "list"
          /\ \E r : remote' = [remote EXCEPT !.got[d] = r]
      BY <1>8, CallsStep DEF ListArtifactVersions, MayStart
    <2>2. /\ PushFields' /\ remote'.objs = remote.objs
          /\ \A e \in Deploys \ {d} : remote'.got[e] = remote.got[e]
      BY <1>0, <2>1, GotKeeps
    <2> QED BY <1>0, <2>1, <2>2, PushReturns
  <1>9. ASSUME NEW d \in Deploys, NEW f,
               S3Upload(d, f) \/ GcsUpload(d, f) \/ DagUpload(d, f) \/ BlobZipUpload(d, f) \/ BlobDirUpload(d, f)
        PROVE  PushStory'
    <2>1. /\ pc[d] = "upload" /\ f \in local[d]
          /\ Stores(d, f) \/ (GivesUp(d) /\ UNCHANGED remote)
      BY <1>9 DEF S3Upload, GcsUpload, DagUpload, BlobZipUpload, BlobDirUpload
    <2>2. CASE Stores(d, f)
      BY <1>0, <2>1, <2>2, StoresKeeps
    <2>3. CASE GivesUp(d) /\ UNCHANGED remote
      BY <1>0, <2>3, CallsStep, PushFails
    <2> QED BY <2>1, <2>2, <2>3
  <1>10. ASSUME NEW d \in Deploys, NEW k, DeleteUnmatched(d, k) \/ Download(d, k) PROVE PushStory'
    BY <1>0, <1>10, DeleteKeeps, DownloadKeeps
  <1>11. ASSUME NEW d \in Deploys,
                \/ DownloadS3Zip(d) \/ DownloadGcsZip(d) \/ DownloadBlobZip(d) \/ DownloadS3Dir(d) \/ DownloadGcsDir(d)
                \/ DownloadBlobDir(d) \/ DownloadDags(d)
         PROVE  PushStory'
    BY <1>0, <1>11, PullsKeep
  <1> QED BY <1>1, <1>2, <1>3, <1>4, <1>5, <1>6, <1>7, <1>8, <1>9, <1>10, <1>11 DEF PushNext

LEMMA PushStoryKept ==
  ASSUME Shape, PushStory, [Next]_deployVars
  PROVE  PushStory'
PROOF
  <1> SUFFICES ASSUME IsPush' PROVE PushStory'
    BY DEF PushStory
  <1>1. IsPush /\ UNCHANGED <<app, version>>
    BY StepOfKind DEF Frame, IsPush, PusherKinds
  <1>2. CASE PushNext
    BY <1>2, PushStoryNext
  <1>3. CASE Rest
    <2>1. /\ remote' = remote /\ local' = local
          /\ \A e \in Deploys :
               \/ pc'[e] = pc[e] /\ result'[e] = result[e]
               \/ pc'[e] = "start" /\ result'[e] = "none"
      BY <1>3 DEF Rest, deployVars, Again, Shape
    <2>2. PushFields /\ DagsNeverMissing /\ (\A e \in Deploys : PushOf(e)) /\ Keys' = Keys
      BY <1>1, <2>1 DEF PushStory, Keys
    <2>3. PushFields' /\ DagsNeverMissing'
      BY <1>1, <2>1, <2>2 DEF PushFields, DagsNeverMissing, IsPush
    <2>4. ASSUME NEW e \in Deploys PROVE PushOf(e)'
      <3>1. CASE pc'[e] = "start" /\ result'[e] = "none"
        BY <3>1 DEF PushOf
      <3>2. CASE pc'[e] = pc[e] /\ result'[e] = result[e]
        <4>1. /\ Stored(e, {}) => Stored(e, {})'
              /\ Stored(e, local[e]) => Stored(e, local[e])'
              /\ Pulling(e, local[e]) => Pulling(e, local[e])'
              /\ OfVersion(e, remote.got[e].files) => OfVersion(e, remote.got[e].files)'
              /\ HasFiles(remote.got[e].after, remote.got[e].files) => HasFiles(remote.got[e].after, remote.got[e].files)'
          BY <1>1, <2>1, <2>2, StoredStays DEF Pulling
        <4> QED BY <1>1, <2>1, <2>2, <3>2, <4>1 DEF PushOf
      <3> QED BY <2>1, <3>1, <3>2
    <2> QED BY <2>3, <2>4 DEF PushStory
  <1> QED BY <1>1, <1>2, <1>3, StepOfKind

LEMMA PushInvariant == Spec => [](Shape /\ PushStory)
PROOF
  <1>1. Init => PushStory
    <2> SUFFICES ASSUME Init, IsPush PROVE PushStory
      BY DEF PushStory
    <2> QED BY InitOfKind, PushStoryInit
  <1>2. Shape /\ [Next]_deployVars => Shape'
    BY StepOfKind DEF Frame
  <1> QED BY <1>1, <1>2, FrameInit, PushStoryKept, PTL DEF Spec

(* A file that was in the directory of the DAGs, and that the source of    *)
(* every push has, is never missing: only what a source lacks is deleted,  *)
(* and only from what was stored.                                           *)
THEOREM DagsStay == Spec => []DagsNeverMissing
PROOF
  <1>1. PushStory => DagsNeverMissing
    BY DEF PushStory, DagsNeverMissing
  <1> QED BY <1>1, PushInvariant, PTL

(* A pull that reports success has fetched every file of every push of its *)
(* version that had succeeded when it began, and no file of another.       *)
THEOREM PullsReproduce == Spec => []PullReproducesPush
PROOF
  <1>1. PushStory => PullReproducesPush
    <2> SUFFICES ASSUME IsPush, NEW d \in Deploys, PushOf(d), app.mode[d] = "pull", result[d] = "ok", app.sep
                 PROVE  /\ \A x \in remote.got[d].files : app.kind # "dags" => x[1] = version[d]
                        /\ \A e \in remote.got[d].after :
                             app.kind # "dags" => \A f \in SourceFiles(e) : \E x \in remote.got[d].files : x[2] = f
      BY DEF PushStory, PullReproducesPush
    <2> QED BY DEF PushOf, OfVersion, HasFiles
  <1> QED BY <1>1, PushInvariant, PTL

-----------------------------------------------------------------------------
(* The pushers of images: a tag, once in the repository, stays, so what a  *)
(* listing still has to read is all there.                                  *)
Tags == {v \in Versions : remote.repo[v] # Nothing}

ImageFields ==
  /\ remote = [host |-> remote.host, repo |-> remote.repo, got |-> remote.got]
  /\ remote.host = [v \in Versions |-> remote.host[v]]
  /\ remote.repo = [v \in Versions |-> remote.repo[v]]
  /\ remote.got = [d \in Deploys |-> remote.got[d]]

ImageOf(d) ==
  /\ app.mode[d] \in {"push", "pull", "list"}
  /\ pc[d] \in {"tag", "push"} => app.mode[d] = "push"
  /\ pc[d] = "pull" => app.mode[d] = "pull"
  /\ pc[d] = "list" => app.mode[d] = "list"
  /\ pc[d] \in {"exchange", "tag", "push", "pull"} /\ app.mode[d] # "list" => version[d] \in Versions
  /\ pc[d] = "push" => remote.host[version[d]] # Nothing
  /\ pc[d] \in {"exchange", "list"} /\ app.mode[d] = "list" =>
       /\ local[d] = [listed |-> local[d].listed, before |-> local[d].before]
       /\ local[d].before \subseteq Tags
  /\ app.mode[d] = "list" /\ result[d] = "ok" => remote.got[d].before \subseteq remote.got[d].listed

ImageStory == IsImage => ImageFields /\ \A d \in Deploys : ImageOf(d)

LEMMA ImageGoesOn ==
  ASSUME IsImage, ImageStory, UNCHANGED <<app, version>>, ImageFields', Tags \subseteq Tags',
         \A v \in Versions : remote.host[v] # Nothing => remote'.host[v] # Nothing,
         NEW d \in Deploys, ImageOf(d)',
         \A e \in Deploys \ {d} :
           pc'[e] = pc[e] /\ local'[e] = local[e] /\ result'[e] = result[e] /\ remote'.got[e] = remote.got[e]
  PROVE  ImageStory'
PROOF
  <1>1. ASSUME NEW e \in Deploys \ {d} PROVE ImageOf(e)'
    <2>1. ImageOf(e)
      BY DEF ImageStory
    <2>2. remote'.got[e] = remote.got[e] /\ pc'[e] = pc[e] /\ local'[e] = local[e] /\ result'[e] = result[e]
      OBVIOUS
    <2> QED BY <2>1, <2>2 DEF ImageOf
  <1> QED BY <1>1 DEF ImageStory

LEMMA ImageStoryInit == ImageInit => ImageStory
PROOF
  <1> SUFFICES ASSUME ImageInit PROVE ImageStory
    OBVIOUS
  <1>1. PICK pushed \in [Versions -> {Nothing, Earlier}] :
          remote = [host |-> [v \in Versions |-> Nothing], repo |-> pushed, got |-> [d \in Deploys |-> Nothing]]
    BY DEF ImageInit
  <1>2. ImageFields
    BY <1>1 DEF ImageFields
  <1>3. \A d \in Deploys : pc[d] = "start" /\ result[d] = "none" /\ app.mode[d] \in {"push", "pull", "list"}
    BY DEF ImageInit, DeployInit, ImageApps
  <1> QED BY <1>2, <1>3 DEF ImageStory, ImageOf

(* Deploy d goes on or returns, the registry and the host as they were.    *)
LEMMA ImageRests ==
  ASSUME IsImage, ImageStory, NEW d \in Deploys, NEW to, NEW x, NEW res, NEW ref, Steps(d, to, x, res, ref),
         UNCHANGED remote, ImageOf(d)'
  PROVE  ImageStory'
PROOF
  <1>1. UNCHANGED <<app, version>> /\ ImageFields' /\ Tags' = Tags
    BY DEF Steps, ImageStory, ImageFields, Tags
  <1> QED BY <1>1, ImageGoesOn DEF Steps

LEMMA ImageFails ==
  ASSUME IsImage, ImageStory, NEW d \in Deploys, UNCHANGED remote,
         Steps(d, "returned", Nothing, "error", NoReference)
  PROVE  ImageStory'
PROOF
  <1>1. ImageOf(d)'
    BY DEF Steps, ImageOf, ImageStory
  <1> QED BY <1>1, ImageRests

LEMMA LoginKeeps ==
  ASSUME IsImage, ImageStory, Shape, Versioned, NEW d \in Deploys, LoginAuth(d) \/ ExchangeForAccessToken(d)
  PROVE  ImageStory'
PROOF
  <1>0. ImageFields /\ ImageOf(d)
    BY DEF ImageStory
  <1>1. CASE LoginAuth(d)
    <2> DEFINE to == CASE Registries[app.kind].exchanges -> "exchange" [] app.mode[d] = "push" -> "tag" [] OTHER -> app.mode[d]
               x == IF app.mode[d] = "list" THEN [listed |-> {}, before |-> Tags] ELSE Nothing
    <2>1. Steps(d, to, x, result[d], reference[d]) /\ UNCHANGED remote
      BY <1>1, CallsStep DEF LoginAuth, Tags
    <2>2. /\ to \in {"exchange", "tag", "pull", "list"}
          /\ to = "tag" => app.mode[d] = "push"
          /\ to = "pull" => app.mode[d] = "pull"
          /\ to = "list" => app.mode[d] = "list"
      BY <1>0 DEF ImageOf
    <2>3. app.mode[d] # "list" => version[d] \in Versions
      BY <1>1 DEF LoginAuth, Valid, Versioned
    <2>4. app.mode[d] = "list" => x = [listed |-> x.listed, before |-> x.before] /\ x.before = Tags
      <3> HIDE DEF to
      <3> QED OBVIOUS
    <2> HIDE DEF to, x
    <2>5. UNCHANGED <<app, version>> /\ Tags' = Tags /\ pc'[d] = to /\ local'[d] = x /\ result'[d] = result[d]
      BY <2>1 DEF Steps, Tags
    <2>6. ImageOf(d)'
      BY <1>0, <2>1, <2>2, <2>3, <2>4, <2>5 DEF ImageOf
    <2> QED BY <2>1, <2>6, ImageRests
  <1>2. CASE ExchangeForAccessToken(d)
    <2> DEFINE to == IF app.mode[d] = "push" THEN "tag" ELSE app.mode[d]
    <2>1. Steps(d, to, local[d], result[d], reference[d]) /\ UNCHANGED remote /\ pc[d] = "exchange"
      BY <1>2, CallsStep DEF ExchangeForAccessToken
    <2>2. /\ to \in {"tag", "pull", "list"}
          /\ to = "tag" => app.mode[d] = "push"
          /\ to = "pull" => app.mode[d] = "pull"
          /\ to = "list" => app.mode[d] = "list"
      BY <1>0 DEF ImageOf
    <2> HIDE DEF to
    <2>3. UNCHANGED <<app, version>> /\ Tags' = Tags /\ pc'[d] = to /\ local'[d] = local[d] /\ result'[d] = result[d]
      BY <2>1 DEF Steps, Tags
    <2>4. ImageOf(d)'
      BY <1>0, <2>1, <2>2, <2>3 DEF ImageOf
    <2> QED BY <2>1, <2>4, ImageRests
  <1> QED BY <1>1, <1>2

(* A tag of the host names an image from then on.                           *)
LEMMA HostKeeps ==
  ASSUME ImageFields, NEW v \in Versions, NEW image, image # Nothing, remote' = [remote EXCEPT !.host[v] = image]
  PROVE  /\ ImageFields' /\ Tags' = Tags /\ remote'.got = remote.got /\ remote'.host[v] # Nothing
         /\ \A w \in Versions : remote.host[w] # Nothing => remote'.host[w] # Nothing
PROOF
  <1> DEFINE host == [remote.host EXCEPT ![v] = image]
  <1>1. remote' = [host |-> host, repo |-> remote.repo, got |-> remote.got]
    BY DEF ImageFields
  <1>2. host = [w \in Versions |-> host[w]] /\ host[v] = image /\ \A w \in Versions \ {v} : host[w] = remote.host[w]
    BY DEF ImageFields
  <1> HIDE DEF host
  <1>3. remote'.host = host /\ remote'.repo = remote.repo /\ remote'.got = remote.got
    BY <1>1
  <1> QED BY <1>1, <1>2, <1>3 DEF ImageFields, Tags

LEMMA ImageStoryNext ==
  ASSUME Shape, Versioned, ImageStory, ImageNext
  PROVE  ImageStory'
PROOF
  <1>0. IsImage /\ ImageFields /\ \A d \in Deploys : ImageOf(d)
    BY DEF ImageNext, ImageStory
  <1>1. ASSUME NEW d \in Deploys, ImageRejected(d) \/ ImageCallFails(d) PROVE ImageStory'
    BY <1>0, <1>1, CallsStep, ImageFails DEF ImageRejected, ImageCallFails
  <1>2. ASSUME NEW d \in Deploys, LoginAuth(d) \/ ExchangeForAccessToken(d) PROVE ImageStory'
    BY <1>0, <1>2, LoginKeeps
  <1>3. ASSUME NEW d \in Deploys, ImageTagged(d) PROVE ImageStory'
    <2>1. /\ Steps(d, "push", Nothing, result[d], reference[d])
          /\ remote' = [remote EXCEPT !.host[version[d]] = d] /\ pc[d] = "tag"
      BY <1>3, CallsStep DEF ImageTagged
    <2>2. app.mode[d] = "push" /\ version[d] \in Versions /\ d # Nothing
      BY <1>0, <2>1, ImageAssumption DEF ImageOf
    <2>3. /\ ImageFields' /\ Tags' = Tags /\ remote'.got = remote.got /\ remote'.host[version[d]] # Nothing
          /\ \A w \in Versions : remote.host[w] # Nothing => remote'.host[w] # Nothing
      BY <1>0, <2>1, <2>2, HostKeeps
    <2>4. ImageOf(d)'
      BY <2>1, <2>2, <2>3 DEF Steps, ImageOf
    <2> QED BY <1>0, <2>1, <2>3, <2>4, ImageGoesOn DEF Steps
  <1>4. ASSUME NEW d \in Deploys, PushImage(d) PROVE ImageStory'
    <2> DEFINE v == version[d]
               image == remote.host[v]
               repo == [remote.repo EXCEPT ![v] = image]
    <2>1. \E res : Steps(d, "returned", Nothing, res, NoReference)
      BY <1>4, CallsStep DEF PushImage
    <2>2. app.mode[d] = "push" /\ v \in Versions /\ image # Nothing
      BY <1>0, <1>4 DEF PushImage, ImageOf
    <2>3. remote' = [host |-> remote.host, repo |-> repo, got |-> remote.got]
      BY <1>0, <1>4 DEF PushImage, ImageFields
    <2>4. /\ repo = [w \in Versions |-> repo[w]]
          /\ \A w \in Versions : remote.repo[w] # Nothing => repo[w] # Nothing
      <3> HIDE DEF image, v
      <3> QED BY <1>0, <2>2 DEF ImageFields
    <2> HIDE DEF repo
    <2>5. remote'.host = remote.host /\ remote'.repo = repo /\ remote'.got = remote.got
      BY <2>3
    <2>6. ImageFields' /\ Tags \subseteq Tags'
      BY <1>0, <2>3, <2>4, <2>5 DEF ImageFields, Tags
    <2>7. ImageOf(d)'
      BY <2>1, <2>2 DEF Steps, ImageOf
    <2>8. UNCHANGED <<app, version>> /\ \A e \in Deploys \ {d} : pc'[e] = pc[e] /\ local'[e] = local[e] /\ result'[e] = result[e]
      BY <2>1 DEF Steps
    <2> QED BY <1>0, <2>5, <2>6, <2>7, <2>8, ImageGoesOn
  <1>5. ASSUME NEW d \in Deploys, PullImage(d) PROVE ImageStory'
    <2>1. CASE GivesUp(d) /\ UNCHANGED remote
      BY <1>0, <2>1, CallsStep, ImageFails
    <2>2. CASE /\ remote.repo[version[d]] # Nothing
               /\ remote' = [remote EXCEPT !.host[version[d]] = remote.repo[version[d]]]
               /\ Succeeds(d, NoReference)
      <3>1. Steps(d, "returned", Nothing, "ok", NoReference)
        BY <2>2, CallsStep
      <3>2. app.mode[d] = "pull" /\ version[d] \in Versions
        BY <1>0, <1>5 DEF PullImage, ImageOf
      <3>3. /\ ImageFields' /\ Tags' = Tags /\ remote'.got = remote.got
            /\ \A w \in Versions : remote.host[w] # Nothing => remote'.host[w] # Nothing
        BY <1>0, <2>2, <3>2, HostKeeps
      <3>4. ImageOf(d)'
        BY <3>1, <3>2 DEF Steps, ImageOf
      <3> QED BY <1>0, <3>1, <3>3, <3>4, ImageGoesOn DEF Steps
    <2> QED BY <1>5, <2>1, <2>2 DEF PullImage
  <1>6. ASSUME NEW d \in Deploys, TagsPage(d) PROVE ImageStory'
    <2> DEFINE l == local[d]
               rest == Tags \ l.listed
    <2>0. pc[d] = "list" /\ app.mode[d] = "list" /\ l = [listed |-> l.listed, before |-> l.before] /\ l.before \subseteq Tags
      BY <1>0, <1>6 DEF TagsPage, ImageOf
    <2>1. PICK page \in SUBSET rest :
            \/ Goes(d, "list", [local[d] EXCEPT !.listed = @ \cup page]) /\ UNCHANGED remote
            \/ /\ page = rest
               /\ remote' = [remote EXCEPT !.got[d] = [listed |-> l.listed \cup page, before |-> l.before]]
               /\ Succeeds(d, NoReference)
      BY <1>6 DEF TagsPage, Tags
    <2>2. CASE Goes(d, "list", [local[d] EXCEPT !.listed = @ \cup page]) /\ UNCHANGED remote
      <3> DEFINE x == [l EXCEPT !.listed = @ \cup page]
      <3>1. Steps(d, "list", x, result[d], reference[d])
        BY <2>2, CallsStep
      <3> HIDE DEF l
      <3>2. x = [listed |-> x.listed, before |-> x.before] /\ x.before = l.before
        BY <2>0
      <3> HIDE DEF x
      <3>3. UNCHANGED <<app, version>> /\ Tags' = Tags /\ pc'[d] = "list" /\ local'[d] = x /\ result'[d] = result[d]
        BY <2>2, <3>1 DEF Steps, Tags
      <3>4. ImageOf(d)'
        BY <1>0, <2>0, <2>2, <3>2, <3>3 DEF ImageOf
      <3> QED BY <1>0, <2>2, <3>1, <3>4, ImageRests
    <2>3. CASE /\ page = rest
               /\ remote' = [remote EXCEPT !.got[d] = [listed |-> l.listed \cup page, before |-> l.before]]
               /\ Succeeds(d, NoReference)
      <3> DEFINE r == [listed |-> l.listed \cup page, before |-> l.before]
                 got == [remote.got EXCEPT ![d] = r]
      <3>1. Steps(d, "returned", Nothing, "ok", NoReference)
        BY <2>3, CallsStep
      <3>2. r.before \subseteq r.listed
        BY <2>0, <2>3
      <3>3. remote' = [host |-> remote.host, repo |-> remote.repo, got |-> got]
        BY <1>0, <2>3 DEF ImageFields
      <3> HIDE DEF r
      <3>4. got = [e \in Deploys |-> got[e]] /\ got[d] = r /\ \A e \in Deploys \ {d} : got[e] = remote.got[e]
        BY <1>0 DEF ImageFields
      <3> HIDE DEF got
      <3>5. remote'.host = remote.host /\ remote'.repo = remote.repo /\ remote'.got = got
        BY <3>3
      <3>6. ImageFields' /\ Tags' = Tags
        BY <1>0, <3>3, <3>4, <3>5 DEF ImageFields, Tags
      <3>7. ImageOf(d)'
        BY <2>0, <3>1, <3>2, <3>4, <3>5 DEF Steps, ImageOf
      <3> QED BY <1>0, <3>1, <3>4, <3>5, <3>6, <3>7, ImageGoesOn DEF Steps
    <2> QED BY <2>1, <2>2, <2>3
  <1> QED BY <1>1, <1>2, <1>3, <1>4, <1>5, <1>6 DEF ImageNext

LEMMA ImageStoryKept ==
  ASSUME Shape, Versioned, ImageStory, [Next]_deployVars
  PROVE  ImageStory'
PROOF
  <1> SUFFICES ASSUME IsImage' PROVE ImageStory'
    BY DEF ImageStory
  <1>1. IsImage /\ UNCHANGED <<app, version>>
    BY StepOfKind DEF Frame, IsImage
  <1>2. CASE ImageNext
    BY <1>2, ImageStoryNext
  <1>3. CASE Rest
    <2>1. /\ remote' = remote /\ local' = local
          /\ \A e \in Deploys :
               \/ pc'[e] = pc[e] /\ result'[e] = result[e]
               \/ pc'[e] = "start" /\ result'[e] = "none"
      BY <1>3 DEF Rest, deployVars, Again, Shape
    <2> QED BY <1>1, <2>1 DEF ImageStory, ImageFields, ImageOf, Tags
  <1> QED BY <1>1, <1>2, <1>3, StepOfKind

(* A listing that reports success has every tag that was there when it     *)
(* began, however many pages it read and whatever is pushed meanwhile.     *)
THEOREM ListingsMissNoTag == Spec => []TagsListed
PROOF
  <1>1. Init => ImageStory
    <2> SUFFICES ASSUME Init, IsImage PROVE ImageStory
      BY DEF ImageStory
    <2> QED BY InitOfKind, ImageStoryInit
  <1>2. ImageStory => TagsListed
    BY DEF ImageStory, ImageOf, TagsListed
  <1> QED BY <1>1, <1>2, FrameInit, FrameNext, ImageStoryKept, PTL DEF Spec

-----------------------------------------------------------------------------
(* The caches of the CDNs: the first run of a deploy knows whenever one of *)
(* them may hide what it changed, and a run that has invalidations to show *)
(* has gone through all of them.                                            *)
Unmarked(d) == \A c \in SurelyPurged : d \notin remote.stale[c]
FirstRun(d) == attempt[d] = 0

CacheFields == OfCdns(remote.stale) /\ app.cloud \in Clouds /\ app.versioned \subseteq Cdns

CacheOf(d) ==
  /\ attempt[d] \in Nat
  /\ pc[d] # "returned" => result[d] = "none"
  /\ pc[d] \in {"get", "update", "putEnv", "purge"} => CdnLocalFields(local[d]) /\ local[d].next \in Nat \ {0}
  /\ FirstRun(d) /\ pc[d] \in {"start", "get"} => Unmarked(d)
  /\ FirstRun(d) /\ pc[d] \in {"update", "putEnv", "purge"} /\ ~local[d].changed => Unmarked(d)
  /\ pc[d] \in {"get", "update", "putEnv"} => local[d].ids = <<>>
  /\ pc[d] = "purge" => /\ local[d].ids # <<>> => local[d].changed
                        /\ \A c \in SurelyPurged : c < local[d].next => d \notin remote.stale[c]
  /\ result[d] = "ok" /\ (FirstRun(d) \/ reference[d] # NoReference) => Unmarked(d)

CacheStory == IsCdn => CacheFields /\ \A d \in Deploys : CacheOf(d)

LEMMA CacheStoryInit == CdnInit => CacheStory
PROOF
  <1> SUFFICES ASSUME CdnInit PROVE CacheStory
    OBVIOUS
  <1>1. remote.stale = [c \in Cdns |-> {}]
    BY DEF CdnInit
  <1>2. app \in CdnApps /\ app.versioned \subseteq Cdns
    BY DEF CdnInit, Cdns
  <1>3. app.cloud \in Clouds
    BY <1>2 DEF CdnApps
  <1>4. \A d \in Deploys : pc[d] = "start" /\ result[d] = "none" /\ attempt[d] = 0 /\ Unmarked(d)
    BY <1>1 DEF CdnInit, DeployInit, Unmarked, SurelyPurged
  <1>5. CacheFields
    BY <1>1, <1>2, <1>3 DEF CacheFields, OfCdns
  <1>6. \A d \in Deploys : CacheOf(d)
    BY <1>4 DEF CacheOf
  <1> QED BY <1>5, <1>6 DEF CacheStory

LEMMA SamePurged ==
  ASSUME app' = app
  PROVE  /\ Cdns' = Cdns /\ SurelyPurged' = SurelyPurged /\ SurelyPurged \subseteq Cdns
         /\ remote'.stale = remote.stale => \A d : Unmarked(d)' = Unmarked(d)
  BY DEF Cdns, SurelyPurged, Unmarked

(* Deploy e goes on from where it was, marked nowhere where it was not.     *)
LEMMA CacheStays ==
  ASSUME IsCdn, CacheStory, app' = app, NEW e \in Deploys,
         pc'[e] = pc[e], local'[e] = local[e], result'[e] = result[e], attempt'[e] = attempt[e],
         reference'[e] = reference[e],
         \A c \in Cdns : e \in remote'.stale[c] => e \in remote.stale[c]
  PROVE  CacheOf(e)'
PROOF
  <1>1. CacheOf(e) /\ SurelyPurged' = SurelyPurged /\ SurelyPurged \subseteq Cdns
    BY SamePurged DEF CacheStory
  <1>2. (Unmarked(e) => Unmarked(e)') /\ FirstRun(e)' = FirstRun(e)
    BY <1>1 DEF Unmarked, FirstRun
  <1>3. pc'[e] \in {"get", "update", "putEnv", "purge"} => CdnLocalFields(local'[e]) /\ local'[e].next \in Nat \ {0}
    BY <1>1 DEF CacheOf
  <1>4. pc'[e] = "purge" => /\ local'[e].ids # <<>> => local'[e].changed
                           /\ \A c \in SurelyPurged' : c < local'[e].next => e \notin remote'.stale[c]
    BY <1>1 DEF CacheOf
  <1> QED BY <1>1, <1>2, <1>3, <1>4 DEF CacheOf

LEMMA CacheGoesOn ==
  ASSUME IsCdn, CacheStory, app' = app, OfCdns(remote.stale)', NEW d \in Deploys, CacheOf(d)',
         \A e \in Deploys \ {d} :
           /\ pc'[e] = pc[e] /\ local'[e] = local[e] /\ result'[e] = result[e] /\ attempt'[e] = attempt[e]
           /\ reference'[e] = reference[e]
           /\ \A c \in Cdns : e \in remote'.stale[c] => e \in remote.stale[c]
  PROVE  CacheStory'
PROOF
  <1>1. CacheFields'
    BY DEF CacheFields, CacheStory, Cdns
  <1> QED BY <1>1, CacheStays DEF CacheStory

(* Deploy d goes on or returns, the CDNs as they were.                      *)
LEMMA CacheRests ==
  ASSUME IsCdn, CacheStory, NEW d \in Deploys, NEW to, NEW x, NEW res, NEW ref, Steps(d, to, x, res, ref),
         remote'.stale = remote.stale, CacheOf(d)'
  PROVE  CacheStory'
PROOF
  <1>1. app' = app /\ OfCdns(remote.stale)' /\ attempt' = attempt
    BY DEF Steps, CacheStory, CacheFields, OfCdns, Cdns
  <1> QED BY <1>1, CacheGoesOn DEF Steps

LEMMA CacheFails ==
  ASSUME IsCdn, CacheStory, NEW d \in Deploys, Steps(d, "returned", Nothing, "error", NoReference),
         OfCdns(remote.stale)',
         \A e \in Deploys \ {d}, c \in Cdns : e \in remote'.stale[c] => e \in remote.stale[c]
  PROVE  CacheStory'
PROOF
  <1>1. CacheOf(d)'
    BY DEF Steps, CacheStory, CacheOf
  <1> QED BY <1>1, CacheGoesOn DEF Steps

(* Deploy d, at its first call, goes on to read; or it reads a CDN.        *)
LEMMA CacheReads ==
  ASSUME IsCdn, CacheStory, Shape, NEW d \in Deploys, CdnStarts(d) \/ ReadsCdn(d)
  PROVE  CacheStory'
PROOF
  <1>0. CacheFields /\ CacheOf(d)
    BY DEF CacheStory
  <1>1. PICK to, x :
          /\ to \in {"get", "update"}
          /\ Steps(d, to, x, result[d], reference[d]) /\ UNCHANGED remote
          /\ CdnLocalFields(x) /\ x.next \in Nat \ {0} /\ x.ids = <<>>
          /\ pc[d] \in {"start", "get"}
    <2>1. CASE CdnStarts(d)
      <3> DEFINE x == [next |-> 1, conf |-> <<>>, rev |-> <<>>, changed |-> FALSE, ids |-> <<>>]
      <3>1. \E to \in {"get", "update"} : Steps(d, to, x, result[d], reference[d])
        BY <2>1, CallsStep DEF CdnStarts
      <3>2. CdnLocalFields(x) /\ x.next = 1 /\ x.ids = <<>>
        BY DEF CdnLocalFields
      <3>3. pc[d] = "start" /\ UNCHANGED remote
        BY <2>1 DEF CdnStarts, At
      <3> HIDE DEF x
      <3> QED BY <3>1, <3>2, <3>3
    <2>2. CASE ReadsCdn(d)
      <3> DEFINE l == local[d]
                 last == l.next = app.cdns
                 next == IF last THEN 1 ELSE l.next + 1
                 conf == Append(l.conf, remote.conf[l.next])
                 rev == Append(l.rev, remote.rev[l.next])
                 x == [l EXCEPT !.next = next, !.conf = conf, !.rev = rev]
                 to == IF last THEN "update" ELSE "get"
      <3>1. Steps(d, to, x, result[d], reference[d]) /\ UNCHANGED remote /\ pc[d] = "get"
        BY <2>2, CallsStep DEF ReadsCdn
      <3>2. CdnLocalFields(l) /\ l.next \in Nat \ {0} /\ l.ids = <<>>
        BY <1>0, <3>1 DEF CacheOf
      <3> HIDE DEF l
      <3>3. next \in Nat \ {0} /\ to \in {"get", "update"}
        BY <3>2
      <3> HIDE DEF next, conf, rev, to
      <3>4. CdnLocalFields(x) /\ x.next = next /\ x.ids = <<>>
        BY <3>2 DEF CdnLocalFields
      <3> HIDE DEF x
      <3> QED BY <3>1, <3>3, <3>4
    <2> QED BY <2>1, <2>2
  <1>2. UNCHANGED <<app, attempt, remote>> /\ pc'[d] = to /\ local'[d] = x /\ result'[d] = result[d]
    BY <1>1 DEF Steps
  <1>3. CacheOf(d)'
    <2>1. attempt'[d] \in Nat /\ result[d] = "none" /\ (FirstRun(d) => Unmarked(d))
      BY <1>0, <1>1, <1>2 DEF CacheOf
    <2>2. FirstRun(d)' = FirstRun(d) /\ Unmarked(d)' = Unmarked(d)
      BY <1>2, SamePurged DEF FirstRun
    <2> QED BY <1>1, <1>2, <2>1, <2>2 DEF CacheOf
  <1> QED BY <1>1, <1>2, <1>3, CacheRests

(* Deploy d leaves a CDN as it is, or writes it.                            *)
LEMMA CacheSkips ==
  ASSUME IsCdn, CacheStory, Shape, NEW d \in Deploys, SkipCdn(d)
  PROVE  CacheStory'
PROOF
  <1> DEFINE l == local[d]
             next == l.next + 1
             x == [l EXCEPT !.next = next]
  <1>0. CacheFields /\ CacheOf(d)
    BY DEF CacheStory
  <1>1. Steps(d, "update", x, result[d], reference[d]) /\ UNCHANGED remote /\ pc[d] = "update"
    BY CallsStep DEF SkipCdn
  <1>2. CdnLocalFields(l) /\ l.next \in Nat \ {0} /\ l.ids = <<>>
    BY <1>0, <1>1 DEF CacheOf
  <1>4. next \in Nat \ {0}
    BY <1>2
  <1>5. CdnLocalFields(x) /\ x.next = next /\ x.changed = l.changed /\ x.ids = <<>>
    <2> HIDE DEF l, next
    <2> QED BY <1>2 DEF CdnLocalFields
  <1>6. UNCHANGED <<app, attempt, remote>> /\ pc'[d] = "update" /\ local'[d] = x /\ result'[d] = result[d]
    BY <1>1 DEF Steps
  <1>7. FirstRun(d) /\ ~l.changed => Unmarked(d)
    BY <1>0, <1>1 DEF CacheOf
  <1> HIDE DEF x, next
  <1>8. CacheOf(d)'
    <2>1. FirstRun(d)' = FirstRun(d) /\ Unmarked(d)' = Unmarked(d)
      BY <1>6, SamePurged DEF FirstRun
    <2>2. attempt'[d] \in Nat /\ result[d] = "none"
      BY <1>0, <1>1, <1>6 DEF CacheOf
    <2> QED BY <1>4, <1>5, <1>6, <1>7, <2>1, <2>2 DEF CacheOf
  <1> QED BY <1>1, <1>8, CacheRests

LEMMA CacheWrites ==
  ASSUME IsCdn, CdnInv, CacheStory, Shape, NEW d \in Deploys, WritesCdn(d)
  PROVE  CacheStory'
PROOF
  <1> DEFINE l == local[d]
             c == l.next
             next == c + 1
             x == [l EXCEPT !.next = next, !.changed = TRUE]
             stale == [remote.stale EXCEPT ![c] = @ \cup {d}]
  <1>0. CacheFields /\ CacheOf(d) /\ CdnFields
    BY DEF CacheStory, CdnInv
  <1>1. pc[d] = "update" /\ c \in Cdns
    BY DEF WritesCdn
  <1>2. CASE GivesUp(d) /\ UNCHANGED remote
    <2>1. Steps(d, "returned", Nothing, "error", NoReference) /\ UNCHANGED app
      BY <1>2, CallsStep DEF Steps
    <2>2. OfCdns(remote.stale)'
      BY <1>0, <1>2, <2>1 DEF CacheFields, OfCdns, Cdns
    <2> QED BY <1>2, <2>1, <2>2, CacheFails
  <1>3. CASE /\ remote' = [remote EXCEPT !.conf[c] = [local[d].conf[c] EXCEPT !.version = version[d]],
                                         !.rev[c] = @ + 1,
                                         !.stale[c] = @ \cup {d}]
             /\ \/ Goes(d, "update", x)
                \/ CallFails(d)
    <2>1. remote'.stale = stale
      <3>1. \E conf, rev : remote' = [conf |-> conf, rev |-> rev, stale |-> stale, env |-> remote.env, made |-> remote.made]
        BY <1>0, <1>3 DEF CdnFields
      <3> QED BY <3>1
    <2>2. \/ Steps(d, "update", x, result[d], reference[d])
          \/ Steps(d, "returned", Nothing, "error", NoReference)
      BY <1>3, CallsStep
    <2>3. UNCHANGED <<app, attempt>>
      BY <2>2 DEF Steps
    <2>4. \A b \in Cdns : stale[b] \subseteq remote.stale[b] \cup {d}
      BY <1>0, <1>1 DEF CacheFields, OfCdns
    <2>5. OfCdns(remote.stale)'
      BY <1>0, <2>1, <2>3 DEF CacheFields, OfCdns, Cdns
    <2>6. \A e \in Deploys \ {d}, b \in Cdns : e \in remote'.stale[b] => e \in remote.stale[b]
      BY <2>1, <2>4
    <2>7. CASE Steps(d, "returned", Nothing, "error", NoReference)
      BY <2>5, <2>6, <2>7, CacheFails
    <2>8. CASE Steps(d, "update", x, result[d], reference[d])
      <3>1. CdnLocalFields(l) /\ c \in Nat \ {0} /\ l.ids = <<>>
        BY <1>0, <1>1 DEF CacheOf
      <3>2. next \in Nat \ {0}
        BY <3>1
      <3>3. CdnLocalFields(x) /\ x.next = next /\ x.changed = TRUE /\ x.ids = <<>>
        <4> HIDE DEF l, next
        <4> QED BY <3>1 DEF CdnLocalFields
      <3>4. pc'[d] = "update" /\ local'[d] = x /\ result'[d] = "none"
        BY <1>0, <1>1, <2>8 DEF Steps, CacheOf
      <3> HIDE DEF x, next
      <3>5. CacheOf(d)'
        BY <1>0, <2>3, <3>2, <3>3, <3>4 DEF CacheOf
      <3>6. \A e \in Deploys \ {d} :
              /\ pc'[e] = pc[e] /\ local'[e] = local[e] /\ result'[e] = result[e] /\ attempt'[e] = attempt[e]
              /\ reference'[e] = reference[e]
        BY <2>3, <2>8 DEF Steps
      <3> QED BY <2>3, <2>5, <2>6, <3>5, <3>6, CacheGoesOn
    <2> QED BY <2>2, <2>7, <2>8
  <1> QED BY <1>2, <1>3 DEF WritesCdn

(* Deploy d, past the CDNs, goes on to the env vars file or to the caches.  *)
LEMMA CacheUpdatesEnd ==
  ASSUME IsCdn, CacheStory, Shape, NEW d \in Deploys, UpdatesEnd(d)
  PROVE  CacheStory'
PROOF
  <1> DEFINE l == local[d]
             first == [l EXCEPT !.next = 1]
  <1>0. CacheFields /\ CacheOf(d)
    BY DEF CacheStory
  <1>1. pc[d] = "update" /\ l.next \notin Cdns /\ UNCHANGED remote
    BY DEF UpdatesEnd
  <1>2. CdnLocalFields(l) /\ l.next \in Nat \ {0} /\ l.ids = <<>>
    BY <1>0, <1>1 DEF CacheOf
  <1>3. CdnLocalFields(first) /\ first.next = 1 /\ first.changed = l.changed /\ first.ids = <<>>
    <2> HIDE DEF l
    <2> QED BY <1>2 DEF CdnLocalFields
  <1>4. \/ Steps(d, "putEnv", l, result[d], reference[d])
        \/ Steps(d, "purge", first, result[d], reference[d])
    BY CallsStep DEF UpdatesEnd
  <1>5. PICK to, x :
          /\ to \in {"putEnv", "purge"}
          /\ Steps(d, to, x, result[d], reference[d])
          /\ CdnLocalFields(x) /\ x.next \in Nat \ {0} /\ x.changed = l.changed /\ x.ids = <<>>
          /\ to = "purge" => x.next = 1
    <2> HIDE DEF l, first
    <2> QED BY <1>2, <1>3, <1>4
  <1>6. UNCHANGED <<app, attempt>> /\ pc'[d] = to /\ local'[d] = x /\ result'[d] = "none"
    BY <1>0, <1>1, <1>5 DEF Steps, CacheOf
  <1>7. (FirstRun(d) /\ ~l.changed => Unmarked(d)) /\ attempt'[d] \in Nat
    BY <1>0, <1>1, <1>6 DEF CacheOf
  <1>8. FirstRun(d)' = FirstRun(d) /\ Unmarked(d)' = Unmarked(d)
    BY <1>1, <1>6, SamePurged DEF FirstRun
  <1>9. to = "purge" => \A c \in SurelyPurged : ~ c < x.next
    BY <1>5 DEF Cdns, SurelyPurged
  <1>10. CacheOf(d)'
    <2>1. pc'[d] = "purge" => \A c \in SurelyPurged' : c < local'[d].next => d \notin remote'.stale[c]
      BY <1>6, <1>9, SamePurged
    <2> HIDE DEF l
    <2> QED BY <1>2, <1>5, <1>6, <1>7, <1>8, <2>1 DEF CacheOf
  <1> QED BY <1>1, <1>5, <1>10, CacheRests

(* Deploy d writes the env vars file, or fails to and does not notice.      *)
LEMMA CacheEnvPut ==
  ASSUME IsCdn, CdnInv, CacheStory, Shape, NEW d \in Deploys, PutEnvVars(d) \/ PutEnvVarsObject(d)
  PROVE  CacheStory'
PROOF
  <1> DEFINE l == local[d]
             x == [l EXCEPT !.next = 1, !.changed = TRUE]
  <1>0. CacheFields /\ CacheOf(d) /\ CdnFields /\ pc[d] = "putEnv"
    BY DEF CacheStory, CdnInv, PutEnvVars, PutEnvVarsObject
  <1>1. CdnLocalFields(l) /\ result[d] = "none" /\ attempt[d] \in Nat
    BY <1>0 DEF CacheOf
  <1>2. CdnLocalFields(x) /\ x.next = 1 /\ x.changed = TRUE
    <2> HIDE DEF l
    <2> QED BY <1>1 DEF CdnLocalFields
  <1>3. \/ Steps(d, "purge", x, result[d], reference[d])
        \/ Steps(d, "returned", Nothing, "error", NoReference)
    <2>1. CASE EnvStored(d) \/ CallFails(d)
      BY <2>1, CallsStep DEF EnvStored
    <2>2. CASE /\ pc' = [pc EXCEPT ![d] = "purge"]
               /\ local' = [local EXCEPT ![d].next = 1, ![d].changed = TRUE]
               /\ UNCHANGED <<app, version, result, reference, attempt, remote>>
      <3>1. local' = [local EXCEPT ![d] = x]
        BY <1>1, <2>2 DEF Shape
      <3> HIDE DEF x
      <3> QED BY <2>2, <3>1 DEF Steps, Shape
    <2> QED BY <2>1, <2>2 DEF PutEnvVars, PutEnvVarsObject
  <1>4. remote'.stale = remote.stale \/ remote'.stale = [c \in Cdns |-> remote.stale[c] \cup {d}]
    <2>1. CASE StoresEnv(d)
      <3>1. \E conf, rev : remote' = [conf |-> conf, rev |-> rev, stale |-> [c \in Cdns |-> remote.stale[c] \cup {d}],
                                      env |-> version[d], made |-> remote.made]
        BY <1>0, <2>1 DEF CdnFields, StoresEnv
      <3> QED BY <3>1
    <2> QED BY <2>1 DEF PutEnvVars, PutEnvVarsObject
  <1>5. UNCHANGED <<app, attempt>>
    BY <1>3 DEF Steps
  <1>6. /\ OfCdns(remote.stale)'
        /\ \A e \in Deploys \ {d}, c \in Cdns : e \in remote'.stale[c] => e \in remote.stale[c]
    BY <1>0, <1>4, <1>5 DEF CacheFields, OfCdns, Cdns
  <1>7. CASE Steps(d, "returned", Nothing, "error", NoReference)
    BY <1>6, <1>7, CacheFails
  <1>8. CASE Steps(d, "purge", x, result[d], reference[d])
    <2>1. pc'[d] = "purge" /\ local'[d] = x /\ result'[d] = "none" /\ attempt'[d] \in Nat
      BY <1>1, <1>8 DEF Steps
    <2> HIDE DEF x, l
    <2>2. \A c \in SurelyPurged' : ~ c < local'[d].next
      BY <1>2, <2>1 DEF Cdns, SurelyPurged
    <2>3. CacheOf(d)'
      BY <1>2, <2>1, <2>2 DEF CacheOf
    <2> QED BY <1>5, <1>6, <1>8, <2>3, CacheGoesOn DEF Steps
  <1> QED BY <1>3, <1>7, <1>8

(* Deploy d drops what a cache holds, or is answered as if it had.          *)
LEMMA CacheDrops ==
  ASSUME IsCdn, CdnInv, CacheStory, Shape, NEW d \in Deploys, CreateInvalidation(d) \/ InvalidateCache(d)
  PROVE  CacheStory'
PROOF
  <1> DEFINE l == local[d]
             c == l.next
             next == c + 1
             ids == Append(l.ids, c)
             x == [l EXCEPT !.next = @ + 1, !.ids = ids]
             stale == [remote.stale EXCEPT ![c] = {}]
  <1>0. CacheFields /\ CacheOf(d) /\ CdnFields
    BY DEF CacheStory, CdnInv
  <1>1. /\ pc[d] = "purge" /\ l.changed /\ c \in Cdns
        /\ \/ remote' = [remote EXCEPT !.stale[c] = {}]
           \/ UNCHANGED remote /\ c \notin SurelyPurged
    <2>1. RepeatsRequestId(d) /\ app.cloud = "gcp" => c \notin SurelyPurged
      BY DEF RepeatsRequestId, SurelyPurged
    <2> QED BY <2>1 DEF CreateInvalidation, InvalidateCache, DropsCache, RepeatsRequestId, Purging
  <1>2. \/ Steps(d, "purge", x, result[d], reference[d])
        \/ Steps(d, "returned", Nothing, "error", NoReference)
    BY CallsStep DEF CreateInvalidation, InvalidateCache, DropsCache, RepeatsRequestId, InvalidationCreated
  <1>3. UNCHANGED <<app, attempt>>
    BY <1>2 DEF Steps
  <1>4. \/ remote'.stale = stale
        \/ remote'.stale = remote.stale /\ c \notin SurelyPurged
    <2>1. CASE remote' = [remote EXCEPT !.stale[c] = {}]
      <3>1. remote' = [conf |-> remote.conf, rev |-> remote.rev, stale |-> stale, env |-> remote.env, made |-> remote.made]
        BY <1>0, <2>1 DEF CdnFields
      <3> QED BY <3>1
    <2> QED BY <1>1, <2>1
  <1>5. OfCdns(stale) /\ stale[c] = {} /\ \A b \in Cdns : stale[b] \subseteq remote.stale[b]
    BY <1>0, <1>1 DEF CacheFields, OfCdns
  <1>6. CdnLocalFields(l) /\ c \in Nat \ {0} /\ result[d] = "none" /\ attempt[d] \in Nat
    BY <1>0, <1>1 DEF CacheOf
  <1>7. next \in Nat \ {0} /\ \A b \in Cdns : b < next => b < c \/ b = c
    BY <1>6 DEF Cdns
  <1>8. \A b \in SurelyPurged : b < next => d \notin remote'.stale[b]
    <2>1. (\A b \in SurelyPurged : b < c => d \notin remote.stale[b]) /\ SurelyPurged \subseteq Cdns
      BY <1>0, <1>1 DEF CacheOf, SurelyPurged
    <2> HIDE DEF next, c, stale
    <2> QED BY <1>4, <1>5, <1>7, <2>1
  <1>9. CdnLocalFields(x) /\ x.next = next /\ x.changed = l.changed
    <2> HIDE DEF l, ids
    <2> QED BY <1>6 DEF CdnLocalFields
  <1> HIDE DEF x, next, stale
  <1>10. OfCdns(remote.stale)' /\ Cdns' = Cdns
    BY <1>0, <1>3, <1>4, <1>5 DEF OfCdns, Cdns, CacheFields
  <1>11. \A e \in Deploys \ {d}, b \in Cdns : e \in remote'.stale[b] => e \in remote.stale[b]
    BY <1>4, <1>5
  <1>12. CASE Steps(d, "returned", Nothing, "error", NoReference)
    BY <1>10, <1>11, <1>12, CacheFails
  <1>13. CASE Steps(d, "purge", x, result[d], reference[d])
    <2>1. pc'[d] = "purge" /\ local'[d] = x /\ result'[d] = "none" /\ attempt'[d] \in Nat
      BY <1>6, <1>13 DEF Steps
    <2>2. SurelyPurged' = SurelyPurged
      BY <1>3, SamePurged
    <2>3. CacheOf(d)'
      BY <1>1, <1>7, <1>8, <1>9, <2>1, <2>2 DEF CacheOf
    <2> QED BY <1>3, <1>10, <1>11, <1>13, <2>3, CacheGoesOn DEF Steps
  <1> QED BY <1>2, <1>12, <1>13

LEMMA CacheReturns ==
  ASSUME IsCdn, CdnInv, CacheStory, Shape, NEW d \in Deploys, NoCdns(d) \/ Deployed(d)
  PROVE  CacheStory'
PROOF
  <1>0. CacheFields /\ CacheOf(d) /\ app.cdns \in Nat
    BY DEF CacheStory, CdnInv
  <1>1. PICK ref :
          /\ Steps(d, "returned", Nothing, "ok", ref) /\ UNCHANGED remote
          /\ ref = IF NoCdns(d) \/ local[d].ids = <<>> THEN NoReference ELSE <<"invalidation", Head(local[d].ids)>>
    BY CallsStep DEF NoCdns, Deployed
  <1>2. ref # NoReference \/ FirstRun(d) => Unmarked(d)
    <2>1. CASE NoCdns(d)
      BY <2>1 DEF NoCdns, Unmarked, SurelyPurged
    <2>2. CASE Deployed(d) /\ ~NoCdns(d) /\ ~local[d].changed
      BY <1>0, <1>1, <2>2 DEF Deployed, CacheOf
    <2>3. CASE Deployed(d) /\ local[d].changed
      <3>1. local[d].next \in Nat \ {0} /\ local[d].next \notin Cdns
        BY <1>0, <2>3 DEF Deployed, CacheOf
      <3>2. \A c \in Cdns : c < local[d].next
        BY <1>0, <3>1 DEF Cdns
      <3>3. \A c \in SurelyPurged : c < local[d].next => d \notin remote.stale[c]
        BY <1>0, <2>3 DEF Deployed, CacheOf
      <3> QED BY <3>2, <3>3 DEF Unmarked, SurelyPurged
    <2> QED BY <2>1, <2>2, <2>3
  <1>3. UNCHANGED <<app, attempt>>
    BY <1>1 DEF Steps
  <1>4. Unmarked(d)' = Unmarked(d) /\ FirstRun(d)' = FirstRun(d)
    BY <1>1, <1>3, SamePurged DEF FirstRun
  <1>5. CacheOf(d)'
    BY <1>0, <1>1, <1>2, <1>3, <1>4 DEF Steps, CacheOf
  <1> QED BY <1>1, <1>5, CacheRests

LEMMA CacheStoryNext ==
  ASSUME Shape, CdnInv, CacheStory, CdnNext
  PROVE  CacheStory'
PROOF
  <1>0. IsCdn /\ CacheFields /\ CdnFields
    BY DEF CdnNext, IsCdn, CacheStory, CdnInv
  <1>1. ASSUME NEW d \in Deploys, CdnNoVersion(d) \/ CdnCallFails(d) PROVE CacheStory'
    <2>1. Steps(d, "returned", Nothing, "error", NoReference) /\ UNCHANGED remote
      BY <1>1, CallsStep DEF CdnNoVersion, NoVersionGiven, CdnCallFails
    <2>2. OfCdns(remote.stale)'
      BY <1>0, <2>1 DEF Steps, CacheFields, OfCdns, Cdns
    <2> QED BY <1>0, <2>1, <2>2, CacheFails
  <1>2. ASSUME NEW c \in Cdns, OthersEdit(c) PROVE CacheStory'
    <2>1. UNCHANGED <<app, pc, local, result, reference, attempt>>
      BY <1>2 DEF OthersEdit
    <2>2. remote'.stale = remote.stale
      <3>1. \E conf, rev, made : remote' = [conf |-> conf, rev |-> rev, stale |-> remote.stale, env |-> remote.env, made |-> made]
        BY <1>0, <1>2 DEF OthersEdit, CdnFields
      <3> QED BY <3>1
    <2>3. CacheFields'
      BY <1>0, <2>1, <2>2 DEF CacheFields, OfCdns, Cdns
    <2> QED BY <1>0, <2>1, <2>2, <2>3, CacheStays DEF CacheStory
  <1> QED
    BY <1>0, <1>1, <1>2, CacheReads, CacheSkips, CacheWrites, CacheUpdatesEnd, CacheEnvPut, CacheDrops, CacheReturns
    DEF CdnNext, CdnStep, GetCdns, GetUrlMaps, UpdateCdnVersion, UpdateUrlMapVersion

LEMMA CacheStoryKept ==
  ASSUME Shape, DeployersInv, CacheStory, [Next]_deployVars
  PROVE  CacheStory'
PROOF
  <1> SUFFICES ASSUME IsCdn' PROVE CacheStory'
    BY DEF CacheStory
  <1>1. IsCdn /\ app' = app
    BY StepOfKind DEF Frame, IsCdn
  <1>2. CASE CdnNext
    BY <1>2, CacheStoryNext DEF DeployersInv
  <1>3. CASE Rest
    <2>1. CacheFields /\ (\A e \in Deploys : CacheOf(e)) /\ remote' = remote /\ local' = local /\ reference' = reference
      BY <1>1, <1>3 DEF Rest, deployVars, Again, CacheStory
    <2>2. CacheFields'
      BY <1>1, <2>1 DEF CacheFields, OfCdns, Cdns
    <2>3. CASE UNCHANGED deployVars
      BY <1>1, <2>1, <2>2, <2>3, CacheStays DEF deployVars, CacheStory
    <2>4. ASSUME NEW d \in Deploys, Again(d) PROVE CacheStory'
      <3>1. pc'[d] = "start" /\ result'[d] = "none" /\ attempt'[d] = attempt[d] + 1
        BY <2>4 DEF Again, Shape
      <3>2. CacheOf(d)'
        BY <2>1, <3>1 DEF CacheOf, FirstRun
      <3>3. \A e \in Deploys \ {d} : pc'[e] = pc[e] /\ result'[e] = result[e] /\ attempt'[e] = attempt[e]
        BY <2>4 DEF Again, Shape
      <3> QED BY <1>1, <2>1, <2>2, <3>2, <3>3, CacheGoesOn DEF CacheFields
    <2> QED BY <1>3, <2>3, <2>4 DEF Rest
  <1> QED BY <1>1, <1>2, <1>3, StepOfKind

(* A deploy that reports success and returns an invalidation, or was not   *)
(* run before, has dropped what it changed from every cache that its purge *)
(* is sure to reach, whichever deploys write and drop at the same time.     *)
THEOREM CachesAreDropped == Spec => []CachesDropped
PROOF
  <1>1. Init => CacheStory
    <2> SUFFICES ASSUME Init, IsCdn PROVE CacheStory
      BY DEF CacheStory
    <2> QED BY InitOfKind, CacheStoryInit
  <1>2. CacheStory => CachesDropped
    BY DEF CacheStory, CacheOf, CachesDropped, Unmarked, FirstRun
  <1> QED BY <1>1, <1>2, FrameInit, FrameNext, DeployersInvInit, DeployersInvNext, CacheStoryKept, PTL DEF Spec

-----------------------------------------------------------------------------
(* What a deploy has in force, call by call, as long as no other has done  *)
(* anything; one definition for each module of the deployers.               *)
CdnEffect(d) ==
  /\ pc[d] = "get" => \A c \in Cdns : c < local[d].next => local[d].conf[c].version = remote.conf[c].version
  /\ pc[d] = "update" =>
       /\ \A c \in app.versioned : c < local[d].next => remote.conf[c].version = version[d]
       /\ \A c \in Cdns : ~(c < local[d].next) => local[d].conf[c].version = remote.conf[c].version
  /\ pc[d] \in {"putEnv", "purge"} \/ result[d] = "ok" =>
       \A c \in app.versioned : remote.conf[c].version = version[d]
  /\ pc[d] = "purge" \/ result[d] = "ok" =>
       (app.envFile /\ Cdns # {} /\ ~(app.cloud = "gcp" /\ failures > 0) => remote.env = version[d])

ObjectEffect(d) ==
  /\ pc[d] = "update" => local[d].container = remote.container
  /\ pc[d] = "wait" \/ result[d] = "ok" =>
       (app.named /\ app.kind # "composer" => remote.container.image.tags = <<version[d]>>)

Newest(n) == n = Len(remote.defs)

DefinitionEffect(d) ==
  /\ pc[d] = "deregister" => Newest(local[d].new)
  /\ pc[d] = "deregister" \/ result[d] = "ok" =>
       \A n : Newest(n) => n \in Active /\ remote.defs[n].by = d
  /\ result[d] = "ok" /\ app.service => Newest(remote.service)

LambdaEffect(d) ==
  /\ Busy => remote.pending = version[d]
  /\ pc[d] = "waitConfig" =>
       (Busy => remote.what = "env") /\ (remote.status = "Successful" => remote.env = version[d])
  /\ pc[d] \in {"code", "waitCode"} \/ result[d] = "ok" => remote.env = version[d]
  /\ pc[d] = "code" \/ result[d] = "ok" => ~Busy
  /\ pc[d] = "waitCode" =>
       (Busy => remote.what = "code") /\ (remote.status = "Successful" => remote.code = version[d])
  /\ result[d] = "ok" => remote.code = version[d]

JobEffect(d) ==
  /\ pc[d] \in {"list", "cronJobs"} => remote.objs[0].version = version[d]
  /\ pc[d] = "cronJobs" =>
       \A i \in CronJobs : i < local[d].next /\ i \notin local[d].failed => remote.objs[i].version = version[d]
  /\ result[d] = "ok" => \A i \in Objects : remote.objs[i].version = version[d]

ArtifactFields ==
  /\ remote = [processed |-> remote.processed, running |-> remote.running, synced |-> remote.synced,
               restarts |-> remote.restarts, purges |-> remote.purges]
  /\ remote.restarts \in Nat /\ remote.purges \in Nat

ArtifactEffect(d) ==
  /\ ArtifactFields
  /\ pc[d] = "restart" => app.kind = "azurefunctions" /\ ~app.exists
  /\ pc[d] \notin {"start", "returned", "restart", "purge"} => IsBeanstalk
  /\ result[d] = "ok" =>
       /\ IsBeanstalk => remote.running = version[d]
       /\ app.kind = "azurefunctions" => IF app.exists THEN remote.running = version[d] ELSE remote.restarts > 0
       /\ app.kind = "blob" /\ app.cdn => remote.purges > 0

(* These files are stored, as deploy d has them.                            *)
Holds(d, files) == \A f \in files : KeyOf(d, f) \in Keys /\ remote.objs[KeyOf(d, f)] = d

PushEffect(d) ==
  app.mode[d] = "push" =>
    /\ pc[d] = "upload" => Holds(d, SourceFiles(d) \ local[d])
    /\ pc[d] \in {"unmatched", "delete", "create"} \/ result[d] = "ok" => Holds(d, SourceFiles(d))
    /\ app.kind = "dags" => \A k \in Keys : k = <<Initially, k[2], FALSE>>
    /\ pc[d] = "create" => app.kind = "ebzip"
    /\ pc[d] = "delete" => \A k \in Keys : k[2] \in app.tree[d] \/ k \in local[d]
    /\ result[d] = "ok" /\ app.kind = "dags" => \A k \in Keys : k[2] \in app.tree[d]
    /\ result[d] = "ok" /\ app.kind = "ebzip" => version[d] \in remote.versions

ImageEffect(d) ==
  app.mode[d] = "push" =>
    /\ pc[d] = "push" => remote.host[version[d]] = d
    /\ result[d] = "ok" => remote.repo[version[d]] = d

Effect(d) ==
  /\ IsCdn => CdnEffect(d)
  /\ IsObject => ObjectEffect(d)
  /\ IsDefinition => DefinitionEffect(d)
  /\ IsLambda => LambdaEffect(d)
  /\ IsK8sJob => JobEffect(d)
  /\ IsArtifact => ArtifactEffect(d)
  /\ IsPush => PushEffect(d)
  /\ IsImage => ImageEffect(d)

(* A deploy without a version does nothing, unless it is one that needs    *)
(* none; and a deploy succeeds as it returns.                               *)
Idle(d) == version[d] = NoVersion /\ app.kind # "dags"

Asked(d) ==
  /\ Idle(d) => pc[d] \in {"start", "returned"} \/ (IsImage /\ app.mode[d] = "list")
  /\ result[d] = "ok" => pc[d] = "returned"

OfSomeKind == IsCdn \/ IsObject \/ IsDefinition \/ IsLambda \/ IsK8sJob \/ IsArtifact \/ IsPush \/ IsImage

SoleStory ==
  /\ OfSomeKind /\ Tried /\ failures \in Nat
  /\ \A d \in Deploys : Asked(d) /\ (Sole(d) => Effect(d))

LEMMA EffectOfKind ==
  ASSUME UNCHANGED app, NEW d
  PROVE  /\ IsCdn => (Effect(d) <=> CdnEffect(d)) /\ (Effect(d)' <=> CdnEffect(d)')
         /\ IsObject => (Effect(d) <=> ObjectEffect(d)) /\ (Effect(d)' <=> ObjectEffect(d)')
         /\ IsDefinition => (Effect(d) <=> DefinitionEffect(d)) /\ (Effect(d)' <=> DefinitionEffect(d)')
         /\ IsLambda => (Effect(d) <=> LambdaEffect(d)) /\ (Effect(d)' <=> LambdaEffect(d)')
         /\ IsK8sJob => (Effect(d) <=> JobEffect(d)) /\ (Effect(d)' <=> JobEffect(d)')
         /\ IsArtifact => (Effect(d) <=> ArtifactEffect(d)) /\ (Effect(d)' <=> ArtifactEffect(d)')
         /\ IsPush => (Effect(d) <=> PushEffect(d)) /\ (Effect(d)' <=> PushEffect(d)')
         /\ IsImage => (Effect(d) <=> ImageEffect(d)) /\ (Effect(d)' <=> ImageEffect(d)')
PROOF
  <1>1. /\ IsCdn' = IsCdn /\ IsObject' = IsObject /\ IsDefinition' = IsDefinition /\ IsLambda' = IsLambda
        /\ IsK8sJob' = IsK8sJob /\ IsArtifact' = IsArtifact /\ IsPush' = IsPush /\ IsImage' = IsImage
    BY Zenon DEF IsCdn, IsObject, IsDefinition, IsLambda, IsK8sJob, IsArtifact, IsPush, IsImage
  <1> QED BY <1>1, OneKind DEF Effect

(* Deploy d makes a call: it alone, and then the effects that count are    *)
(* its own; or others have done something, or do without a version.         *)
LEMMA SoleStep ==
  ASSUME Shape, SoleStory, NEW d \in Deploys, NEW to, NEW x, NEW res, NEW ref, Steps(d, to, x, res, ref),
         to # "start", failures' \in Nat, Asked(d)', Sole(d) /\ Effect(d) => Effect(d)',
         Idle(d) => \A e \in Deploys \ {d} : Effect(e) => Effect(e)'
  PROVE  SoleStory'
PROOF
  <1>1. /\ UNCHANGED <<app, version, attempt>> /\ pc'[d] # "start"
        /\ \A e \in Deploys \ {d} : pc'[e] = pc[e] /\ result'[e] = result[e]
    BY DEF Steps
  <1>2. Sole(d)' => Sole(d)
    BY <1>1 DEF Sole
  <1>3. \A e \in Deploys \ {d} : Sole(e)' => Sole(e) /\ Idle(d)
    BY <1>1 DEF Sole, Idle
  <1>4. \A e \in Deploys \ {d} : Asked(e)'
    BY <1>1 DEF SoleStory, Asked, Idle, IsImage
  <1>5. OfSomeKind' /\ Tried'
    <2>1. Tried'
      BY <1>1 DEF SoleStory, Tried
    <2>2. OfSomeKind'
      BY <1>1, Zenon DEF SoleStory, OfSomeKind, IsCdn, IsObject, IsDefinition, IsLambda, IsK8sJob, IsArtifact, IsPush, IsImage
    <2> QED BY <2>1, <2>2
  <1> HIDE DEF Effect, Sole, Asked, Idle
  <1> QED BY <1>2, <1>3, <1>4, <1>5 DEF SoleStory

(* The provider alone moves, or others edit.                                *)
LEMMA SoleRests ==
  ASSUME SoleStory, UNCHANGED <<app, version, pc, result, attempt>>, failures' \in Nat,
         \A e \in Deploys : Sole(e) /\ Effect(e) => Effect(e)'
  PROVE  SoleStory'
PROOF
  <1>1. \A e \in Deploys : (Sole(e)' => Sole(e)) /\ (Asked(e) => Asked(e)')
    BY DEF Sole, Asked, Idle, IsImage
  <1>2. OfSomeKind' /\ Tried'
    <2>1. Tried'
      BY DEF SoleStory, Tried
    <2>2. OfSomeKind'
      BY Zenon DEF SoleStory, OfSomeKind, IsCdn, IsObject, IsDefinition, IsLambda, IsK8sJob, IsArtifact, IsPush, IsImage
    <2> QED BY <2>1, <2>2
  <1> HIDE DEF Effect, Sole, Asked
  <1> QED BY <1>1, <1>2 DEF SoleStory

(* What a deploy has in force is told by its own call and the provider.     *)
LEMMA EffectStays ==
  ASSUME UNCHANGED <<app, version, remote>>, NEW e,
         \/ pc'[e] = pc[e] /\ local'[e] = local[e] /\ result'[e] = result[e]
         \/ pc'[e] \in {"start", "returned"} /\ result'[e] # "ok",
         app.cloud = "gcp" /\ failures > 0 => failures' > 0
  PROVE  Effect(e) => Effect(e)'
PROOF
  <1>1. IsCdn /\ CdnEffect(e) => CdnEffect(e)'
    BY DEF CdnEffect, Cdns
  <1>2. IsObject /\ ObjectEffect(e) => ObjectEffect(e)'
    BY DEF ObjectEffect
  <1>3. IsDefinition /\ DefinitionEffect(e) => DefinitionEffect(e)'
    BY DEF DefinitionEffect, Newest, Active
  <1>4. IsLambda /\ LambdaEffect(e) => LambdaEffect(e)'
    BY DEF LambdaEffect, Busy
  <1>5. IsK8sJob /\ JobEffect(e) => JobEffect(e)'
    BY DEF JobEffect, CronJobs, Objects
  <1>6. IsArtifact /\ ArtifactEffect(e) => ArtifactEffect(e)'
    BY DEF ArtifactEffect, ArtifactFields, IsBeanstalk
  <1>7. IsPush /\ PushEffect(e) => PushEffect(e)'
    <2>1. SourceFiles(e)' = SourceFiles(e) /\ Keys' = Keys
      BY DEF SourceFiles, Pusher, Keys
    <2>2. \A f : KeyOf(e, f)' = KeyOf(e, f)
      BY DEF KeyOf, S3Key, GcsZipKey, GcsDirKey, BlobKey, DagKey, Trimmed, ArtifactsKey
    <2>3. Holds(e, SourceFiles(e)) => Holds(e, SourceFiles(e))'
      BY <2>1, <2>2 DEF Holds
    <2>4. local'[e] = local[e] /\ Holds(e, SourceFiles(e) \ local[e]) => Holds(e, SourceFiles(e) \ local[e])'
      BY <2>1, <2>2 DEF Holds
    <2> QED BY <2>1, <2>3, <2>4 DEF PushEffect
  <1>8. IsImage /\ ImageEffect(e) => ImageEffect(e)'
    BY DEF ImageEffect
  <1> QED BY <1>1, <1>2, <1>3, <1>4, <1>5, <1>6, <1>7, <1>8, EffectOfKind, Zenon
          DEF Effect, IsCdn, IsObject, IsDefinition, IsLambda, IsK8sJob, IsArtifact, IsPush, IsImage

LEMMA SoleStoryAgain ==
  ASSUME Shape, SoleStory, Rest
  PROVE  SoleStory'
PROOF
  <1>1. CASE UNCHANGED deployVars
    <2>1. \A e \in Deploys : Effect(e) => Effect(e)'
      BY <1>1, EffectStays DEF deployVars
    <2> QED BY <1>1, <2>1, SoleRests DEF deployVars, SoleStory
  <1>2. ASSUME NEW d \in Deploys, Again(d) PROVE SoleStory'
    <2>1. /\ UNCHANGED <<app, version, local, failures, remote>>
          /\ pc'[d] = "start" /\ result'[d] = "none" /\ pc[d] = "returned"
          /\ attempt[d] \in Nat /\ attempt'[d] = attempt[d] + 1 /\ Tried'
          /\ \A e \in Deploys \ {d} : pc'[e] = pc[e] /\ result'[e] = result[e] /\ attempt'[e] = attempt[e]
      BY <1>2 DEF Again, Shape, SoleStory, Tried
    <2>2. \A e \in Deploys : Effect(e) => Effect(e)'
      BY <2>1, EffectStays
    <2>3. \A e \in Deploys : Sole(e)' => Sole(e)
      BY <2>1 DEF Sole
    <2>4. \A e \in Deploys : Asked(e) => Asked(e)'
      BY <2>1 DEF Asked, Idle, IsImage
    <2>5. OfSomeKind'
      BY <2>1, Zenon DEF SoleStory, OfSomeKind, IsCdn, IsObject, IsDefinition, IsLambda, IsK8sJob, IsArtifact, IsPush, IsImage
    <2> HIDE DEF Effect, Sole, Asked
    <2> QED BY <2>1, <2>2, <2>3, <2>4, <2>5 DEF SoleStory
  <1> QED BY <1>1, <1>2 DEF Rest

(* Deploy d fails, gives up or goes on, with nothing done to the provider. *)
LEMMA SoleReads ==
  ASSUME Shape, SoleStory, NEW d \in Deploys, NEW to, NEW x, NEW res, NEW ref, Steps(d, to, x, res, ref),
         to # "start", UNCHANGED remote, failures' \in Nat, failures' >= failures, Asked(d)',
         Sole(d) /\ Effect(d) => Effect(d)'
  PROVE  SoleStory'
PROOF
  <1>1. failures > 0 => failures' > 0
    BY DEF SoleStory
  <1>2. \A e \in Deploys \ {d} : Effect(e) => Effect(e)'
    BY <1>1, EffectStays DEF Steps
  <1> QED BY <1>2, SoleStep

LEMMA CallsCount ==
  ASSUME failures \in Nat
  PROVE  /\ \A d, to, x : Goes(d, to, x) => failures' = failures
         /\ \A d : GivesUp(d) => failures' = failures
         /\ \A d : CallFails(d) => failures' = failures + 1
         /\ \A d, ref : Succeeds(d, ref) => failures' = failures
  BY DEF Goes, GivesUp, CallFails, Succeeds

(* Deploy d gives up, or its call fails, with nothing done.                 *)
LEMMA SoleFails ==
  ASSUME Shape, SoleStory, NEW d \in Deploys, GivesUp(d) \/ CallFails(d), UNCHANGED remote
  PROVE  SoleStory'
PROOF
  <1>1. Steps(d, "returned", Nothing, "error", NoReference)
    BY CallsStep
  <1>2. failures' \in Nat /\ failures' >= failures /\ (failures > 0 => failures' > 0)
    <2>1. failures \in Nat
      BY DEF SoleStory
    <2>2. failures' = failures \/ failures' = failures + 1
      BY <2>1, CallsCount
    <2> QED BY <2>1, <2>2
  <1>3. Asked(d)' /\ (Effect(d) => Effect(d)')
    BY <1>1, <1>2, EffectStays DEF Steps, Asked
  <1> QED BY <1>1, <1>2, <1>3, SoleReads

(* The call of deploy d goes through; what there is to show then.           *)
LEMMA SoleCalls ==
  ASSUME Shape, SoleStory, NEW d \in Deploys, NEW to, NEW x, NEW ref,
         \/ Goes(d, to, x) /\ pc[d] # "returned" /\ to # "start" /\ (Idle(d) => IsImage /\ app.mode[d] = "list")
         \/ Succeeds(d, ref) \/ CallFails(d),
         Sole(d) /\ Effect(d) => Effect(d)',
         Idle(d) => \A e \in Deploys \ {d} : Effect(e) => Effect(e)'
  PROVE  SoleStory'
PROOF
  <1>1. failures \in Nat /\ Asked(d)
    BY DEF SoleStory
  <1>2. failures' \in Nat
    <2>1. failures' = failures \/ failures' = failures + 1
      BY <1>1, CallsCount
    <2> QED BY <1>1, <2>1
  <1>3. CASE Goes(d, to, x) /\ pc[d] # "returned" /\ to # "start" /\ (Idle(d) => IsImage /\ app.mode[d] = "list")
    <2>1. Steps(d, to, x, result[d], reference[d]) /\ result[d] # "ok"
      BY <1>1, <1>3, CallsStep DEF Asked
    <2>2. Asked(d)'
      BY <1>3, <2>1 DEF Steps, Asked, Idle, IsImage
    <2> QED BY <1>2, <1>3, <2>1, <2>2, SoleStep
  <1>4. CASE Succeeds(d, ref) \/ CallFails(d)
    <2>1. \E res, r : Steps(d, "returned", Nothing, res, r)
      BY <1>4, CallsStep
    <2>2. Asked(d)'
      BY <2>1 DEF Steps, Asked
    <2> QED BY <1>2, <2>1, <2>2, SoleStep
  <1> QED BY <1>3, <1>4

(* What a call of deploy d leaves: it goes on, or it succeeds.              *)
LEMMA CallsLeave ==
  ASSUME Shape, SoleStory, NEW d \in Deploys
  PROVE  /\ \A to, x : Goes(d, to, x) /\ pc[d] # "returned" =>
              /\ pc'[d] = to /\ local'[d] = x /\ result'[d] # "ok" /\ UNCHANGED <<app, version, failures>>
              /\ \A e \in Deploys \ {d} : pc'[e] = pc[e] /\ local'[e] = local[e] /\ result'[e] = result[e]
         /\ \A ref : Succeeds(d, ref) =>
              /\ pc'[d] = "returned" /\ result'[d] = "ok" /\ UNCHANGED <<app, version, failures>>
              /\ \A e \in Deploys \ {d} : pc'[e] = pc[e] /\ local'[e] = local[e] /\ result'[e] = result[e]
         /\ CallFails(d) =>
              /\ pc'[d] = "returned" /\ result'[d] # "ok" /\ UNCHANGED <<app, version>> /\ failures' = failures + 1
              /\ \A e \in Deploys \ {d} : pc'[e] = pc[e] /\ local'[e] = local[e] /\ result'[e] = result[e]
PROOF
  <1>1. failures \in Nat /\ (pc[d] # "returned" => result[d] # "ok")
    BY DEF SoleStory, Asked
  <1> QED BY <1>1, CallsStep, CallsCount DEF Steps

(* Deploy d goes on, or succeeds, with nothing done to the provider.        *)
LEMMA SoleGoes ==
  ASSUME Shape, SoleStory, NEW d \in Deploys, NEW to, NEW x, NEW ref,
         \/ Goes(d, to, x) /\ pc[d] # "returned" /\ to # "start" /\ (Idle(d) => IsImage /\ app.mode[d] = "list")
         \/ Succeeds(d, ref),
         UNCHANGED remote, Sole(d) /\ Effect(d) => Effect(d)'
  PROVE  SoleStory'
PROOF
  <1>1. \A e \in Deploys \ {d} : Effect(e) => Effect(e)'
    BY CallsLeave, EffectStays
  <1> QED BY <1>1, SoleCalls

(* Who makes a call, other than the first one, has a version to deploy.     *)
LEMMA NotIdle ==
  ASSUME SoleStory, ~IsImage, NEW d \in Deploys, pc[d] \notin {"start", "returned"} \/ At(d, "start")
  PROVE  ~Idle(d)
  BY DEF SoleStory, Asked, Idle, At

(* Deploy d returns something else than success, with nothing done.         *)
LEMMA SolePanics ==
  ASSUME Shape, SoleStory, NEW d \in Deploys, NEW res, NEW ref, Returns(d, res, ref), res # "ok",
         UNCHANGED failures, UNCHANGED remote
  PROVE  SoleStory'
PROOF
  <1>1. Steps(d, "returned", Nothing, res, ref) /\ failures \in Nat
    BY CallsStep DEF SoleStory
  <1>2. Asked(d)' /\ (Effect(d) => Effect(d)')
    BY <1>1, EffectStays DEF Steps, Asked
  <1> QED BY <1>1, <1>2, SoleReads

-----------------------------------------------------------------------------
(* Deployers of artifacts: Beanstalk, Azure Functions, blobs.               *)

LEMMA ArtifactStarts ==
  ASSUME ArtifactInit, NEW d \in Deploys
  PROVE  ArtifactEffect(d)
PROOF
  <1>1. /\ remote = [processed |-> {}, running |-> Initially, synced |-> FALSE, restarts |-> 0, purges |-> 0]
        /\ pc[d] = "start" /\ result[d] = "none"
    BY DEF ArtifactInit, DeployInit
  <1> QED BY <1>1 DEF ArtifactEffect, ArtifactFields

LEMMA ArtifactTakes ==
  ASSUME Shape, SoleStory, ArtifactNext
  PROVE  SoleStory'
PROOF
  <1>0. IsArtifact /\ ~IsImage /\ failures \in Nat
    BY OneKind DEF ArtifactNext, SoleStory
  <1>1. \A d : app' = app => (Effect(d) <=> ArtifactEffect(d)) /\ (Effect(d)' <=> ArtifactEffect(d)')
    BY <1>0, EffectOfKind
  <1>2. ASSUME NEW v, VersionProcessed(v) PROVE SoleStory'
    <2>1. UNCHANGED <<app, version, pc, local, result, attempt, failures>>
      BY <1>2 DEF VersionProcessed
    <2>2. \A e : ArtifactEffect(e) => ArtifactEffect(e)'
      <3>1. ASSUME ArtifactFields
            PROVE  ArtifactFields' /\ UNCHANGED <<remote.running, remote.restarts, remote.purges>>
        BY <1>2, <3>1 DEF VersionProcessed, ArtifactFields
      <3> QED BY <2>1, <3>1 DEF ArtifactEffect, IsBeanstalk
    <2> QED BY <1>0, <1>1, <2>1, <2>2, SoleRests
  <1>3. ASSUME NEW d \in Deploys, ArtifactNoVersion(d) \/ ArtifactCallFails(d) PROVE SoleStory'
    BY <1>3, SoleFails DEF ArtifactNoVersion, NoVersionGiven, ArtifactCallFails
  <1>4. ASSUME NEW d \in Deploys, NEW to, NEW x, Goes(d, to, x), UNCHANGED remote, pc[d] # "returned", ~Idle(d),
               to # "start", to = "restart" => app.kind = "azurefunctions" /\ ~app.exists,
               to \notin {"start", "returned", "restart", "purge"} => IsBeanstalk
        PROVE  SoleStory'
    <2>1. ArtifactEffect(d) => ArtifactEffect(d)'
      BY <1>4, CallsLeave DEF ArtifactEffect, ArtifactFields, IsBeanstalk
    <2>2. app' = app
      BY <1>4, CallsLeave
    <2> QED BY <1>1, <1>4, <2>1, <2>2, SoleGoes
  <1>5. ASSUME NEW d \in Deploys, BeanstalkStarts(d) \/ BeginPurgeContent(d) PROVE SoleStory'
    <2>1. ~Idle(d) /\ pc[d] # "returned"
      BY <1>0, <1>5, NotIdle DEF BeanstalkStarts, BeginPurgeContent, At
    <2> QED BY <1>4, <1>5, <2>1 DEF BeanstalkStarts, BeginPurgeContent
  <1>6. ASSUME NEW d \in Deploys,
               BeanstalkStarts(d) \/ GetApplicationVersion(d) \/ Delay(d) \/ PollsOver(d) \/ UpdateEnvironment(d)
                 \/ ZipDeploy(d) \/ SyncFunctionTriggers(d) \/ Restart(d) \/ NoCdnAttached(d)
                 \/ BeginPurgeContent(d) \/ PurgeEnds(d)
        PROVE  ~Idle(d) /\ pc[d] # "returned"
    BY <1>0, <1>6, NotIdle
    DEF BeanstalkStarts, GetApplicationVersion, Delay, PollsOver, UpdateEnvironment, ZipDeploy, SyncFunctionTriggers,
        Restart, NoCdnAttached, BeginPurgeContent, PurgeEnds, At
  <1>7. ASSUME NEW d \in Deploys, NEW ref, Succeeds(d, ref) \/ CallFails(d), ~Idle(d),
               Sole(d) /\ ArtifactEffect(d) => ArtifactEffect(d)'
        PROVE  SoleStory'
    <2>1. app' = app
      BY <1>7, CallsLeave
    <2> QED BY <1>1, <1>7, <2>1, SoleCalls
  <1>8. ASSUME NEW d \in Deploys, ArtifactEffect(d), pc[d] \notin {"start", "returned"}, IsBeanstalk
        PROVE  app.kind = "beanstalk"
    BY <1>8 DEF IsBeanstalk
  <1>9. ASSUME NEW d \in Deploys, GetApplicationVersion(d) \/ Delay(d) \/ PollsOver(d) PROVE SoleStory'
    <2>1. ~Idle(d) /\ pc[d] # "returned"
      BY <1>6, <1>9
    <2>2. CASE GivesUp(d)
      BY <1>9, <2>2, SoleFails DEF GetApplicationVersion, Delay, PollsOver
    <2>3. CASE ~GivesUp(d)
      <3>1. UNCHANGED remote /\ pc[d] \in {"version", "delay"}
        BY <1>9 DEF GetApplicationVersion, Delay, PollsOver
      <3>2. PICK to, x : to \in {"update", "delay", "version"} /\ Goes(d, to, x)
        BY <1>9, <2>3 DEF GetApplicationVersion, Delay, PollsOver
      <3>3. ArtifactEffect(d) => ArtifactEffect(d)'
        BY <2>1, <3>1, <3>2, CallsLeave DEF ArtifactEffect, ArtifactFields, IsBeanstalk
      <3>4. app' = app
        BY <2>1, <3>2, CallsLeave
      <3> QED BY <1>1, <2>1, <3>1, <3>2, <3>3, <3>4, SoleGoes
    <2> QED BY <2>2, <2>3
  <1>10. ASSUME NEW d \in Deploys, UpdateEnvironment(d) PROVE SoleStory'
    <2>1. CASE GivesUp(d) /\ UNCHANGED remote
      BY <2>1, SoleFails
    <2>2. CASE /\ remote' = [remote EXCEPT !.running = version[d]]
               /\ Succeeds(d, <<"version", version[d]>>) \/ CallFails(d)
      <3>1. /\ pc'[d] = "returned" /\ UNCHANGED <<app, version>> /\ pc[d] = "update"
        BY <1>10, <2>2, CallsLeave DEF UpdateEnvironment
      <3>2. ASSUME ArtifactEffect(d) PROVE ArtifactEffect(d)'
        <4>1. ArtifactFields /\ IsBeanstalk /\ app.kind = "beanstalk"
          BY <3>1, <3>2 DEF ArtifactEffect, IsBeanstalk
        <4>2. ArtifactFields' /\ remote'.running = version[d]
          BY <2>2, <4>1 DEF ArtifactFields
        <4> QED BY <3>1, <4>1, <4>2 DEF ArtifactEffect, IsBeanstalk
      <3> QED BY <1>6, <1>7, <1>10, <2>2, <3>2
    <2> QED BY <1>10, <2>1, <2>2 DEF UpdateEnvironment
  <1>11. ASSUME NEW d \in Deploys, ZipDeploy(d) PROVE SoleStory'
    <2>1. PICK ref : Succeeds(d, ref) \/ CallFails(d)
      BY <1>11 DEF ZipDeploy
    <2>2. /\ pc'[d] = "returned" /\ UNCHANGED <<app, version>>
          /\ app.kind = "azurefunctions" /\ app.exists /\ remote' = [remote EXCEPT !.running = version[d]]
      BY <1>11, <2>1, CallsLeave DEF ZipDeploy
    <2>3. ASSUME ArtifactEffect(d) PROVE ArtifactEffect(d)'
      <3>1. ArtifactFields' /\ remote'.running = version[d]
        BY <2>2, <2>3 DEF ArtifactEffect, ArtifactFields
      <3> QED BY <2>2, <3>1 DEF ArtifactEffect, IsBeanstalk
    <2> QED BY <1>6, <1>7, <1>11, <2>1, <2>3
  <1>12. ASSUME NEW d \in Deploys, SyncFunctionTriggers(d) PROVE SoleStory'
    <2>1. ~Idle(d) /\ pc[d] # "returned"
      BY <1>6, <1>12
    <2>2. Goes(d, "restart", Nothing) \/ CallFails(d)
      BY <1>12 DEF SyncFunctionTriggers
    <2>3. /\ pc'[d] \in {"restart", "returned"} /\ result'[d] # "ok" /\ UNCHANGED <<app, version>>
          /\ app.kind = "azurefunctions" /\ ~app.exists /\ remote' = [remote EXCEPT !.synced = TRUE]
      BY <1>12, <2>1, <2>2, CallsLeave DEF SyncFunctionTriggers
    <2>4. ASSUME ArtifactEffect(d) PROVE ArtifactEffect(d)'
      <3>1. ArtifactFields'
        BY <2>3, <2>4 DEF ArtifactEffect, ArtifactFields
      <3> QED BY <2>3, <3>1 DEF ArtifactEffect, IsBeanstalk
    <2> QED BY <1>1, <2>1, <2>2, <2>3, <2>4, SoleCalls
  <1>13. ASSUME NEW d \in Deploys, Restart(d) \/ PurgeEnds(d) PROVE SoleStory'
    <2>1. PICK ref : Succeeds(d, ref) \/ CallFails(d)
      BY <1>13 DEF Restart, PurgeEnds
    <2>2. pc'[d] = "returned" /\ UNCHANGED <<app, version>>
      BY <2>1, CallsLeave
    <2>3. ASSUME ArtifactEffect(d) PROVE ArtifactEffect(d)'
      <3>1. CASE Restart(d)
        <4>1. app.kind = "azurefunctions" /\ ~app.exists
          BY <2>3, <3>1 DEF ArtifactEffect, Restart
        <4>2. ArtifactFields' /\ remote'.restarts > 0
          BY <2>3, <3>1 DEF ArtifactEffect, ArtifactFields, Restart
        <4> QED BY <2>2, <4>1, <4>2 DEF ArtifactEffect, IsBeanstalk
      <3>2. CASE PurgeEnds(d)
        <4>1. app.kind = "blob"
          BY <3>2 DEF PurgeEnds
        <4>2. ArtifactFields' /\ remote'.purges > 0
          BY <2>3, <3>2 DEF ArtifactEffect, ArtifactFields, PurgeEnds
        <4> QED BY <2>2, <4>1, <4>2 DEF ArtifactEffect, IsBeanstalk
      <3> QED BY <1>13, <3>1, <3>2
    <2> QED BY <1>6, <1>7, <1>13, <2>1, <2>3
  <1>14. ASSUME NEW d \in Deploys, NoCdnAttached(d) PROVE SoleStory'
    <2>1. /\ pc'[d] = "returned" /\ UNCHANGED <<app, version, remote>> /\ app.kind = "blob" /\ ~app.cdn
      BY <1>14, CallsLeave DEF NoCdnAttached
    <2>2. ArtifactEffect(d) => ArtifactEffect(d)'
      BY <2>1 DEF ArtifactEffect, ArtifactFields, IsBeanstalk
    <2> QED BY <1>6, <1>7, <1>14, <2>2 DEF NoCdnAttached
  <1> QED BY <1>2, <1>3, <1>5, <1>9, <1>10, <1>11, <1>12, <1>13, <1>14 DEF ArtifactNext

-----------------------------------------------------------------------------
(* AWS Lambda: both the configuration and the code are waited for.          *)

LEMMA LambdaStarts ==
  ASSUME LambdaInit, NEW d \in Deploys
  PROVE  LambdaEffect(d)
  BY DEF LambdaInit, DeployInit, LambdaEffect, Busy

(* Only what a sole deploy asked for is applied to the function.             *)
LEMMA LambdaTakes ==
  ASSUME Shape, FunctionInv, SoleStory, LambdaNext
  PROVE  SoleStory'
PROOF
  <1>0. IsLambda /\ ~IsImage /\ failures \in Nat /\ FunctionFields /\ remote.rev \in Nat
    BY OneKind DEF LambdaNext, SoleStory, FunctionInv
  <1>1. \A d : app' = app => (Effect(d) <=> LambdaEffect(d)) /\ (Effect(d)' <=> LambdaEffect(d)')
    BY <1>0, EffectOfKind
  <1>2. ASSUME NEW d \in Deploys, LambdaNoVersion(d) \/ Conflict(d) \/ LambdaCallFails(d) PROVE SoleStory'
    BY <1>2, SoleFails DEF LambdaNoVersion, NoVersionGiven, Conflict, LambdaCallFails
  <1>3. ASSUME NEW d \in Deploys, GetConfig(d) \/ UpdateConfig(d) \/ UpdatesCode(d) \/ WaitForChanges(d)
        PROVE  ~Idle(d) /\ pc[d] # "returned"
    BY <1>0, <1>3, NotIdle DEF GetConfig, UpdateConfig, UpdatesCode, WaitForChanges, At
  <1>4. ASSUME NEW d \in Deploys, GetConfig(d) PROVE SoleStory'
    <2>1. CASE app.hasEnv
      <3>1. PICK x : Goes(d, "config", x) /\ UNCHANGED remote
        BY <1>4, <2>1 DEF GetConfig
      <3>2. app' = app /\ pc[d] # "returned" /\ ~Idle(d)
        BY <1>3, <1>4, <3>1, CallsLeave
      <3>3. LambdaEffect(d) => LambdaEffect(d)'
        BY <3>1, <3>2, CallsLeave DEF LambdaEffect, Busy
      <3> QED BY <1>1, <3>1, <3>2, <3>3, SoleGoes
    <2>2. CASE ~app.hasEnv
      BY <1>4, <2>2, SolePanics DEF GetConfig
    <2> QED BY <2>1, <2>2
  <1>5. ASSUME NEW d \in Deploys, UpdateConfig(d) PROVE SoleStory'
    <2>1. CASE remote.rev # local[d].rev
      BY <1>5, <2>1, SoleFails DEF UpdateConfig
    <2>2. CASE remote.rev = local[d].rev
      <3>1. /\ Accepts("env", version[d], local[d].edits) /\ pc[d] = "config"
            /\ Goes(d, "waitConfig", Nothing) \/ CallFails(d)
        BY <1>5, <2>2 DEF UpdateConfig
      <3>2. /\ pc'[d] \in {"waitConfig", "returned"} /\ result'[d] # "ok" /\ UNCHANGED <<app, version>>
        BY <3>1, CallsLeave
      <3>3. remote'.status = "InProgress" /\ remote'.what = "env" /\ remote'.pending = version[d]
        BY <1>0, <3>1 DEF Accepts, FunctionFields
      <3>4. LambdaEffect(d)'
        BY <3>2, <3>3 DEF LambdaEffect, Busy
      <3> QED BY <1>1, <1>3, <1>5, <3>1, <3>2, <3>4, SoleCalls
    <2> QED BY <2>1, <2>2
  <1>6. ASSUME NEW d \in Deploys, UpdatesCode(d) PROVE SoleStory'
    <2>1. /\ Accepts("code", version[d], remote.edits) /\ pc[d] = "code"
          /\ Goes(d, "waitCode", Nothing) \/ CallFails(d)
      BY <1>6 DEF UpdatesCode
    <2>2. /\ pc'[d] \in {"waitCode", "returned"} /\ result'[d] # "ok" /\ UNCHANGED <<app, version>>
      BY <2>1, CallsLeave
    <2>3. /\ remote'.status = "InProgress" /\ remote'.what = "code" /\ remote'.pending = version[d]
          /\ remote'.env = remote.env
      BY <1>0, <2>1 DEF Accepts, FunctionFields
    <2>4. LambdaEffect(d) => LambdaEffect(d)'
      BY <2>1, <2>2, <2>3 DEF LambdaEffect, Busy
    <2> QED BY <1>1, <1>3, <1>6, <2>1, <2>2, <2>4, SoleCalls
  <1>7. ASSUME NEW d \in Deploys, WaitForChanges(d) PROVE SoleStory'
    <2>1. CASE GivesUp(d)
      BY <1>7, <2>1, SoleFails DEF WaitForChanges
    <2>2. CASE remote.status = "Successful" /\ pc[d] = "waitConfig" /\ Goes(d, "code", Nothing)
      <3>1. LambdaEffect(d) => LambdaEffect(d)'
        BY <1>7, <2>2, CallsLeave DEF LambdaEffect, Busy, WaitForChanges
      <3> QED BY <1>1, <1>3, <1>7, <2>2, <3>1, CallsLeave, SoleGoes DEF WaitForChanges
    <2>3. CASE remote.status = "Successful" /\ pc[d] = "waitCode" /\ Succeeds(d, NoReference)
      <3>1. LambdaEffect(d) => LambdaEffect(d)'
        BY <1>7, <2>3, CallsLeave DEF LambdaEffect, Busy, WaitForChanges
      <3> QED BY <1>1, <1>3, <1>7, <2>3, <3>1, CallsLeave, SoleGoes DEF WaitForChanges
    <2> QED BY <1>7, <2>1, <2>2, <2>3 DEF WaitForChanges
  <1>8. ASSUME Applied \/ NotApplied \/ OthersEditFunction PROVE SoleStory'
    <2>1. UNCHANGED <<app, version, pc, local, result, attempt>> /\ failures' \in Nat
      BY <1>0, <1>8 DEF Applied, NotApplied, OthersEditFunction
    <2>2. ASSUME NEW e, LambdaEffect(e) PROVE LambdaEffect(e)'
      <3>1. CASE Applied
        <4>1. /\ Busy /\ remote'.status = "Successful"
              /\ remote'.env = IF remote.what = "env" THEN remote.pending ELSE remote.env
              /\ remote'.code = IF remote.what = "code" THEN remote.pending ELSE remote.code
          BY <1>0, <3>1 DEF Applied, FunctionFields
        <4> QED BY <2>1, <2>2, <4>1 DEF LambdaEffect, Busy
      <3>2. CASE NotApplied
        <4>1. Busy /\ remote'.status = "Failed" /\ remote'.env = remote.env /\ remote'.code = remote.code
          BY <1>0, <3>2 DEF NotApplied, FunctionFields
        <4> QED BY <2>1, <2>2, <4>1 DEF LambdaEffect, Busy
      <3>3. CASE OthersEditFunction
        <4>1. /\ remote'.status = remote.status /\ remote'.env = remote.env /\ remote'.code = remote.code
              /\ remote'.what = remote.what /\ remote'.pending = remote.pending
          BY <1>0, <3>3 DEF OthersEditFunction, FunctionFields
        <4> QED BY <2>1, <2>2, <4>1 DEF LambdaEffect, Busy
      <3> QED BY <1>8, <3>1, <3>2, <3>3
    <2> QED BY <1>1, <2>1, <2>2, SoleRests
  <1> QED BY <1>2, <1>4, <1>5, <1>6, <1>7, <1>8
          DEF LambdaNext, ImageDeployStep, ZipDeployStep, AnyStep, ConfigStep, UpdateImageCode, UpdateZipCode

-----------------------------------------------------------------------------
(* Kubernetes jobs: the template, then each of the cron jobs.               *)

LEMMA JobStarts ==
  ASSUME K8sJobInit, NEW d \in Deploys
  PROVE  JobEffect(d)
  BY DEF K8sJobInit, DeployInit, JobEffect

LEMMA VersionWritten ==
  ASSUME JobFields, NEW i \in Objects, NEW obj, NEW v, EditsFields(obj), WritesBack(i, obj, v)
  PROVE  \A j \in Objects : remote'.objs[j].version = IF j = i THEN v ELSE remote.objs[j].version
PROOF
  <1> DEFINE new == [obj EXCEPT !.version = v]
  <1>1. new.version = v
    BY DEF EditsFields
  <1>2. remote'.objs = [remote.objs EXCEPT ![i] = new]
    BY DEF WritesBack, JobFields
  <1> HIDE DEF new
  <1> QED BY <1>1, <1>2 DEF JobFields, OfObjects

LEMMA JobTakes ==
  ASSUME Shape, JobInv, JobStory, SoleStory, K8sJobNext
  PROVE  SoleStory'
PROOF
  <1>0. /\ IsK8sJob /\ ~IsImage /\ failures \in Nat /\ JobFields
        /\ \A d \in Deploys : ReadOfJob(d) /\ Passed(d)
        /\ app' = app /\ app.cronJobs \in Nat /\ Objects = {0} \cup CronJobs /\ Objects' = Objects /\ CronJobs' = CronJobs
    BY OneKind, JobFrame DEF K8sJobNext, JobInv, JobStory, SoleStory, Frame, CronJobs, Objects
  <1>1. \A d : (Effect(d) <=> JobEffect(d)) /\ (Effect(d)' <=> JobEffect(d)')
    BY <1>0, EffectOfKind
  <1>2. ASSUME NEW d \in Deploys, K8sJobNoVersion(d) \/ K8sJobCallFails(d) PROVE SoleStory'
    BY <1>2, SoleFails DEF K8sJobNoVersion, NoVersionGiven, K8sJobCallFails
  <1>11. ASSUME NEW d \in Deploys, CronJobPanics(d) PROVE SoleStory'
    BY <1>11, SolePanics DEF CronJobPanics
  <1>3. ASSUME NEW d \in Deploys,
               GetJobTemplate(d) \/ UpdateJobTemplate(d) \/ ListCronJobs(d) \/ CronJobNotUpdated(d)
                 \/ UpdateCronJob(d) \/ UpdateCronJobFails(d) \/ JobDeployed(d)
        PROVE  ~Idle(d) /\ pc[d] # "returned" /\ result[d] # "ok"
    BY <1>0, <1>3, NotIdle
    DEF GetJobTemplate, UpdateJobTemplate, ListCronJobs, CronJobNotUpdated, UpdateCronJob, UpdateCronJobFails,
        JobDeployed, At, SoleStory, Asked
  <1>4. ASSUME NEW d \in Deploys, GetJobTemplate(d) PROVE SoleStory'
    <2>1. CASE GivesUp(d) \/ (Returns(d, "panic", NoReference) /\ UNCHANGED failures)
      BY <1>4, <2>1, SoleFails, SolePanics DEF GetJobTemplate
    <2>2. CASE \E x : Goes(d, "template", x)
      <3>1. PICK x : Goes(d, "template", x)
        BY <2>2
      <3>2. UNCHANGED remote /\ pc[d] # "returned" /\ ~Idle(d)
        BY <1>3, <1>4 DEF GetJobTemplate
      <3>3. JobEffect(d)'
        BY <3>1, <3>2, CallsLeave DEF JobEffect
      <3> QED BY <1>1, <3>1, <3>2, <3>3, SoleGoes
    <2> QED BY <1>4, <2>1, <2>2 DEF GetJobTemplate
  <1>5. ASSUME NEW d \in Deploys, UpdateJobTemplate(d) PROVE SoleStory'
    <2>1. CASE GivesUp(d) /\ UNCHANGED remote
      BY <2>1, SoleFails
    <2>2. CASE WritesBack(0, local[d].obj, version[d]) /\ (Goes(d, "list", Nothing) \/ CallFails(d))
      <3>1. pc[d] # "returned" /\ ~Idle(d) /\ EditsFields(local[d].obj)
        BY <1>0, <1>3, <1>5 DEF UpdateJobTemplate, ReadOfJob, ReadOf
      <3>2. remote'.objs[0].version = version[d]
        BY <1>0, <2>2, <3>1, VersionWritten
      <3>3. pc'[d] \in {"list", "returned"} /\ result'[d] # "ok" /\ version' = version
        BY <2>2, <3>1, CallsLeave
      <3>4. JobEffect(d)'
        BY <3>2, <3>3 DEF JobEffect
      <3> QED BY <1>1, <2>2, <3>1, <3>4, SoleCalls
    <2> QED BY <1>5, <2>1, <2>2 DEF UpdateJobTemplate
  <1>6. ASSUME NEW d \in Deploys, ListCronJobs(d) PROVE SoleStory'
    <2>1. PICK x : x.next = 1 /\ Goes(d, "cronJobs", x) /\ UNCHANGED remote /\ pc[d] = "list"
      BY <1>6 DEF ListCronJobs
    <2>2. pc'[d] = "cronJobs" /\ result'[d] # "ok" /\ local'[d].next = 1 /\ version' = version
      BY <2>1, CallsLeave
    <2>3. \A i \in CronJobs : ~(i < 1)
      BY DEF CronJobs
    <2>4. JobEffect(d) => JobEffect(d)'
      BY <1>0, <2>1, <2>2, <2>3 DEF JobEffect
    <2> QED BY <1>1, <1>3, <1>6, <2>1, <2>4, SoleGoes
  <1>7. ASSUME NEW d \in Deploys, CronJobNotUpdated(d) \/ UpdateCronJobFails(d) PROVE SoleStory'
    <2> DEFINE l == local[d]
               i == local[d].next
    <2>1. /\ UNCHANGED <<remote, app, version, pc, result, reference, attempt>> /\ pc[d] = "cronJobs"
          /\ local' = CronJobFailed(d, i) /\ failures' \in Nat /\ failures' >= failures
      BY <1>0, <1>7 DEF CronJobNotUpdated, UpdateCronJobFails
    <2>2. LoopFields(l) /\ i \in Nat \ {0}
      BY <1>0, <2>1 DEF ReadOfJob, Passed
    <2>3. /\ \A e \in Deploys \ {d} : local'[e] = local[e]
          /\ local'[d] = [l EXCEPT !.next = @ + 1, !.failed = @ \cup {i}]
          /\ local' = [e \in Deploys |-> local'[e]]
      BY <2>1 DEF CronJobFailed, Shape
    <2>4. local'[d].next = i + 1 /\ local'[d].failed = l.failed \cup {i}
      <3> DEFINE j == i
      <3>1. l.next = j /\ local'[d] = [l EXCEPT !.next = @ + 1, !.failed = @ \cup {j}]
        BY <2>3
      <3> HIDE DEF l, j
      <3>2. local'[d].next = j + 1 /\ local'[d].failed = l.failed \cup {j}
        BY <2>2, <3>1 DEF LoopFields
      <3> QED BY <3>2 DEF j, l
    <2>5. Steps(d, "cronJobs", local'[d], result[d], reference[d])
      BY <2>1, <2>3 DEF Steps, Shape
    <2>6. \A k \in CronJobs : k < local'[d].next /\ k \notin local'[d].failed => k < i /\ k \notin l.failed
      BY <2>2, <2>4 DEF CronJobs
    <2>7. result[d] # "ok" /\ Asked(d)'
      BY <1>3, <1>7, <2>1 DEF Asked, Idle, IsImage
    <2>8. JobEffect(d) => JobEffect(d)'
      BY <1>0, <2>1, <2>6, <2>7 DEF JobEffect
    <2> QED BY <1>1, <2>1, <2>5, <2>7, <2>8, SoleReads
  <1>8. ASSUME NEW d \in Deploys, UpdateCronJob(d) PROVE SoleStory'
    <2> DEFINE l == local[d]
               i == local[d].next
               x == [l EXCEPT !.next = @ + 1]
    <2>1. /\ pc[d] = "cronJobs" /\ i \in CronJobs
          /\ WritesBack(i, l.objs[i], version[d]) /\ Goes(d, "cronJobs", x)
      BY <1>8 DEF UpdateCronJob, CronJobDone, Labelled
    <2>2. LoopFields(l) /\ EditsFields(l.objs[i]) /\ i \in Nat \ {0}
      BY <1>0, <2>1 DEF ReadOfJob, ReadOf, Passed
    <2>3. x.next = i + 1 /\ x.failed = l.failed
      <3> DEFINE j == i
      <3>1. l.next = j
        OBVIOUS
      <3> HIDE DEF l, j
      <3>2. x.next = j + 1 /\ x.failed = l.failed
        BY <2>2, <3>1 DEF LoopFields
      <3> QED BY <3>2 DEF j, l
    <2>4. \A j \in Objects : remote'.objs[j].version = IF j = i THEN version[d] ELSE remote.objs[j].version
      BY <1>0, <2>1, <2>2, VersionWritten
    <2> HIDE DEF x
    <2>5. pc'[d] = "cronJobs" /\ local'[d] = x /\ result'[d] # "ok" /\ version' = version
      BY <2>1, CallsLeave
    <2>6. \A k \in CronJobs : k < i + 1 => k < i \/ k = i
      BY <2>2 DEF CronJobs
    <2>7. ASSUME JobEffect(d) PROVE JobEffect(d)'
      <3>1. remote'.objs[0].version = version[d]
        BY <1>0, <2>1, <2>4, <2>7 DEF JobEffect
      <3>2. ASSUME NEW k \in CronJobs, k < x.next, k \notin x.failed PROVE remote'.objs[k].version = version[d]
        BY <1>0, <2>1, <2>3, <2>4, <2>6, <2>7, <3>2 DEF JobEffect
      <3> QED BY <1>0, <2>5, <3>1, <3>2 DEF JobEffect
    <2> QED BY <1>1, <1>3, <1>8, <2>1, <2>7, SoleCalls DEF x
  <1>9. ASSUME NEW d \in Deploys, JobDeployed(d) PROVE SoleStory'
    <2>1. CASE GivesUp(d)
      BY <1>9, <2>1, SoleFails DEF JobDeployed
    <2>2. CASE local[d].failed = {} /\ Succeeds(d, NoReference)
      <3>1. /\ pc[d] = "cronJobs" /\ UNCHANGED remote /\ local[d].next \in Nat \ {0}
            /\ local[d].next \notin CronJobs
        BY <1>0, <1>9 DEF JobDeployed, Passed
      <3>2. \A i \in CronJobs : i < local[d].next
        BY <1>0, <3>1 DEF CronJobs
      <3>3. JobEffect(d) => JobEffect(d)'
        BY <1>0, <2>2, <3>1, <3>2, CallsLeave DEF JobEffect
      <3> QED BY <1>1, <2>2, <3>1, <3>3, SoleGoes
    <2> QED BY <1>9, <2>1, <2>2 DEF JobDeployed
  <1>10. ASSUME NEW i \in Objects, OthersEditJob(i) PROVE SoleStory'
    <2> DEFINE new == [remote.objs[i] EXCEPT !.edits = @ + 1]
    <2>1. remote'.objs = [remote.objs EXCEPT ![i] = new]
      BY <1>0, <1>10 DEF OthersEditJob, JobFields
    <2>2. new.version = remote.objs[i].version
      BY <1>0 DEF JobFields, EditsFields
    <2> HIDE DEF new
    <2>3. \A j \in Objects : remote'.objs[j].version = remote.objs[j].version
      BY <1>0, <2>1, <2>2 DEF JobFields, OfObjects
    <2>4. UNCHANGED <<app, version, pc, local, result, attempt, failures>>
      BY <1>10 DEF OthersEditJob
    <2>5. \A e : JobEffect(e) => JobEffect(e)'
      BY <1>0, <2>3, <2>4 DEF JobEffect
    <2> QED BY <1>0, <1>1, <2>4, <2>5, SoleRests
  <1> QED BY <1>2, <1>4, <1>5, <1>6, <1>7, <1>8, <1>9, <1>10, <1>11 DEF K8sJobNext

-----------------------------------------------------------------------------
(* The object that is read, changed and written back.                       *)

LEMMA ObjectStarts ==
  ASSUME ObjectInit, NEW d \in Deploys
  PROVE  ObjectEffect(d)
  BY DEF ObjectInit, DeployInit, ObjectEffect

LEMMA ObjectTakes ==
  ASSUME Shape, ObjectInv, ObjectStory, SoleStory, ObjectNext
  PROVE  SoleStory'
PROOF
  <1>0. /\ IsObject /\ ~IsImage /\ failures \in Nat /\ ObjectFields
        /\ app' = app /\ version' = version /\ \A d \in Deploys : ObjectOf(d)
    BY OneKind, ObjectFrame DEF ObjectNext, ObjectInv, ObjectStory, SoleStory, Frame
  <1>1. \A d : (Effect(d) <=> ObjectEffect(d)) /\ (Effect(d)' <=> ObjectEffect(d)')
    BY <1>0, EffectOfKind
  <1>2. ASSUME NEW d \in Deploys,
               NoObject(d) \/ GetObject(d) \/ NothingChanged(d) \/ UpdateObject(d) \/ WaitForObject(d)
        PROVE  ~Idle(d) /\ pc[d] # "returned"
    BY <1>0, <1>2, NotIdle DEF NoObject, GetObject, NothingChanged, UpdateObject, WaitForObject, Writable, At
  <1>3. ASSUME NEW d \in Deploys,
               ObjectNoVersion(d) \/ NoLabels(d) \/ NoMainContainer(d) \/ Refused(d) \/ ObjectCallFails(d)
        PROVE  SoleStory'
    BY <1>3, SoleFails, SolePanics
    DEF ObjectNoVersion, NoVersionGiven, NoLabels, NoMainContainer, Refused, ObjectCallFails
  <1>4. ASSUME NEW d \in Deploys, pc[d] = "update", app.kind # "composer"
        PROVE  Written(d).image = ImageTag(version[d])
    <2>1. local[d].container.image.digest => local[d].container.image.tags = <<>>
      BY <1>0, <1>4 DEF ObjectOf, ContainerInv
    <2> QED BY <1>4, <2>1, RetaggedImage DEF Written
  <1>5. \A v : ImageTag(v).tags = <<v>>
    BY DEF ImageTag
  <1>6. ASSUME NEW d \in Deploys, NoObject(d) PROVE SoleStory'
    <2>1. ObjectEffect(d)'
      BY <1>6, CallsLeave DEF NoObject, ObjectEffect
    <2> QED BY <1>1, <1>2, <1>6, <2>1, SoleGoes DEF NoObject
  <1>7. ASSUME NEW d \in Deploys, GetObject(d) PROVE SoleStory'
    <2>1. PICK x : x.container = remote.container /\ Goes(d, "update", x) /\ UNCHANGED remote
      BY <1>7 DEF GetObject
    <2>2. pc'[d] = "update" /\ local'[d] = x /\ result'[d] # "ok"
      BY <1>2, <1>7, <2>1, CallsLeave
    <2>3. ObjectEffect(d)'
      BY <2>1, <2>2 DEF ObjectEffect
    <2> QED BY <1>1, <1>2, <1>7, <2>1, <2>3, SoleGoes
  <1>8. ASSUME NEW d \in Deploys, NothingChanged(d) PROVE SoleStory'
    <2>1. CASE GivesUp(d)
      BY <1>8, <2>1, SoleFails DEF NothingChanged
    <2>2. CASE \E ref : Succeeds(d, ref)
      <3>1. PICK ref : Succeeds(d, ref)
        BY <2>2
      <3>2. pc[d] = "update" /\ UNCHANGED remote /\ Written(d) = local[d].container
        BY <1>8 DEF NothingChanged, Writable, Unchanged
      <3>3. ASSUME ObjectEffect(d), app.kind # "composer" PROVE remote.container.image.tags = <<version[d]>>
        BY <1>4, <1>5, <3>2, <3>3 DEF ObjectEffect
      <3>4. ObjectEffect(d) => ObjectEffect(d)'
        BY <1>0, <3>1, <3>2, <3>3, CallsLeave DEF ObjectEffect
      <3> QED BY <1>1, <3>1, <3>2, <3>4, SoleGoes
    <2> QED BY <1>8, <2>1, <2>2 DEF NothingChanged
  <1>9. ASSUME NEW d \in Deploys, UpdateObject(d) PROVE SoleStory'
    <2>1. /\ pc[d] = "update" /\ Write(d)
          /\ (\E ref : Succeeds(d, ref)) \/ Goes(d, "wait", Nothing) \/ CallFails(d)
      BY <1>9 DEF UpdateObject, Writable
    <2>2. remote'.container = Written(d)
      BY <1>0, <2>1 DEF Write, ObjectFields
    <2>3. app.kind # "composer" => remote'.container.image.tags = <<version[d]>>
      BY <1>4, <1>5, <2>1, <2>2
    <2>4. pc'[d] \in {"wait", "returned"}
      BY <2>1, CallsLeave
    <2>5. ObjectEffect(d)'
      BY <1>0, <2>3, <2>4 DEF ObjectEffect
    <2> QED BY <1>1, <1>2, <1>9, <2>1, <2>5, SoleCalls
  <1>10. ASSUME NEW d \in Deploys, WaitForObject(d) PROVE SoleStory'
    <2>1. PICK ref : Succeeds(d, ref) /\ UNCHANGED remote /\ pc[d] = "wait"
      BY <1>10 DEF WaitForObject
    <2>2. ObjectEffect(d) => ObjectEffect(d)'
      BY <1>0, <2>1, CallsLeave DEF ObjectEffect
    <2> QED BY <1>1, <2>1, <2>2, SoleGoes
  <1>11. ASSUME OthersEditObject PROVE SoleStory'
    <2>1. UNCHANGED <<app, version, pc, local, result, attempt, failures>> /\ remote'.container = remote.container
      BY <1>0, <1>11 DEF OthersEditObject, ObjectFields
    <2>2. \A e : ObjectEffect(e) => ObjectEffect(e)'
      BY <2>1 DEF ObjectEffect
    <2> QED BY <1>0, <1>1, <2>1, <2>2, SoleRests
  <1> QED BY <1>3, <1>6, <1>7, <1>8, <1>9, <1>10, <1>11 DEF ObjectNext

-----------------------------------------------------------------------------
(* ECS and Batch: the newest revision is the one that the deploy registered.*)

LEMMA DefinitionStarts ==
  ASSUME DefinitionInit, NEW d \in Deploys
  PROVE  DefinitionEffect(d)
  BY DEF DefinitionInit, DeployInit, DefinitionEffect

LEMMA DefinitionTakes ==
  ASSUME Shape, DefinitionInv, DefinitionStory, SoleStory, DefinitionNext
  PROVE  SoleStory'
PROOF
  <1>0. /\ IsDefinition /\ ~IsImage /\ failures \in Nat /\ Revisions /\ AnySequence(remote.defs)
        /\ app' = app /\ version' = version /\ \A d \in Deploys : ReadOfDefinition(d)
    BY OneKind, DefinitionFrame DEF DefinitionNext, DefinitionInv, Revisions, SoleStory, Frame
  <1>1. \A d : (Effect(d) <=> DefinitionEffect(d)) /\ (Effect(d)' <=> DefinitionEffect(d)')
    BY <1>0, EffectOfKind
  <1>2. Len(remote.defs) \in Nat /\ DOMAIN remote.defs = 1..Len(remote.defs)
    BY <1>0, SequenceDomain
  <1>3. ASSUME NEW d \in Deploys,
               \/ GetTaskDefinition(d) \/ GetJobDefinition(d) \/ GetTags(d) \/ RegisterTaskDefinition(d)
               \/ CreateJobDefinition(d) \/ NoService(d) \/ UpdateService(d)
               \/ \E i \in DOMAIN remote.defs : Deregister(d, i)
        PROVE  ~Idle(d) /\ pc[d] # "returned" /\ result[d] # "ok"
    BY <1>0, <1>3, NotIdle
    DEF GetTaskDefinition, GetJobDefinition, GetTags, RegisterTaskDefinition, CreateJobDefinition, NoService,
        UpdateService, Deregister, At, SoleStory, Asked
  <1>4. ASSUME NEW d \in Deploys,
               \/ DefinitionNoVersion(d) \/ NoDefinition(d) \/ NoMainDefinition(d) \/ DefinitionCallFails(d)
               \/ \E i \in DOMAIN remote.defs : DeregisterRefused(d, i)
        PROVE  SoleStory'
    BY <1>4, SoleFails
    DEF DefinitionNoVersion, NoVersionGiven, NoDefinition, NoMainDefinition, DefinitionCallFails, DeregisterRefused
  <1>5. ASSUME NEW d \in Deploys, pc'[d] \in {"tags", "register", "returned"}, result'[d] # "ok"
        PROVE  DefinitionEffect(d)'
    BY <1>5 DEF DefinitionEffect
  <1>6. ASSUME NEW d \in Deploys, GetTaskDefinition(d) \/ GetJobDefinition(d) PROVE SoleStory'
    <2>1. PICK to, x : to \in {"tags", "register"} /\ Goes(d, to, x) /\ UNCHANGED remote
      BY <1>6 DEF GetTaskDefinition, GetJobDefinition, Got
    <2>2. DefinitionEffect(d)'
      BY <1>3, <1>5, <1>6, <2>1, CallsLeave
    <2> QED BY <1>1, <1>3, <1>6, <2>1, <2>2, SoleGoes
  <1>7. ASSUME NEW d \in Deploys, GetTags(d) PROVE SoleStory'
    <2>1. CASE \E x : Goes(d, "register", x)
      <3>1. PICK x : Goes(d, "register", x) /\ UNCHANGED remote
        BY <1>7, <2>1 DEF GetTags
      <3>2. DefinitionEffect(d)'
        BY <1>3, <1>5, <1>7, <3>1, CallsLeave
      <3> QED BY <1>1, <1>3, <1>7, <3>1, <3>2, SoleGoes
    <2>2. CASE /\ failures' = failures + 1 /\ pc' = [pc EXCEPT ![d] = "register"]
               /\ UNCHANGED <<app, version, local, result, reference, attempt>>
      <3>1. Steps(d, "register", local[d], result[d], reference[d]) /\ UNCHANGED remote
        BY <1>7, <2>2 DEF Steps, Shape, GetTags
      <3>2. DefinitionEffect(d)' /\ Asked(d)'
        BY <1>3, <1>5, <1>7, <3>1 DEF Steps, Asked, Idle, IsImage
      <3>3. failures' \in Nat /\ failures' >= failures
        BY <1>0, <2>2
      <3> QED BY <1>1, <3>1, <3>2, <3>3, SoleReads
    <2> QED BY <1>7, <2>1, <2>2 DEF GetTags
  <1>8. ASSUME NEW d \in Deploys, NEW containers, pc[d] = "register", Registers(d, containers, local[d].old),
               ~Idle(d)
        PROVE  SoleStory'
    <2> DEFINE n == Len(remote.defs)
               def == [by |-> d, active |-> TRUE, tags |-> local[d].tags, containers |-> containers]
               l == local[d]
               new == n + 1
               old == local[d].old
               read == [l EXCEPT !.new = new, !.old = old]
    <2>1. remote'.defs = Append(remote.defs, def)
      BY <1>0, <1>8 DEF Registers, Revisions
    <2>2. /\ AnySequence(remote'.defs) /\ Len(remote'.defs) = n + 1 /\ remote'.defs[n + 1] = def
      BY <1>0, <2>1, SequenceGrows
    <2>3. Goes(d, "deregister", read) \/ CallFails(d)
      BY <1>8 DEF Registers
    <2>4. read.new = new
      <3>1. PlanFields(l)
        BY <1>0, <1>8 DEF ReadOfDefinition
      <3> HIDE DEF l, new, old
      <3> QED BY <3>1 DEF PlanFields
    <2> HIDE DEF read
    <2>5. /\ pc'[d] \in {"deregister", "returned"} /\ result'[d] # "ok"
          /\ pc'[d] = "deregister" => local'[d] = read
      BY <1>8, <2>3, CallsLeave
    <2>6. DOMAIN remote'.defs = 1..Len(remote'.defs)
      BY <2>2, SequenceDomain
    <2>7. \A k : k = Len(remote'.defs) => k \in Active' /\ remote'.defs[k].by = d
      BY <1>2, <2>2, <2>6 DEF Active
    <2>8. DefinitionEffect(d)'
      BY <2>2, <2>4, <2>5, <2>7 DEF DefinitionEffect, Newest
    <2> QED BY <1>1, <1>8, <2>3, <2>8, SoleCalls
  <1>9. ASSUME NEW d \in Deploys, NEW i \in DOMAIN remote.defs, Deregister(d, i) PROVE SoleStory'
    <2> DEFINE n == Len(remote.defs)
               def == [remote.defs[i] EXCEPT !.active = FALSE]
               l == local[d]
               old == local[d].old \ {i}
               read == [l EXCEPT !.old = old]
    <2>1. /\ pc[d] = "deregister" /\ i \in 1..n /\ i < l.new /\ PlanFields(l) /\ l.new \in 1..n
      BY <1>0, <1>2, <1>9 DEF Deregister, ReadOfDefinition
    <2>2. remote'.defs = [remote.defs EXCEPT ![i] = def]
      BY <1>0, <1>9 DEF Deregister, Revisions
    <2> HIDE DEF def
    <2>3. /\ AnySequence(remote'.defs) /\ Len(remote'.defs) = n
          /\ \A j \in 1..n : j # i => remote'.defs[j] = remote.defs[j]
      BY <1>0, <2>1, <2>2, SequenceChanges
    <2>4. Goes(d, "deregister", read) \/ CallFails(d)
      BY <1>9 DEF Deregister
    <2>5. read.new = l.new
      <3> HIDE DEF l, old
      <3> QED BY <2>1 DEF PlanFields
    <2> HIDE DEF read
    <2>6. /\ pc'[d] \in {"deregister", "returned"} /\ result'[d] # "ok"
          /\ pc'[d] = "deregister" => local'[d] = read
      BY <2>1, <2>4, CallsLeave
    <2>7. DOMAIN remote'.defs = 1..n
      BY <2>3, SequenceDomain
    <2>8. ASSUME DefinitionEffect(d) PROVE DefinitionEffect(d)'
      <3>1. l.new = n /\ n \in Active /\ remote.defs[n].by = d
        BY <2>1, <2>8 DEF DefinitionEffect, Newest
      <3>2. n # i /\ n \in 1..n
        BY <1>2, <2>1, <3>1
      <3>3. n \in Active' /\ remote'.defs[n].by = d
        BY <2>3, <2>7, <3>1, <3>2 DEF Active
      <3> QED BY <2>3, <2>5, <2>6, <3>1, <3>3 DEF DefinitionEffect, Newest
    <2> QED BY <1>1, <1>3, <1>9, <2>4, <2>8, SoleCalls
  <1>10. ASSUME NEW d \in Deploys, NoService(d) PROVE SoleStory'
    <2>1. DefinitionEffect(d) => DefinitionEffect(d)'
      BY <1>0, <1>10, CallsLeave DEF NoService, DefinitionEffect, Newest, Active
    <2> QED BY <1>1, <1>10, <2>1, SoleGoes DEF NoService
  <1>11. ASSUME NEW d \in Deploys, UpdateService(d) PROVE SoleStory'
    <2>1. CASE GivesUp(d) /\ UNCHANGED remote
      BY <2>1, SoleFails
    <2>2. CASE /\ remote' = [remote EXCEPT !.service = local[d].new, !.deployments = Append(@, local[d].new)]
               /\ (\E ref : Succeeds(d, ref)) \/ CallFails(d)
      <3>1. remote'.defs = remote.defs /\ remote'.service = local[d].new
        BY <1>0, <2>2 DEF Revisions
      <3>2. pc'[d] = "returned" /\ pc[d] = "deregister"
        BY <1>11, <2>2, CallsLeave DEF UpdateService
      <3>3. DefinitionEffect(d) => DefinitionEffect(d)'
        BY <1>0, <3>1, <3>2 DEF DefinitionEffect, Newest, Active
      <3> QED BY <1>1, <1>3, <1>11, <2>2, <3>3, SoleCalls
    <2> QED BY <1>11, <2>1, <2>2 DEF UpdateService
  <1>12. ASSUME NEW d \in Deploys, RegisterTaskDefinition(d) \/ CreateJobDefinition(d) PROVE SoleStory'
    BY <1>3, <1>8, <1>12 DEF RegisterTaskDefinition, CreateJobDefinition
  <1> QED BY <1>4, <1>6, <1>7, <1>9, <1>10, <1>11, <1>12 DEF DefinitionNext, DefinitionStep

-----------------------------------------------------------------------------
(* The CDNs: one after the other, then the env vars file and the caches.    *)

LEMMA CdnStartsWith ==
  ASSUME CdnInit, NEW d \in Deploys
  PROVE  CdnEffect(d)
  BY DEF CdnInit, DeployInit, CdnEffect

(* What the lemmas on the CDNs' effects start from.                         *)
CdnStories == Shape /\ IsCdn /\ CdnInv /\ CacheStory /\ SoleStory

LEMMA CdnFacts ==
  ASSUME CdnStories, CdnNext
  PROVE  /\ ~IsImage /\ failures \in Nat /\ app' = app /\ version' = version /\ Cdns' = Cdns
         /\ CdnFields /\ app.cdns \in Nat /\ app.versioned \subseteq Cdns
         /\ \A d \in Deploys : ReadOfCdns(d) /\ CacheOf(d)
         /\ \A d : (Effect(d) <=> CdnEffect(d)) /\ (Effect(d)' <=> CdnEffect(d)')
PROOF
  <1>1. app' = app /\ version' = version
    BY CdnFrame DEF Frame, CdnStories
  <1> QED BY <1>1, OneKind, EffectOfKind DEF CdnStories, SoleStory, CdnInv, CacheStory, CacheFields, Cdns

(* Deploy d has read one more CDN, as it is.                                *)
LEMMA CdnReadIs ==
  ASSUME CdnStories, CdnNext, NEW d \in Deploys, ReadsCdn(d)
  PROVE  SoleStory'
PROOF
  <1> DEFINE l == local[d]
             c == l.next
             next == IF c = app.cdns THEN 1 ELSE c + 1
             to == IF c = app.cdns THEN "update" ELSE "get"
             conf == Append(l.conf, remote.conf[c])
             rev == Append(l.rev, remote.rev[c])
             read == [l EXCEPT !.next = next, !.conf = conf, !.rev = rev]
  <1>1. /\ CdnLocalFields(l) /\ AnySequence(l.conf) /\ c \in 1..app.cdns /\ Len(l.conf) = c - 1 /\ pc[d] = "get"
        /\ app.cdns \in Nat
    BY CdnFacts DEF ReadsCdn, ReadOfCdns, Cdns
  <1>2. UNCHANGED remote /\ Goes(d, to, read)
    BY DEF ReadsCdn
  <1>3. conf[c] = remote.conf[c] /\ \A b \in 1..(c - 1) : conf[b] = l.conf[b]
    <2>1. /\ conf[Len(l.conf) + 1] = remote.conf[c] /\ \A b \in 1..Len(l.conf) : conf[b] = l.conf[b]
      BY <1>1, SequenceGrows
    <2> HIDE DEF conf, l
    <2> QED BY <1>1, <2>1 DEF c
  <1>4. read.next = next /\ read.conf = conf
    <2> HIDE DEF l, next, conf, rev
    <2> QED BY <1>1 DEF CdnLocalFields
  <1>5. to \in {"get", "update"} /\ ~Idle(d)
    BY <1>1, CdnFacts, NotIdle DEF CdnStories
  <1> HIDE DEF l, conf, rev, read
  <1>6. pc'[d] = to /\ local'[d] = read /\ result'[d] # "ok"
    <2> HIDE DEF c, to, next
    <2> QED BY <1>1, <1>2, CallsLeave DEF CdnStories
  <1>7. ASSUME CdnEffect(d) PROVE CdnEffect(d)'
    <2>1. \A b \in 1..(c - 1) : l.conf[b].version = remote.conf[b].version
      BY <1>1, <1>7 DEF CdnEffect, Cdns, l
    <2>2. \A b \in 1..(c - 1) : conf[b].version = remote.conf[b].version
      <3> HIDE DEF c
      <3> QED BY <1>3, <2>1
    <2>3. \A b \in 1..c : conf[b].version = remote.conf[b].version
      <3>1. c \in Nat /\ \A b \in 1..c : b = c \/ b \in 1..(c - 1)
        <4> HIDE DEF c
        <4> QED BY <1>1
      <3> HIDE DEF c
      <3> QED BY <1>3, <2>2, <3>1
    <2>4. CASE c = app.cdns
      <3>1. to = "update" /\ next = 1 /\ \A b \in Cdns : ~(b < 1) /\ b \in 1..c
        BY <2>4 DEF Cdns
      <3>2. app.versioned \subseteq Cdns /\ Cdns' = Cdns /\ app' = app
        BY CdnFacts
      <3> HIDE DEF c, to, next
      <3> QED BY <1>2, <1>4, <1>6, <2>3, <3>1, <3>2 DEF CdnEffect
    <2>5. CASE c # app.cdns
      <3>1. to = "get" /\ next = c + 1 /\ \A b \in Cdns : b < c + 1 => b \in 1..c
        <4> HIDE DEF c
        <4> QED BY <1>1, <2>5 DEF Cdns, to, next
      <3>2. Cdns' = Cdns
        BY CdnFacts
      <3> HIDE DEF c, to, next
      <3> QED BY <1>2, <1>4, <1>6, <2>3, <3>1, <3>2 DEF CdnEffect
    <2> QED BY <2>4, <2>5
  <1> HIDE DEF c, to, next
  <1> QED BY <1>1, <1>2, <1>5, <1>7, CdnFacts, SoleGoes DEF CdnStories

(* Deploy d leaves a CDN that has its version already.                      *)
LEMMA CdnSkippedIs ==
  ASSUME CdnStories, CdnNext, NEW d \in Deploys, SkipCdn(d)
  PROVE  SoleStory'
PROOF
  <1> DEFINE l == local[d]
             c == l.next
             next == c + 1
             x == [l EXCEPT !.next = next]
  <1>1. /\ pc[d] = "update" /\ c \in Cdns /\ UNCHANGED remote /\ Goes(d, "update", x)
        /\ ~NeedsUpdate(d, c)
    BY DEF SkipCdn
  <1>2. CdnLocalFields(l) /\ ~Idle(d) /\ Cdns \subseteq Nat
    BY <1>1, CdnFacts, NotIdle DEF CdnStories, CacheOf, Cdns
  <1>3. x.next = next /\ x.conf = l.conf
    <2> HIDE DEF l, next
    <2> QED BY <1>2 DEF CdnLocalFields
  <1> HIDE DEF x
  <1>4. pc'[d] = "update" /\ local'[d] = x /\ result'[d] # "ok"
    BY <1>1, CallsLeave DEF CdnStories
  <1>5. ASSUME CdnEffect(d) PROVE CdnEffect(d)'
    <2>1. l.conf[c].version = remote.conf[c].version
      <3>1. c \in Nat /\ \A b \in Cdns : ~(b < c) => l.conf[b].version = remote.conf[b].version
        BY <1>1, <1>2, <1>5 DEF CdnEffect
      <3> HIDE DEF c, l
      <3> QED BY <1>1, <3>1
    <2>2. c \in app.versioned => remote.conf[c].version = version[d]
      BY <1>1, <2>1 DEF NeedsUpdate, CalcDistributionConfig, ModifyUrlMap
    <2>3. \A b \in Cdns : (b < next => b < c \/ b = c) /\ (~(b < next) => ~(b < c))
      <3> HIDE DEF c
      <3> QED BY <1>1, <1>2 DEF next
    <2>4. /\ \A b \in app.versioned : b < c => remote.conf[b].version = version[d]
          /\ \A b \in Cdns : ~(b < c) => l.conf[b].version = remote.conf[b].version
      BY <1>1, <1>5 DEF CdnEffect
    <2>5. app.versioned \subseteq Cdns /\ Cdns' = Cdns /\ app' = app /\ version' = version
      BY CdnFacts
    <2> HIDE DEF l, c, next
    <2> QED BY <1>1, <1>3, <1>4, <2>2, <2>3, <2>4, <2>5 DEF CdnEffect
  <1> QED BY <1>1, <1>2, <1>5, CdnFacts, SoleGoes DEF CdnStories

(* Deploy d gives a CDN its version.                                        *)
LEMMA CdnWrittenIs ==
  ASSUME CdnStories, CdnNext, NEW d \in Deploys, WritesCdn(d)
  PROVE  SoleStory'
PROOF
  <1> DEFINE l == local[d]
             c == l.next
             next == c + 1
             x == [l EXCEPT !.next = next, !.changed = TRUE]
             conf == l.conf[c]
             new == [conf EXCEPT !.version = version[d]]
  <1>1. CASE GivesUp(d) /\ UNCHANGED remote
    BY <1>1, SoleFails DEF CdnStories
  <1>2. CASE /\ remote' = [remote EXCEPT !.conf[c] = new, !.rev[c] = @ + 1, !.stale[c] = @ \cup {d}]
             /\ Goes(d, "update", x) \/ CallFails(d)
    <2>1. pc[d] = "update" /\ c \in Cdns
      BY DEF WritesCdn
    <2>2. CdnLocalFields(l) /\ ~Idle(d) /\ Cdns \subseteq Nat /\ EditsFields(conf)
      <3>1. ReadOfCdns(d) /\ CacheOf(d)
        BY CdnFacts
      <3>2. ~Idle(d)
        BY <2>1, CdnFacts, NotIdle DEF CdnStories
      <3>3. EditsFields(conf)
        BY <2>1, <3>1 DEF ReadOfCdns, ReadOfCdn, Cdns
      <3> QED BY <2>1, <3>1, <3>2, <3>3 DEF CacheOf, Cdns
    <2>3. new.version = version[d]
      <3> HIDE DEF conf
      <3> QED BY <2>2 DEF EditsFields
    <2>4. remote'.conf = [remote.conf EXCEPT ![c] = new]
      <3> HIDE DEF new, c
      <3>1. CdnFields
        BY CdnFacts
      <3> QED BY <1>2, <3>1 DEF CdnFields
    <2>5. \A b \in Cdns : remote'.conf[b].version = IF b = c THEN version[d] ELSE remote.conf[b].version
      <3>1. OfCdns(remote.conf)
        BY CdnFacts DEF CdnFields
      <3> HIDE DEF new, c
      <3> QED BY <2>3, <2>4, <3>1 DEF OfCdns
    <2>6. x.next = next /\ x.conf = l.conf
      <3> HIDE DEF l, next
      <3> QED BY <2>2 DEF CdnLocalFields
    <2> HIDE DEF x, new
    <2>7. /\ pc'[d] \in {"update", "returned"} /\ result'[d] # "ok" /\ (pc'[d] = "update" => local'[d] = x)
      BY <1>2, <2>1, CallsLeave DEF CdnStories
    <2>8. ASSUME CdnEffect(d) PROVE CdnEffect(d)'
      <3>1. \A b \in Cdns : (b < next => b < c \/ b = c) /\ (~(b < next) => ~(b < c) /\ b # c)
        <4> HIDE DEF c
        <4> QED BY <2>1, <2>2 DEF next
      <3>2. /\ \A b \in app.versioned : b < c => remote.conf[b].version = version[d]
            /\ \A b \in Cdns : ~(b < c) => l.conf[b].version = remote.conf[b].version
        BY <2>1, <2>8 DEF CdnEffect
      <3>3. app.versioned \subseteq Cdns /\ Cdns' = Cdns /\ app' = app /\ version' = version
        BY CdnFacts
      <3> HIDE DEF l, c, next
      <3>4. \A b \in app.versioned : b < next => remote'.conf[b].version = version[d]
        BY <2>5, <3>1, <3>2, <3>3
      <3>5. \A b \in Cdns : ~(b < next) => l.conf[b].version = remote'.conf[b].version
        BY <2>5, <3>1, <3>2
      <3> QED BY <2>6, <2>7, <3>3, <3>4, <3>5 DEF CdnEffect
    <2> QED BY <1>2, <2>1, <2>2, <2>8, CdnFacts, SoleCalls DEF CdnStories
  <1> QED BY <1>1, <1>2 DEF WritesCdn

(* Deploy d is past the CDNs: the versioned ones have its version.          *)
LEMMA CdnUpdatesAre ==
  ASSUME CdnStories, CdnNext, NEW d \in Deploys, UpdatesEnd(d)
  PROVE  SoleStory'
PROOF
  <1>1. /\ pc[d] = "update" /\ local[d].next \notin Cdns /\ UNCHANGED remote /\ local[d].next \in Nat \ {0}
        /\ app.cdns \in Nat /\ app.versioned \subseteq Cdns /\ Cdns' = Cdns /\ app' = app /\ version' = version
    BY CdnFacts DEF UpdatesEnd, CacheOf
  <1>2. \A c \in Cdns : c < local[d].next
    BY <1>1 DEF Cdns
  <1>3. PICK to, x :
          to \in {"putEnv", "purge"} /\ Goes(d, to, x) /\ (to = "purge" => ~app.envFile \/ remote.env = version[d])
    <2> HIDE DEF CdnStories
    <2> QED BY DEF UpdatesEnd
  <1>4. pc'[d] = to /\ local'[d] = x /\ result'[d] # "ok" /\ ~Idle(d)
    BY <1>1, <1>3, CdnFacts, NotIdle, CallsLeave DEF CdnStories
  <1>5. ASSUME CdnEffect(d) PROVE CdnEffect(d)'
    <2>1. \A c \in app.versioned : remote.conf[c].version = version[d]
      BY <1>1, <1>2, <1>5 DEF CdnEffect
    <2> QED BY <1>1, <1>3, <1>4, <2>1 DEF CdnEffect
  <1> QED BY <1>1, <1>3, <1>4, <1>5, CdnFacts, SoleGoes DEF CdnStories

(* Deploy d writes the env vars file, or drops a cache.                     *)
LEMMA CdnEnvIs ==
  ASSUME CdnStories, CdnNext, NEW d \in Deploys,
         PutEnvVars(d) \/ PutEnvVarsObject(d) \/ DropsCache(d) \/ RepeatsRequestId(d)
  PROVE  SoleStory'
PROOF
  <1>0. /\ failures \in Nat /\ app' = app /\ version' = version /\ Cdns' = Cdns /\ CdnFields
        /\ (Effect(d) <=> CdnEffect(d)) /\ (Effect(d)' <=> CdnEffect(d)')
    BY CdnFacts
  <1>1. pc[d] \in {"putEnv", "purge"} /\ ~Idle(d) /\ result[d] # "ok"
    <2>1. pc[d] \in {"putEnv", "purge"}
      BY DEF PutEnvVars, PutEnvVarsObject, DropsCache, RepeatsRequestId, Purging
    <2> QED BY <2>1, CdnFacts, NotIdle DEF CdnStories, SoleStory, Asked
  <1>2. CASE (PutEnvVars(d) \/ PutEnvVarsObject(d)) /\ StoresEnv(d) /\ (EnvStored(d) \/ CallFails(d))
    <2>1. remote'.conf = remote.conf /\ remote'.env = version[d]
      BY <1>0, <1>2 DEF StoresEnv, CdnFields
    <2>2. PICK x : Goes(d, "purge", x) \/ CallFails(d)
      BY <1>2 DEF EnvStored
    <2>3. pc'[d] \in {"purge", "returned"} /\ result'[d] # "ok" /\ pc[d] = "putEnv"
      BY <1>1, <1>2, <2>2, CallsLeave DEF CdnStories, PutEnvVars, PutEnvVarsObject
    <2>4. CdnEffect(d) => CdnEffect(d)'
      BY <1>0, <2>1, <2>3 DEF CdnEffect
    <2> QED BY <1>0, <1>1, <2>2, <2>4, SoleCalls DEF CdnStories
  <1>5. CASE RepeatsRequestId(d)
    <2>1. CASE GivesUp(d)
      BY <1>5, <2>1, SoleFails DEF RepeatsRequestId, CdnStories
    <2>2. CASE \E x : Goes(d, "purge", x)
      <3>1. PICK x : Goes(d, "purge", x)
        BY <2>2
      <3>2. pc'[d] = "purge" /\ result'[d] # "ok" /\ pc[d] = "purge" /\ UNCHANGED <<remote, failures>>
        BY <1>1, <1>5, <3>1, CallsLeave DEF CdnStories, RepeatsRequestId, Purging, Goes
      <3>3. CdnEffect(d) => CdnEffect(d)'
        BY <1>0, <3>2 DEF CdnEffect
      <3> QED BY <1>0, <1>1, <3>1, <3>2, <3>3, SoleGoes DEF CdnStories
    <2> QED BY <1>5, <2>1, <2>2 DEF RepeatsRequestId, InvalidationCreated
  <1>3. CASE DropsCache(d)
    <2>1. remote'.conf = remote.conf /\ remote'.env = remote.env
      BY <1>0, <1>3 DEF DropsCache, CdnFields
    <2>2. PICK x : Goes(d, "purge", x) \/ CallFails(d)
      BY <1>3 DEF DropsCache, InvalidationCreated
    <2>3. pc'[d] \in {"purge", "returned"} /\ result'[d] # "ok" /\ pc[d] = "purge"
      BY <1>1, <1>3, <2>2, CallsLeave DEF CdnStories, DropsCache, Purging
    <2>4. failures' \in Nat /\ (failures > 0 => failures' > 0)
      <3>1. failures' = failures \/ failures' = failures + 1
        BY <1>0, <2>2, CallsCount
      <3> QED BY <1>0, <3>1
    <2>5. CdnEffect(d) => CdnEffect(d)'
      BY <1>0, <2>1, <2>3, <2>4 DEF CdnEffect
    <2> QED BY <1>0, <1>1, <2>2, <2>5, SoleCalls DEF CdnStories
  <1>4. CASE /\ pc[d] = "putEnv" /\ app.cloud = "gcp" /\ failures' = failures + 1
             /\ pc' = [pc EXCEPT ![d] = "purge"]
             /\ local' = [local EXCEPT ![d].next = 1, ![d].changed = TRUE]
             /\ UNCHANGED <<app, version, result, reference, attempt, remote>>
    <2>1. Steps(d, "purge", local'[d], result[d], reference[d])
      BY <1>4 DEF Steps, Shape, CdnStories
    <2>2. failures' \in Nat /\ failures' >= failures /\ failures' > 0
      BY <1>0, <1>4
    <2>3. pc'[d] = "purge" /\ result'[d] # "ok" /\ Asked(d)'
      BY <1>0, <1>1, <2>1 DEF Steps, Asked, Idle, IsImage
    <2>4. CdnEffect(d) => CdnEffect(d)'
      BY <1>0, <1>4, <2>2, <2>3 DEF CdnEffect
    <2> QED BY <1>0, <1>4, <2>1, <2>2, <2>3, <2>4, SoleReads DEF CdnStories
  <1> QED BY <1>2, <1>3, <1>4, <1>5 DEF PutEnvVars, PutEnvVarsObject

LEMMA CdnTakes ==
  ASSUME Shape, CdnInv, CacheStory, SoleStory, CdnNext
  PROVE  SoleStory'
PROOF
  <1>0. CdnStories
    BY DEF CdnStories, CdnNext, IsCdn
  <1>1. ASSUME NEW d \in Deploys, CdnNoVersion(d) \/ CdnCallFails(d) PROVE SoleStory'
    BY <1>1, SoleFails DEF CdnNoVersion, NoVersionGiven, CdnCallFails
  <1>2. ASSUME NEW d \in Deploys, NoCdns(d) PROVE SoleStory'
    <2>1. PICK ref : Succeeds(d, ref) /\ UNCHANGED remote /\ Cdns = {}
      BY <1>2 DEF NoCdns
    <2>2. app.versioned = {} /\ app' = app /\ Cdns' = {}
      BY <1>0, <2>1, CdnFacts
    <2>3. pc'[d] = "returned"
      BY <2>1, CallsLeave
    <2>4. CdnEffect(d)'
      BY <2>2, <2>3 DEF CdnEffect
    <2> QED BY <1>0, <2>1, <2>4, CdnFacts, SoleGoes
  <1>3. ASSUME NEW d \in Deploys, CdnStarts(d) PROVE SoleStory'
    <2> DEFINE x == [next |-> 1, conf |-> <<>>, rev |-> <<>>, changed |-> FALSE, ids |-> <<>>]
               to == IF Cdns = {} THEN "update" ELSE "get"
    <2>1. Goes(d, to, x) /\ UNCHANGED remote /\ pc[d] = "start" /\ ~Idle(d)
      BY <1>0, <1>3, CdnFacts, NotIdle DEF CdnStarts, At
    <2>2. x.next = 1 /\ to \in {"update", "get"} /\ (to = "update" => Cdns = {})
      OBVIOUS
    <2>3. Cdns' = Cdns /\ app.versioned \subseteq Cdns /\ app' = app /\ \A c \in Cdns : ~(c < 1)
      BY <1>0, CdnFacts DEF Cdns
    <2> HIDE DEF x, to
    <2>4. pc'[d] = to /\ local'[d] = x /\ result'[d] # "ok"
      BY <2>1, CallsLeave
    <2>5. CdnEffect(d)'
      BY <2>2, <2>3, <2>4 DEF CdnEffect
    <2> QED BY <1>0, <2>1, <2>2, <2>5, CdnFacts, SoleGoes
  <1>4. ASSUME NEW d \in Deploys, Deployed(d) PROVE SoleStory'
    <2>1. PICK ref : Succeeds(d, ref) /\ UNCHANGED remote /\ pc[d] = "purge"
      BY <1>4 DEF Deployed
    <2>2. UNCHANGED <<app, version, failures>> /\ pc'[d] = "returned" /\ Cdns' = Cdns
      BY <1>0, <2>1, CdnFacts, CallsLeave
    <2>3. CdnEffect(d) => CdnEffect(d)'
      BY <2>1, <2>2 DEF CdnEffect
    <2> QED BY <1>0, <2>1, <2>3, CdnFacts, SoleGoes
  <1>5. ASSUME NEW c \in Cdns, OthersEdit(c) PROVE SoleStory'
    <2> DEFINE new == [remote.conf[c] EXCEPT !.edits = @ + 1]
    <2>1. remote'.conf = [remote.conf EXCEPT ![c] = new] /\ remote'.env = remote.env
      BY <1>0, <1>5, CdnFacts DEF OthersEdit, CdnFields
    <2>2. new.version = remote.conf[c].version
      BY <1>0, CdnFacts DEF CdnFields, EditsFields
    <2> HIDE DEF new
    <2>3. \A b \in Cdns : remote'.conf[b].version = remote.conf[b].version
      BY <1>0, <2>1, <2>2, CdnFacts DEF CdnFields, OfCdns
    <2>4. UNCHANGED <<app, version, pc, local, result, attempt, failures>>
      BY <1>5 DEF OthersEdit
    <2>5. app.versioned \subseteq Cdns /\ Cdns' = Cdns
      BY <1>0, CdnFacts
    <2>6. \A e : CdnEffect(e) => CdnEffect(e)'
      BY <2>1, <2>3, <2>4, <2>5 DEF CdnEffect
    <2> QED BY <1>0, <2>4, <2>6, CdnFacts, SoleRests
  <1> QED BY <1>0, <1>1, <1>2, <1>3, <1>4, <1>5, CdnReadIs, CdnSkippedIs, CdnWrittenIs, CdnUpdatesAre, CdnEnvIs
          DEF CdnNext, CdnStep, GetCdns, GetUrlMaps, UpdateCdnVersion, UpdateUrlMapVersion, CreateInvalidation,
              InvalidateCache

-----------------------------------------------------------------------------
(* The pushers of artifacts: file by file, then what the source lacks.      *)

LEMMA DagKeyFile ==
  ASSUME NEW f
  PROVE  /\ <<Initially, f, FALSE>>[2] = f
         /\ <<Initially, f, FALSE>> = <<Initially, <<Initially, f, FALSE>>[2], FALSE>>
  OBVIOUS

LEMMA PushStarts ==
  ASSUME PushInit, NEW d \in Deploys
  PROVE  PushEffect(d)
PROOF
  <1>1. pc[d] = "start" /\ result[d] = "none"
    BY DEF PushInit, DeployInit
  <1>2. ASSUME app.kind = "dags" PROVE \A k \in Keys : k = <<Initially, k[2], FALSE>>
    <2>1. remote.objs = [k \in {<<Initially, f, FALSE>> : f \in Files} |-> NoOne]
      BY <1>2 DEF PushInit
    <2>2. Keys = {<<Initially, f, FALSE>> : f \in Files}
      BY <2>1 DEF Keys
    <2>3. ASSUME NEW f PROVE <<Initially, f, FALSE>> = <<Initially, <<Initially, f, FALSE>>[2], FALSE>>
      BY DagKeyFile
    <2> QED BY <2>2, <2>3
  <1> QED BY <1>1, <1>2 DEF PushEffect

LEMMA PushSame ==
  ASSUME UNCHANGED <<app, version>>, NEW d
  PROVE  SourceFiles(d)' = SourceFiles(d) /\ \A f : KeyOf(d, f)' = KeyOf(d, f)
  BY DEF SourceFiles, Pusher, KeyOf, S3Key, GcsZipKey, GcsDirKey, BlobKey, DagKey, Trimmed, ArtifactsKey

LEMMA DagKeys ==
  ASSUME app.kind = "dags", NEW d
  PROVE  SourceFiles(d) = app.tree[d] /\ \A f : KeyOf(d, f) = <<Initially, f, FALSE>>
PROOF
  <1>1. Pusher.dir
    BY DEF Pusher, Pushers, ComposerPusher
  <1> QED BY <1>1 DEF SourceFiles, KeyOf, DagKey

(* What a pull or a listing returns does not touch what is stored.          *)
LEMMA PushHeld ==
  ASSUME UNCHANGED <<app, version>>, remote'.objs = remote.objs, remote'.versions = remote.versions, NEW e,
         pc'[e] = pc[e], local'[e] = local[e], result'[e] = result[e]
  PROVE  PushEffect(e) => PushEffect(e)'
PROOF
  <1>1. SourceFiles(e)' = SourceFiles(e) /\ Keys' = Keys /\ \A f : KeyOf(e, f)' = KeyOf(e, f)
    BY PushSame DEF Keys
  <1>2. Holds(e, SourceFiles(e)) => Holds(e, SourceFiles(e))'
    BY <1>1 DEF Holds
  <1>3. Holds(e, SourceFiles(e) \ local[e]) => Holds(e, SourceFiles(e) \ local[e])'
    BY <1>1 DEF Holds
  <1> QED BY <1>1, <1>2, <1>3 DEF PushEffect

(* Deploy d stores a file.                                                  *)
LEMMA StoresTakes ==
  ASSUME Shape, PushStory, SoleStory, NEW d \in Deploys, IsPush, pc[d] = "upload", NEW f, Stores(d, f), ~Idle(d)
  PROVE  SoleStory'
PROOF
  <1> DEFINE key == KeyOf(d, f)
             objs == [k \in Keys \cup {key} |-> IF k = key THEN d ELSE remote.objs[k]]
  <1>1. PushFields
    BY DEF PushStory
  <1>2. remote'.objs = objs
    BY <1>1 DEF Stores, PushFields
  <1>3. Keys' = Keys \cup {key} /\ \A k \in Keys' : remote'.objs[k] = IF k = key THEN d ELSE remote.objs[k]
    <2> HIDE DEF key
    <2> QED BY <1>2 DEF Keys
  <1>4. Goes(d, "upload", local[d] \ {f}) \/ CallFails(d)
    BY DEF Stores
  <1>5. /\ pc'[d] \in {"upload", "returned"} /\ result'[d] # "ok" /\ UNCHANGED <<app, version>>
        /\ pc'[d] = "upload" => local'[d] = local[d] \ {f}
    BY <1>4, CallsLeave
  <1>6. ASSUME PushEffect(d) PROVE PushEffect(d)'
    <2> SUFFICES ASSUME app.mode[d] = "push" PROVE PushEffect(d)'
      BY <1>5 DEF PushEffect
    <2>1. Holds(d, SourceFiles(d) \ local[d]) /\ (app.kind = "dags" => \A k \in Keys : k = <<Initially, k[2], FALSE>>)
      BY <1>6 DEF PushEffect
    <2>2. SourceFiles(d)' = SourceFiles(d) /\ \A g : KeyOf(d, g)' = KeyOf(d, g)
      BY <1>5, PushSame
    <2>3. ASSUME NEW g \in SourceFiles(d) \ (local[d] \ {f})
          PROVE  KeyOf(d, g) \in Keys' /\ remote'.objs[KeyOf(d, g)] = d
      BY <1>3, <2>1, <2>3 DEF Holds
    <2>4. pc'[d] = "upload" => Holds(d, SourceFiles(d) \ local[d])'
      BY <1>5, <2>2, <2>3 DEF Holds
    <2>5. app.kind = "dags" => \A k \in Keys' : k = <<Initially, k[2], FALSE>>
      <3>1. app.kind = "dags" => key = <<Initially, f, FALSE>>
        BY DagKeys
      <3>2. <<Initially, f, FALSE>> = <<Initially, <<Initially, f, FALSE>>[2], FALSE>>
        BY DagKeyFile
      <3>3. app.kind = "dags" => key = <<Initially, key[2], FALSE>>
        BY <3>1, <3>2, Zenon
      <3> HIDE DEF key
      <3> QED BY <1>3, <2>1, <3>3
    <2> QED BY <1>5, <2>4, <2>5 DEF PushEffect
  <1>7. IsPush => (Effect(d) <=> PushEffect(d)) /\ (Effect(d)' <=> PushEffect(d)')
    BY <1>5, EffectOfKind
  <1> QED BY <1>4, <1>6, <1>7, SoleCalls

(* Deploy d deletes a file that its source lacks.                           *)
LEMMA DeleteTakes ==
  ASSUME Shape, PushStory, SoleStory, NEW d \in Deploys, IsPush, NEW k, DeleteUnmatched(d, k), ~Idle(d)
  PROVE  SoleStory'
PROOF
  <1> DEFINE objs == [j \in Keys \ {k} |-> remote.objs[j]]
  <1>1. PushFields /\ PushOf(d)
    BY DEF PushStory
  <1>2. CASE GivesUp(d) /\ UNCHANGED remote
    BY <1>2, SoleFails
  <1>3. CASE remote' = [remote EXCEPT !.objs = objs] /\ (Goes(d, "delete", local[d] \ {k}) \/ CallFails(d))
    <2>1. remote'.objs = objs
      BY <1>1, <1>3 DEF PushFields
    <2>2. Keys' = Keys \ {k} /\ \A j \in Keys' : remote'.objs[j] = remote.objs[j]
      BY <2>1 DEF Keys
    <2>3. pc[d] = "delete" /\ k \in local[d]
      BY DEF DeleteUnmatched
    <2>4. app.mode[d] = "push" /\ app.kind = "dags" /\ k[2] \notin app.tree[d]
      BY <1>1, <2>3 DEF PushOf
    <2>5. /\ pc'[d] \in {"delete", "returned"} /\ result'[d] # "ok" /\ UNCHANGED <<app, version>>
          /\ pc'[d] = "delete" => local'[d] = local[d] \ {k}
      BY <1>3, <2>3, CallsLeave
    <2>6. SourceFiles(d)' = SourceFiles(d) /\ \A g : KeyOf(d, g)' = KeyOf(d, g)
      BY <2>5, PushSame
    <2>7. ASSUME PushEffect(d) PROVE PushEffect(d)'
      <3>1. /\ Holds(d, SourceFiles(d)) /\ (\A j \in Keys : j = <<Initially, j[2], FALSE>>)
            /\ \A j \in Keys : j[2] \in app.tree[d] \/ j \in local[d]
        BY <2>3, <2>4, <2>7 DEF PushEffect
      <3>2. ASSUME NEW g \in SourceFiles(d) PROVE KeyOf(d, g) \in Keys' /\ remote'.objs[KeyOf(d, g)] = d
        <4>1. KeyOf(d, g) = <<Initially, g, FALSE>> /\ g \in app.tree[d]
          BY <2>4, <3>2, DagKeys
        <4>2. KeyOf(d, g)[2] = g
          BY <4>1, DagKeyFile
        <4>3. KeyOf(d, g) # k
          BY <2>4, <4>1, <4>2, Zenon
        <4> QED BY <2>2, <3>1, <3>2, <4>3 DEF Holds
      <3>3. Holds(d, SourceFiles(d))'
        BY <2>6, <3>2 DEF Holds
      <3> QED BY <2>2, <2>4, <2>5, <3>1, <3>3 DEF PushEffect
    <2>8. IsPush => (Effect(d) <=> PushEffect(d)) /\ (Effect(d)' <=> PushEffect(d)')
      BY <2>5, EffectOfKind
    <2> QED BY <1>3, <2>3, <2>7, <2>8, SoleCalls
  <1> QED BY <1>2, <1>3 DEF DeleteUnmatched

(* Deploy d goes on, or succeeds, with nothing stored or deleted.           *)
LEMMA PushReads ==
  ASSUME Shape, SoleStory, NEW d \in Deploys, IsPush, NEW to, NEW x, NEW ref,
         (Goes(d, to, x) /\ pc[d] # "returned" /\ to # "start") \/ Succeeds(d, ref), ~Idle(d), UNCHANGED remote,
         UNCHANGED <<app, version>> => (PushEffect(d) => PushEffect(d)')
  PROVE  SoleStory'
PROOF
  <1>1. UNCHANGED <<app, version>>
    BY CallsLeave
  <1>2. (Effect(d) <=> PushEffect(d)) /\ (Effect(d)' <=> PushEffect(d)')
    BY <1>1, EffectOfKind
  <1> QED BY <1>1, <1>2, SoleGoes

LEMMA PushTakes ==
  ASSUME Shape, PushStory, SoleStory, PushNext
  PROVE  SoleStory'
PROOF
  <1>0. IsPush /\ ~IsImage /\ PushFields /\ \A d \in Deploys : PushOf(d)
    BY OneKind DEF PushNext, PushStory
  <1>1. \A d \in Deploys : pc[d] \notin {"start", "returned"} => ~Idle(d)
    BY <1>0, NotIdle
  <1>2. \A d \in Deploys : \A mode : MayStart(d, mode) =>
          pc[d] = "start" /\ app.mode[d] = mode /\ (mode # "list" => ~Idle(d))
    BY DEF MayStart, Idle
  <1>3. ASSUME NEW d \in Deploys, PushRejected(d) \/ PushCallFails(d) PROVE SoleStory'
    BY <1>3, SoleFails DEF PushRejected, PushCallFails
  <1>4. ASSUME NEW d \in Deploys, UNCHANGED <<app, version, remote>>
        PROVE  /\ SourceFiles(d)' = SourceFiles(d) /\ Keys' = Keys
               /\ Holds(d, SourceFiles(d)) => Holds(d, SourceFiles(d))'
    <2>1. SourceFiles(d)' = SourceFiles(d) /\ Keys' = Keys /\ \A f : KeyOf(d, f)' = KeyOf(d, f)
      BY <1>4, PushSame DEF Keys
    <2> QED BY <1>4, <2>1 DEF Holds
  <1>5. ASSUME NEW d \in Deploys, WalkDir(d) PROVE SoleStory'
    <2>1. Goes(d, "upload", SourceFiles(d)) /\ UNCHANGED remote /\ pc[d] = "start" /\ ~Idle(d)
      BY <1>2, <1>5 DEF WalkDir
    <2>2. pc'[d] = "upload" /\ local'[d] = SourceFiles(d) /\ result'[d] # "ok"
      BY <2>1, CallsLeave
    <2>3. ASSUME UNCHANGED <<app, version>> PROVE PushEffect(d) => PushEffect(d)'
      <3>1. Holds(d, SourceFiles(d) \ local[d])'
        BY <1>4, <2>1, <2>2, <2>3 DEF Holds
      <3> QED BY <1>4, <2>1, <2>2, <2>3, <3>1 DEF PushEffect
    <2> QED BY <1>0, <2>1, <2>3, PushReads
  <1>6. ASSUME NEW d \in Deploys, Uploaded(d) PROVE SoleStory'
    <2>1. pc[d] = "upload" /\ local[d] = {} /\ UNCHANGED remote /\ ~Idle(d)
      BY <1>1, <1>6 DEF Uploaded
    <2>2. /\ app.kind = "dags" => Goes(d, "unmatched", Nothing)
          /\ app.kind = "ebzip" => Goes(d, "create", Nothing)
          /\ app.kind \notin {"dags", "ebzip"} => Succeeds(d, NoReference)
      BY <1>6 DEF Uploaded
    <2>3. PICK to \in {"unmatched", "create"} : Goes(d, to, Nothing) \/ Succeeds(d, NoReference)
      BY <2>2
    <2>4. ASSUME UNCHANGED <<app, version>> PROVE PushEffect(d) => PushEffect(d)'
      <3>1. /\ app.kind = "dags" => pc'[d] = "unmatched" /\ result'[d] # "ok"
            /\ app.kind = "ebzip" => pc'[d] = "create" /\ result'[d] # "ok"
            /\ app.kind \notin {"dags", "ebzip"} => pc'[d] = "returned"
        BY <2>1, <2>2, CallsLeave
      <3>2. PushEffect(d) /\ app.mode[d] = "push" => Holds(d, SourceFiles(d))
        BY <2>1 DEF PushEffect, Holds
      <3> QED BY <1>4, <2>1, <2>4, <3>1, <3>2 DEF PushEffect
    <2> QED BY <1>0, <2>1, <2>3, <2>4, PushReads
  <1>7. ASSUME NEW d \in Deploys, ListUnmatched(d) PROVE SoleStory'
    <2> DEFINE x == {k \in Keys : k[2] \notin app.tree[d]}
    <2>1. Goes(d, "delete", x) /\ UNCHANGED remote /\ pc[d] = "unmatched" /\ ~Idle(d)
      BY <1>1, <1>7 DEF ListUnmatched
    <2>2. \A k \in Keys : k[2] \in app.tree[d] \/ k \in x
      OBVIOUS
    <2> HIDE DEF x
    <2>3. pc'[d] = "delete" /\ local'[d] = x /\ result'[d] # "ok"
      BY <2>1, CallsLeave
    <2>4. ASSUME UNCHANGED <<app, version>> PROVE PushEffect(d) => PushEffect(d)'
      BY <1>4, <2>1, <2>2, <2>3, <2>4 DEF PushEffect
    <2> QED BY <1>0, <2>1, <2>4, PushReads
  <1>8. ASSUME NEW d \in Deploys, SyncComplete(d) PROVE SoleStory'
    <2>1. Succeeds(d, NoReference) /\ UNCHANGED remote /\ pc[d] = "delete" /\ local[d] = {} /\ ~Idle(d)
      BY <1>1, <1>8 DEF SyncComplete
    <2>2. app.kind = "dags" /\ pc'[d] = "returned"
      BY <1>0, <2>1, CallsLeave DEF PushOf
    <2>3. ASSUME UNCHANGED <<app, version>> PROVE PushEffect(d) => PushEffect(d)'
      BY <1>4, <2>1, <2>2, <2>3 DEF PushEffect
    <2> QED BY <1>0, <2>1, <2>3, PushReads
  <1>9. ASSUME NEW d \in Deploys, CreateAppVersion(d) PROVE SoleStory'
    <2>1. CASE GivesUp(d) /\ UNCHANGED remote
      BY <2>1, SoleFails
    <2>2. CASE /\ remote' = [remote EXCEPT !.versions = @ \cup {version[d]}]
               /\ Succeeds(d, NoReference) \/ CallFails(d)
      <3>1. remote'.objs = remote.objs /\ remote'.versions = remote.versions \cup {version[d]}
        BY <1>0, <2>2 DEF PushFields
      <3>2. pc'[d] = "returned" /\ UNCHANGED <<app, version>> /\ pc[d] = "create" /\ ~Idle(d)
        BY <1>1, <1>9, <2>2, CallsLeave DEF CreateAppVersion
      <3>3. SourceFiles(d)' = SourceFiles(d) /\ Keys' = Keys /\ \A f : KeyOf(d, f)' = KeyOf(d, f)
        BY <3>1, <3>2, PushSame DEF Keys
      <3>4. Holds(d, SourceFiles(d)) => Holds(d, SourceFiles(d))'
        BY <3>1, <3>3 DEF Holds
      <3>5. PushEffect(d) => PushEffect(d)'
        BY <3>1, <3>2, <3>3, <3>4 DEF PushEffect
      <3>6. (Effect(d) <=> PushEffect(d)) /\ (Effect(d)' <=> PushEffect(d)')
        BY <1>0, <3>2, EffectOfKind
      <3> QED BY <2>2, <3>2, <3>5, <3>6, SoleCalls
    <2> QED BY <1>9, <2>1, <2>2 DEF CreateAppVersion
  <1>10. ASSUME NEW d \in Deploys, NEW to, NEW x, Goes(d, to, x), to # "start", UNCHANGED remote,
                app.mode[d] = "pull", ~Idle(d), pc[d] # "returned"
         PROVE  SoleStory'
    <2>1. UNCHANGED <<app, version>> => PushEffect(d)'
      BY <1>10 DEF PushEffect
    <2> QED BY <1>0, <1>10, <2>1, PushReads
  <1>11. ASSUME NEW d \in Deploys, Pulls(d, {}) \/ (\E keys : Pulls(d, keys)), MayStart(d, "pull") PROVE SoleStory'
    <2>1. PICK x : Goes(d, "download", x) /\ UNCHANGED remote
      BY <1>11 DEF Pulls
    <2> QED BY <1>2, <1>10, <1>11, <2>1
  <1>12. ASSUME NEW d \in Deploys, NEW key, MayStart(d, "pull"), PullsZip(d, key) PROVE SoleStory'
    <2>1. CASE Pulls(d, {key})
      BY <1>11, <1>12, <2>1
    <2>2. CASE GivesUp(d) /\ UNCHANGED remote
      BY <2>2, SoleFails
    <2> QED BY <1>12, <2>1, <2>2 DEF PullsZip
  <1>13. ASSUME NEW d \in Deploys, NEW prefix, PullsDir(d, prefix) PROVE SoleStory'
    BY <1>11, <1>13 DEF PullsDir
  <1>14. ASSUME NEW d \in Deploys, NEW k, Download(d, k) PROVE SoleStory'
    <2>1. pc[d] = "download" /\ UNCHANGED remote /\ ~Idle(d) /\ app.mode[d] = "pull"
      BY <1>0, <1>1, <1>14 DEF Download, PushOf
    <2>2. CASE GivesUp(d)
      BY <2>1, <2>2, SoleFails
    <2>3. CASE ~GivesUp(d)
      <3>1. PICK x : Goes(d, "download", x)
        BY <1>14, <2>3 DEF Download
      <3> QED BY <1>10, <2>1, <3>1
    <2> QED BY <2>2, <2>3
  <1>15. ASSUME NEW d \in Deploys, Pulled(d) \/ ListArtifactVersions(d) PROVE SoleStory'
    <2>1. PICK y : remote' = [remote EXCEPT !.got[d] = y]
      BY <1>15 DEF Pulled, ListArtifactVersions
    <2>2. remote'.objs = remote.objs /\ remote'.versions = remote.versions
      BY <1>0, <2>1 DEF PushFields
    <2>3. Succeeds(d, NoReference)
      BY <1>15 DEF Pulled, ListArtifactVersions
    <2>4. app.mode[d] # "push"
      <3>1. CASE Pulled(d)
        BY <1>0, <3>1 DEF Pulled, PushOf
      <3>2. CASE ListArtifactVersions(d)
        <4>1. MayStart(d, "list")
          BY <3>2 DEF ListArtifactVersions
        <4>2. app.mode[d] = "list"
          BY <4>1, <1>2
        <4> QED BY <4>2
      <3> QED BY <1>15, <3>1, <3>2
    <2>5. /\ UNCHANGED <<app, version>>
          /\ \A e \in Deploys \ {d} : pc'[e] = pc[e] /\ local'[e] = local[e] /\ result'[e] = result[e]
      BY <2>3, CallsLeave
    <2>6. PushEffect(d)'
      BY <2>4, <2>5 DEF PushEffect
    <2>7. \A e \in Deploys \ {d} : PushEffect(e) => PushEffect(e)'
      BY <2>2, <2>5, PushHeld
    <2>8. \A e : (Effect(e) <=> PushEffect(e)) /\ (Effect(e)' <=> PushEffect(e)')
      BY <1>0, <2>5, EffectOfKind
    <2> QED BY <2>3, <2>6, <2>7, <2>8, SoleCalls
  <1>16. ASSUME NEW d \in Deploys, NEW f,
                S3Upload(d, f) \/ GcsUpload(d, f) \/ DagUpload(d, f) \/ BlobZipUpload(d, f) \/ BlobDirUpload(d, f)
         PROVE  SoleStory'
    <2>1. pc[d] = "upload" /\ ~Idle(d)
      BY <1>1, <1>16 DEF S3Upload, GcsUpload, DagUpload, BlobZipUpload, BlobDirUpload
    <2>2. Stores(d, f) \/ (GivesUp(d) /\ UNCHANGED remote)
      BY <1>16 DEF S3Upload, GcsUpload, DagUpload, BlobZipUpload, BlobDirUpload
    <2> QED BY <1>0, <2>1, <2>2, StoresTakes, SoleFails
  <1>17. ASSUME NEW d \in Deploys, NEW k, DeleteUnmatched(d, k) PROVE SoleStory'
    <2>1. ~Idle(d)
      BY <1>1, <1>17 DEF DeleteUnmatched
    <2> QED BY <1>0, <1>17, <2>1, DeleteTakes
  <1>18. ASSUME NEW d \in Deploys,
                \/ DownloadS3Zip(d) \/ DownloadGcsZip(d) \/ DownloadBlobZip(d) \/ DownloadS3Dir(d)
                \/ DownloadGcsDir(d) \/ DownloadBlobDir(d) \/ DownloadDags(d)
         PROVE  SoleStory'
    BY <1>12, <1>13, <1>18
    DEF DownloadS3Zip, DownloadGcsZip, DownloadBlobZip, DownloadS3Dir, DownloadGcsDir, DownloadBlobDir, DownloadDags
  <1> QED BY <1>3, <1>5, <1>6, <1>7, <1>8, <1>9, <1>14, <1>15, <1>16, <1>17, <1>18 DEF PushNext

-----------------------------------------------------------------------------
(* The pushers of images: the tag of the host, then that of the repository. *)

LEMMA ImageStarts ==
  ASSUME ImageInit, NEW d \in Deploys
  PROVE  ImageEffect(d)
  BY DEF ImageInit, DeployInit, ImageEffect

LEMMA ImageTakes ==
  ASSUME Shape, ImageStory, SoleStory, ImageNext
  PROVE  SoleStory'
PROOF
  <1>0. IsImage /\ ImageFields /\ \A d \in Deploys : ImageOf(d)
    BY DEF ImageNext, ImageStory
  <1>1. \A d \in Deploys : pc[d] \notin {"start", "returned"} => (Idle(d) => app.mode[d] = "list")
    BY DEF SoleStory, Asked
  <1>2. ASSUME UNCHANGED <<app, version>>
        PROVE  \A e : (Effect(e) <=> ImageEffect(e)) /\ (Effect(e)' <=> ImageEffect(e)')
    BY <1>0, <1>2, EffectOfKind
  <1>3. ASSUME NEW d \in Deploys, ImageRejected(d) \/ ImageCallFails(d) PROVE SoleStory'
    BY <1>3, SoleFails DEF ImageRejected, ImageCallFails
  <1>4. ASSUME NEW d \in Deploys, NEW to, NEW x, Goes(d, to, x), pc[d] # "returned", to # "start", to # "push",
               UNCHANGED remote, Idle(d) => app.mode[d] = "list"
        PROVE  SoleStory'
    <2>1. pc'[d] = to /\ result'[d] # "ok" /\ UNCHANGED <<app, version>>
      BY <1>4, CallsLeave
    <2>2. ImageEffect(d)'
      BY <1>4, <2>1 DEF ImageEffect
    <2> QED BY <1>0, <1>2, <1>4, <2>1, <2>2, SoleGoes
  <1>5. ASSUME NEW d \in Deploys, LoginAuth(d) PROVE SoleStory'
    <2> DEFINE to == CASE Registries[app.kind].exchanges -> "exchange" [] app.mode[d] = "push" -> "tag" [] OTHER -> app.mode[d]
    <2>1. PICK x : Goes(d, to, x)
      BY <1>5 DEF LoginAuth
    <2>2. pc[d] = "start" /\ UNCHANGED remote /\ (Idle(d) => app.mode[d] = "list")
      BY <1>5 DEF LoginAuth, Valid, Idle
    <2>3. to \in {"exchange", "tag", "pull", "list"}
      BY <1>0 DEF ImageOf
    <2> HIDE DEF to
    <2> QED BY <1>4, <2>1, <2>2, <2>3
  <1>6. ASSUME NEW d \in Deploys, ExchangeForAccessToken(d) PROVE SoleStory'
    <2> DEFINE to == IF app.mode[d] = "push" THEN "tag" ELSE app.mode[d]
    <2>1. Goes(d, to, local[d]) /\ pc[d] = "exchange" /\ UNCHANGED remote
      BY <1>6 DEF ExchangeForAccessToken
    <2>2. to \in {"tag", "pull", "list"}
      BY <1>0 DEF ImageOf
    <2> HIDE DEF to
    <2> QED BY <1>1, <1>4, <2>1, <2>2
  <1>7. ASSUME NEW d \in Deploys, ImageTagged(d) PROVE SoleStory'
    <2>1. Goes(d, "push", Nothing) /\ pc[d] = "tag" /\ remote' = [remote EXCEPT !.host[version[d]] = d]
      BY <1>7 DEF ImageTagged
    <2>2. app.mode[d] = "push" /\ version[d] \in Versions /\ ~Idle(d)
      BY <1>0, <1>1, <2>1 DEF ImageOf
    <2>3. remote'.host[version[d]] = d
      BY <1>0, <2>1, <2>2 DEF ImageFields
    <2>4. pc'[d] = "push" /\ result'[d] # "ok" /\ UNCHANGED <<app, version>>
      BY <2>1, CallsLeave
    <2>5. ImageEffect(d)'
      BY <2>3, <2>4 DEF ImageEffect
    <2> QED BY <1>2, <2>1, <2>2, <2>4, <2>5, SoleCalls
  <1>8. ASSUME NEW d \in Deploys, PushImage(d) PROVE SoleStory'
    <2>1. /\ pc[d] = "push" /\ remote' = [remote EXCEPT !.repo[version[d]] = remote.host[version[d]]]
          /\ Succeeds(d, NoReference) \/ CallFails(d)
      BY <1>8 DEF PushImage
    <2>2. app.mode[d] = "push" /\ version[d] \in Versions /\ ~Idle(d)
      BY <1>0, <1>1, <2>1 DEF ImageOf
    <2>3. remote'.repo[version[d]] = remote.host[version[d]]
      BY <1>0, <2>1, <2>2 DEF ImageFields
    <2>4. pc'[d] = "returned" /\ UNCHANGED <<app, version>>
      BY <2>1, CallsLeave
    <2>5. ImageEffect(d) => ImageEffect(d)'
      BY <2>1, <2>2, <2>3, <2>4 DEF ImageEffect
    <2> QED BY <1>2, <2>1, <2>2, <2>4, <2>5, SoleCalls
  <1>9. ASSUME NEW d \in Deploys, PullImage(d) PROVE SoleStory'
    <2>1. pc[d] = "pull"
      BY <1>9 DEF PullImage
    <2>2. app.mode[d] = "pull" /\ ~Idle(d)
      BY <1>0, <1>1, <2>1 DEF ImageOf
    <2>3. CASE GivesUp(d) /\ UNCHANGED remote
      BY <2>3, SoleFails
    <2>4. CASE Succeeds(d, NoReference)
      <3>1. UNCHANGED <<app, version>>
        BY <2>4, CallsLeave
      <3>2. ImageEffect(d)'
        BY <2>2, <3>1 DEF ImageEffect
      <3> QED BY <1>2, <2>2, <2>4, <3>1, <3>2, SoleCalls
    <2> QED BY <1>9, <2>3, <2>4 DEF PullImage
  <1>10. ASSUME NEW d \in Deploys, TagsPage(d) PROVE SoleStory'
    <2>1. pc[d] = "list" /\ app.mode[d] = "list"
      BY <1>0, <1>10 DEF TagsPage, ImageOf
    <2>2. CASE \E x : Goes(d, "list", x) /\ UNCHANGED remote
      BY <1>4, <2>1, <2>2
    <2>3. CASE Succeeds(d, NoReference) /\ \E y : remote' = [remote EXCEPT !.got[d] = y]
      <3>1. remote'.host = remote.host /\ remote'.repo = remote.repo
        BY <1>0, <2>3 DEF ImageFields
      <3>2. /\ UNCHANGED <<app, version>>
            /\ \A e \in Deploys \ {d} : pc'[e] = pc[e] /\ local'[e] = local[e] /\ result'[e] = result[e]
        BY <2>3, CallsLeave
      <3>3. ImageEffect(d)'
        BY <2>1, <3>2 DEF ImageEffect
      <3>4. \A e \in Deploys \ {d} : ImageEffect(e) => ImageEffect(e)'
        BY <3>1, <3>2 DEF ImageEffect
      <3> QED BY <1>2, <2>3, <3>2, <3>3, <3>4, SoleCalls
    <2> QED BY <1>10, <2>2, <2>3 DEF TagsPage
  <1> QED BY <1>3, <1>5, <1>6, <1>7, <1>8, <1>9, <1>10 DEF ImageNext

-----------------------------------------------------------------------------
(* All of them together.                                                    *)

StoriesOfAll ==
  /\ DeployersInv /\ Shape /\ Versioned
  /\ JobStory /\ ObjectStory /\ DefinitionStory /\ CacheStory /\ PushStory /\ ImageStory

LEMMA StoriesOfAllInit == Init => StoriesOfAll
PROOF
  <1> SUFFICES ASSUME Init PROVE StoriesOfAll
    OBVIOUS
  <1>1. DeployersInv /\ Shape /\ Versioned
    BY DeployersInvInit, FrameInit
  <1>2. JobStory
    BY JobStoryInit
  <1>3. ObjectStory /\ DefinitionStory /\ CacheStory /\ PushStory /\ ImageStory
    BY InitOfKind, ObjectStoryInit, DefinitionStoryInit, CacheStoryInit, PushStoryInit, ImageStoryInit
    DEF ObjectStory, DefinitionStory, CacheStory, PushStory, ImageStory
  <1> QED BY <1>1, <1>2, <1>3 DEF StoriesOfAll

LEMMA SoleStoryInit == Init => SoleStory
PROOF
  <1> SUFFICES ASSUME Init PROVE SoleStory
    OBVIOUS
  <1>1. DeployInit
    BY DEF Init, CdnInit, ObjectInit, DefinitionInit, LambdaInit, K8sJobInit, ArtifactInit, PushInit, ImageInit
  <1>2. Tried /\ failures \in Nat /\ \A d \in Deploys : Asked(d)
    BY <1>1 DEF DeployInit, Tried, Asked
  <1>3. OfSomeKind
    BY KindsOfInit, Zenon DEF Init, OfSomeKind
  <1>4. \A d \in Deploys : Effect(d)
    BY InitOfKind, CdnStartsWith, ObjectStarts, DefinitionStarts, LambdaStarts, JobStarts, ArtifactStarts,
       PushStarts, ImageStarts DEF Effect
  <1> HIDE DEF Effect, Asked, Sole
  <1> QED BY <1>2, <1>3, <1>4 DEF SoleStory

LEMMA SoleStoryKept ==
  ASSUME StoriesOfAll, SoleStory, [Next]_deployVars
  PROVE  SoleStory'
PROOF
  <1>1. Shape /\ OfSomeKind
    BY DEF StoriesOfAll, SoleStory
  <1>2. Rest => SoleStory'
    BY <1>1, SoleStoryAgain
  <1>3. /\ CdnInv /\ ObjectInv /\ DefinitionInv /\ FunctionInv /\ JobInv
        /\ JobStory /\ ObjectStory /\ DefinitionStory /\ CacheStory /\ PushStory /\ ImageStory
    BY DEF StoriesOfAll, DeployersInv
  <1>4. \/ CdnNext \/ ObjectNext \/ DefinitionNext \/ LambdaNext \/ K8sJobNext \/ ArtifactNext \/ PushNext
        \/ ImageNext \/ Rest
    BY <1>1, StepOfKind, Zenon DEF OfSomeKind
  <1> QED BY <1>1, <1>2, <1>3, <1>4, CdnTakes, ObjectTakes, DefinitionTakes, LambdaTakes, JobTakes, ArtifactTakes,
             PushTakes, ImageTakes, Zenon

(* What InForce says of a deploy, for each kind of app.                     *)
LEMMA InForceOfKind ==
  ASSUME NEW d
  PROVE  /\ IsCdn => (InForce(d) <=> /\ \A c \in app.versioned : remote.conf[c].version = version[d]
                                     /\ app.envFile /\ Cdns # {} => remote.env = version[d])
         /\ IsObject => (InForce(d) <=> (app.named /\ app.kind # "composer" =>
                                           remote.container.image.tags = <<version[d]>>))
         /\ IsDefinition => (InForce(d) <=> /\ remote.defs[Latest].containers[Main].image = ImageTag(version[d])
                                            /\ app.service => remote.service = Latest)
         /\ IsLambda => (InForce(d) <=> remote.code = version[d] /\ remote.env = version[d])
         /\ IsK8sJob => (InForce(d) <=> \A i \in Objects : remote.objs[i].version = version[d])
         /\ app.kind = "beanstalk" => (InForce(d) <=> remote.running = version[d])
         /\ app.kind = "azurefunctions" =>
              (InForce(d) <=> IF app.exists THEN remote.running = version[d] ELSE remote.restarts > 0)
         /\ app.kind = "blob" => (InForce(d) <=> (app.cdn => remote.purges > 0))
         /\ IsPush => (InForce(d) <=>
              (app.mode[d] = "push" =>
                 /\ Holds(d, SourceFiles(d))
                 /\ app.kind = "dags" => Keys = {KeyOf(d, f) : f \in SourceFiles(d)}
                 /\ app.kind = "ebzip" => version[d] \in remote.versions))
         /\ IsImage => (InForce(d) <=> (app.mode[d] = "push" => remote.repo[version[d]] = d))
PROOF
  <1>1. app.kind \in {"beanstalk", "azurefunctions", "blob"} <=> IsArtifact
    BY DEF IsArtifact
  <1> HIDE DEF Holds
  <1> QED BY <1>1, OneKind, Zenon DEF InForce, Holds

LEMMA LatestIsNewest ==
  ASSUME AnySequence(remote.defs), \A n : Newest(n) => n \in Active
  PROVE  Newest(Latest)
PROOF
  <1> DEFINE n == Len(remote.defs)
  <1>1. n \in Nat /\ Active \subseteq 1..n /\ n \in Active
    BY SequenceDomain DEF Active, Newest
  <1> HIDE DEF Active
  <1>2. n \in Active /\ \A j \in Active : j <= n
    BY <1>1
  <1>3. Latest \in Active /\ \A j \in Active : j <= Latest
    BY <1>2 DEF Latest
  <1> QED BY <1>1, <1>2, <1>3 DEF Newest

LEMMA DefinitionInForce ==
  ASSUME StoriesOfAll, OneVersionRuns, IsDefinition, NEW d \in Deploys, DefinitionEffect(d), result[d] = "ok"
  PROVE  InForce(d)
PROOF
  <1>1. AnySequence(remote.defs) /\ DOMAIN remote.defs = 1..Len(remote.defs)
    BY SequenceDomain DEF StoriesOfAll, DeployersInv, DefinitionInv, Revisions
  <1>2. /\ \A n : Newest(n) => n \in Active /\ remote.defs[n].by = d
        /\ app.service => Newest(remote.service)
    BY DEF DefinitionEffect
  <1>3. Newest(Latest)
    BY <1>1, <1>2, LatestIsNewest
  <1>4. Latest \in DOMAIN remote.defs /\ remote.defs[Latest].by = d
    BY <1>2, <1>3 DEF Active
  <1>5. remote.defs[Latest].containers[Main].image = ImageTag(version[d])
    BY <1>4 DEF OneVersionRuns, DefinitionOneVersion
  <1>6. app.service => remote.service = Latest
    BY <1>2, <1>3 DEF Newest
  <1> QED BY <1>5, <1>6, InForceOfKind

LEMMA PushInForce ==
  ASSUME IsPush, NEW d \in Deploys, PushEffect(d), result[d] = "ok"
  PROVE  InForce(d)
PROOF
  <1> SUFFICES ASSUME app.mode[d] = "push"
               PROVE  /\ Holds(d, SourceFiles(d))
                      /\ app.kind = "dags" => Keys = {KeyOf(d, f) : f \in SourceFiles(d)}
                      /\ app.kind = "ebzip" => version[d] \in remote.versions
    BY InForceOfKind
  <1>1. Holds(d, SourceFiles(d)) /\ (app.kind = "ebzip" => version[d] \in remote.versions)
    BY DEF PushEffect
  <1>2. ASSUME app.kind = "dags" PROVE Keys = {KeyOf(d, f) : f \in SourceFiles(d)}
    <2>1. SourceFiles(d) = app.tree[d] /\ \A f : KeyOf(d, f) = <<Initially, f, FALSE>>
      BY <1>2, DagKeys
    <2>2. \A k \in Keys : k = <<Initially, k[2], FALSE>> /\ k[2] \in app.tree[d]
      BY <1>2 DEF PushEffect
    <2>3. ASSUME NEW k \in Keys PROVE k[2] \in SourceFiles(d) /\ KeyOf(d, k[2]) = k
      BY <2>1, <2>2
    <2>4. \A f \in SourceFiles(d) : KeyOf(d, f) \in Keys
      BY <1>1 DEF Holds
    <2> HIDE DEF KeyOf, SourceFiles, Keys
    <2> QED BY <2>3, <2>4
  <1> QED BY <1>1, <1>2

LEMMA SoleInForce ==
  ASSUME StoriesOfAll, SoleStory, OneVersionRuns
  PROVE  SoleDeployTakesEffect
PROOF
  <1> SUFFICES ASSUME NEW d \in Deploys, result[d] = "ok", Sole(d),
                      ~(IsCdn /\ app.cloud = "gcp" /\ app.envFile /\ failures > 0)
               PROVE  InForce(d)
    BY DEF SoleDeployTakesEffect
  <1>1. OfSomeKind /\ Effect(d)
    BY DEF SoleStory
  <1>2. CASE IsCdn
    <2>1. CdnEffect(d)
      BY <1>1, <1>2 DEF Effect
    <2> QED BY <1>2, <2>1, InForceOfKind DEF CdnEffect
  <1>3. CASE IsObject
    <2>1. ObjectEffect(d)
      BY <1>1, <1>3 DEF Effect
    <2> QED BY <1>3, <2>1, InForceOfKind DEF ObjectEffect
  <1>4. CASE IsDefinition
    <2>1. DefinitionEffect(d)
      BY <1>1, <1>4 DEF Effect
    <2> QED BY <1>4, <2>1, DefinitionInForce
  <1>5. CASE IsLambda
    <2>1. LambdaEffect(d)
      BY <1>1, <1>5 DEF Effect
    <2> QED BY <1>5, <2>1, InForceOfKind DEF LambdaEffect
  <1>6. CASE IsK8sJob
    <2>1. JobEffect(d)
      BY <1>1, <1>6 DEF Effect
    <2> QED BY <1>6, <2>1, InForceOfKind DEF JobEffect
  <1>7. CASE IsArtifact
    <2>1. ArtifactEffect(d)
      BY <1>1, <1>7 DEF Effect
    <2>2. app.kind \in {"beanstalk", "azurefunctions", "blob"}
      BY <1>7 DEF IsArtifact
    <2> QED BY <2>1, <2>2, InForceOfKind DEF ArtifactEffect, IsBeanstalk
  <1>8. CASE IsPush
    <2>1. PushEffect(d)
      BY <1>1, <1>8 DEF Effect
    <2> QED BY <1>8, <2>1, PushInForce
  <1>9. CASE IsImage
    <2>1. ImageEffect(d)
      BY <1>1, <1>9 DEF Effect
    <2> QED BY <1>9, <2>1, InForceOfKind DEF ImageEffect
  <1> QED BY <1>1, <1>2, <1>3, <1>4, <1>5, <1>6, <1>7, <1>8, <1>9 DEF OfSomeKind

(* A deploy, or a push, that reports success has done what it was asked:    *)
(* while no other was begun its version is in force, in each of the calls   *)
(* that the kind of app takes, whatever others edited and however many of   *)
(* its own earlier runs failed half way (app.Deployer.Deploy,               *)
(* app.Pusher.Push).                                                        *)
THEOREM SoleDeploysTakeEffect == Spec => []SoleDeployTakesEffect
PROOF
  <1>1. Init => StoriesOfAll /\ SoleStory
    BY StoriesOfAllInit, SoleStoryInit
  <1>2. StoriesOfAll /\ [Next]_deployVars => StoriesOfAll'
    BY FrameNext, DeployersInvNext, JobStoryKept, ObjectStoryKept, DefinitionStoryKept, CacheStoryKept,
       PushStoryKept, ImageStoryKept DEF StoriesOfAll
  <1>3. StoriesOfAll /\ SoleStory /\ [Next]_deployVars => SoleStory'
    BY SoleStoryKept
  <1>4. StoriesOfAll /\ SoleStory /\ OneVersionRuns => SoleDeployTakesEffect
    BY SoleInForce
  <1> QED BY <1>1, <1>2, <1>3, <1>4, VersionsNeverMix, PTL DEF Spec
=============================================================================
