------------------------- MODULE TripWorkflowProofs -------------------------
(***************************************************************************)
(* Theorems about Blackboard, for any runs, slots, artifact ids and        *)
(* writers, and about TripWorkflow, for any calls, sessions and round      *)
(* limit.                                                                  *)
(*                                                                         *)
(* Calls and sessions only write what the Blackboard lets any writer       *)
(* write, so that TripSpec implements its Spec and every theorem about the *)
(* Blackboard holds here.  That a write is one of the Blackboard's Next    *)
(* needs the types of what a session carries with it (RepairTypeOK), and   *)
(* these need that the lookups of a reader find stored artifacts           *)
(* (VersionsAgree).                                                        *)
(*                                                                         *)
(* The later parts are about the sessions of targeted repair: what a       *)
(* session has published in its rounds (RoundsInv), and how overlapping    *)
(* sessions come one after another on a slot (SerialInv).                  *)
(***************************************************************************)
EXTENDS TripWorkflow, BlackboardLineage, SumTheorems, SequenceTheorems

USE BlackboardAssumption, NoRecordAssumption

-----------------------------------------------------------------------------
(* The Blackboard.  Its inductive invariant is the conjunction of the four  *)
(* invariants that are checked: VersionsAgree gives what a write overwrites *)
(* (nothing), LineageClosed that no stored artifact has the new one as a    *)
(* parent, and with it LineageAcyclic is kept.                              *)

IInv == TypeOK /\ VersionsAgree /\ LineageClosed /\ LineageAcyclic

\* What a write does to the three dictionaries.
Effect(a, s, version, parents) ==
  /\ ~ Stored(a)
  /\ version = head[s] + 1
  /\ record'[a] = [slot |-> s, version |-> version, parents |-> parents]
  /\ \A b \in Artifacts : b # a => record'[b] = record[b]
  /\ head'[s] = version
  /\ \A t \in Slots : t # s => head'[t] = head[t]
  /\ logical'[s][version] = a
  /\ \A t \in Slots, v \in Versions : t # s \/ v # version => logical'[t][v] = logical[t][v]

LEMMA WriteEffect ==
  ASSUME TypeOK, NEW a \in Artifacts, NEW s \in Slots, NEW version \in Versions,
         NEW parents \in SUBSET Artifacts, NEW expected \in 0..MaxVersion,
         Write(a, s, version, parents, expected)
  PROVE  Effect(a, s, version, parents)
  BY DEF TypeOK, Write, FollowsHead, NewId, Stored, NewHead, Effect

LEMMA InitIInv == Init => IInv
<1> SUFFICES ASSUME Init PROVE IInv
  OBVIOUS
<1>1. TypeOK
  BY DEF Init, TypeOK, Versions
<1>2. VersionsAgree
  BY DEF Init, VersionsAgree, Get, Stored, Versions
<1>3. LineageClosed /\ LineageAcyclic
  BY DEF Init, LineageClosed, LineageAcyclic, Stored
<1> QED
  BY <1>1, <1>2, <1>3 DEF IInv

LEMMA TypeStep == TypeOK /\ [Next]_vars => TypeOK'
<1> SUFFICES ASSUME TypeOK, [Next]_vars PROVE TypeOK'
  OBVIOUS
<1>1. CASE UNCHANGED vars
  BY <1>1 DEF TypeOK, vars
<1>2. ASSUME NEW a \in Artifacts, NEW s \in Slots, NEW version \in Versions,
             NEW parents \in SUBSET Artifacts, NEW expected \in 0..MaxVersion,
             Write(a, s, version, parents, expected)
      PROVE  TypeOK'
  <2>1. [slot |-> s, version |-> version, parents |-> parents] \in Records
    BY DEF Records
  <2>2. record' \in [Artifacts -> Records \union {NoRecord}]
    BY <1>2, <2>1 DEF Write, TypeOK
  <2>3. logical' \in [Slots -> [Versions -> Artifacts \union {NoArtifact}]]
    BY <1>2 DEF Write, TypeOK
  <2>4. head' \in [Slots -> 0..MaxVersion]
    BY <1>2 DEF Write, TypeOK, Versions, NewHead
  <2> QED
    BY <2>2, <2>3, <2>4 DEF TypeOK
<1> QED
  BY <1>1, <1>2 DEF Next

LEMMA VersionsStep ==
  ASSUME TypeOK, VersionsAgree, [Next]_vars
  PROVE  VersionsAgree'
<1>1. CASE UNCHANGED vars
  BY <1>1 DEF VersionsAgree, vars, Get, Stored
<1>2. ASSUME NEW a \in Artifacts, NEW s \in Slots, NEW version \in Versions,
             NEW parents \in SUBSET Artifacts, NEW expected \in 0..MaxVersion,
             Write(a, s, version, parents, expected)
      PROVE  VersionsAgree'
  <2>0. Effect(a, s, version, parents)
    BY <1>2, WriteEffect
  <2> USE <2>0 DEF Effect, Get
  <2>1. ASSUME NEW t \in Slots, NEW v \in Versions
        PROVE  /\ v <= head'[t] <=> Get(t, v)' # NoArtifact
               /\ Get(t, v)' # NoArtifact =>
                    /\ Stored(Get(t, v))'
                    /\ record'[Get(t, v)'].slot = t
                    /\ record'[Get(t, v)'].version = v
    <3>1. CASE t = s /\ v = version
      <4>1. Get(t, v)' = a /\ head'[t] = v
        BY <3>1
      <4>2. record'[a] = [slot |-> t, version |-> v, parents |-> parents]
        BY <3>1
      <4>3. record'[a] \in Records
        BY <4>2 DEF Records
      <4> QED
        BY <4>1, <4>2, <4>3 DEF Stored, Versions
    <3>2. CASE t # s \/ v # version
      <4>1. Get(t, v)' = Get(t, v)
        BY <3>2
      <4>2. v <= head'[t] <=> v <= head[t]
        BY <3>2 DEF Versions, TypeOK
      <4>3. Get(t, v) # NoArtifact => Get(t, v) # a /\ Get(t, v) \in Artifacts
        BY DEF VersionsAgree, TypeOK, Get
      <4> QED
        BY <4>1, <4>2, <4>3 DEF VersionsAgree, Stored
    <3> QED
      BY <3>1, <3>2
  <2>2. ASSUME NEW b \in Artifacts, Stored(b)'
        PROVE  Get(record[b].slot, record[b].version)' = b
    <3>1. CASE b = a
      BY <3>1
    <3>2. CASE b # a
      <4>1. record'[b] = record[b] /\ Stored(b)
        BY <2>2, <3>2 DEF Stored
      <4>2. record[b].slot \in Slots /\ record[b].version \in Versions
        BY <4>1 DEF TypeOK, Stored, Records
      <4>3. Get(record[b].slot, record[b].version) = b
        BY <4>1 DEF VersionsAgree
      <4>4. record[b].slot # s \/ record[b].version # version
        BY <4>1, <4>2, <4>3 DEF VersionsAgree, TypeOK, Versions
      <4> QED
        BY <4>1, <4>2, <4>3, <4>4
    <3> QED
      BY <3>1, <3>2
  <2> QED
    BY <2>1, <2>2 DEF VersionsAgree
<1> QED
  BY <1>1, <1>2 DEF Next

LEMMA LineageStep ==
  ASSUME TypeOK, LineageClosed, LineageAcyclic, [Next]_vars
  PROVE  LineageClosed' /\ LineageAcyclic'
<1>1. CASE UNCHANGED vars
  BY <1>1 DEF LineageClosed, LineageAcyclic, vars, Stored
<1>2. ASSUME NEW a \in Artifacts, NEW s \in Slots, NEW version \in Versions,
             NEW parents \in SUBSET Artifacts, NEW expected \in 0..MaxVersion,
             Write(a, s, version, parents, expected)
      PROVE  LineageClosed' /\ LineageAcyclic'
  <2>1. /\ ~ Stored(a)
        /\ record'[a] = [slot |-> s, version |-> version, parents |-> parents]
        /\ \A b \in Artifacts : b # a => record'[b] = record[b]
    BY <1>2, WriteEffect DEF Effect
  <2>2. \A p \in parents : p # a /\ Stored(p) /\ RunOf[record[p].slot] = RunOf[s]
    BY <1>2, <2>1 DEF Write, ParentsKnown
  <2>3. \A b \in Artifacts : Stored(b) => b # a /\ record'[b] = record[b] /\ Stored(b)'
    BY <2>1 DEF Stored
  <2>4. \A b \in Artifacts : Stored(b)' => b = a \/ Stored(b)
    BY <2>1 DEF Stored
  <2>5. \A b \in Artifacts : Stored(b) => record[b].parents \subseteq Artifacts \ {a}
    BY <2>1 DEF LineageClosed, TypeOK, Records, Stored
  <2>6. LineageClosed'
    <3> SUFFICES ASSUME NEW b \in Artifacts, Stored(b)', NEW p \in record'[b].parents
                 PROVE  Stored(p)' /\ RunOf[record'[p].slot] = RunOf[record'[b].slot]
      BY DEF LineageClosed
    <3>1. CASE b = a
      BY <3>1, <2>1, <2>2, <2>3
    <3>2. CASE b # a
      <4>1. Stored(b) /\ record'[b] = record[b]
        BY <3>2, <2>3, <2>4
      <4>2. Stored(p) /\ p \in Artifacts /\ RunOf[record[p].slot] = RunOf[record[b].slot]
        BY <4>1, <2>5 DEF LineageClosed
      <4> QED
        BY <4>1, <4>2, <2>3
    <3> QED
      BY <3>1, <3>2
  <2>7. LineageAcyclic'
    <3> SUFFICES ASSUME NEW S \in SUBSET {b \in Artifacts : Stored(b)'}, S # {}
                 PROVE  \E b \in S : record'[b].parents \intersect S = {}
      BY DEF LineageAcyclic
    <3> DEFINE old == S \ {a}
    <3>1. old \in SUBSET {b \in Artifacts : Stored(b)}
      BY <2>4
    <3>2. CASE old = {}
      \* Only the new artifact, which is not its own parent.
      BY <3>2, <2>1, <2>2
    <3>3. CASE old # {}
      <4>1. PICK b \in old : record[b].parents \intersect old = {}
        BY <3>1, <3>3 DEF LineageAcyclic
      <4>2. Stored(b) /\ record'[b] = record[b] /\ a \notin record[b].parents
        BY <3>1, <2>3, <2>5
      <4> QED
        BY <4>1, <4>2
    <3> QED
      BY <3>2, <3>3
  <2> QED
    BY <2>6, <2>7
<1> QED
  BY <1>1, <1>2 DEF Next

\* The conjunction of the checked invariants is inductive.
THEOREM Invariance == Spec => []IInv
<1>1. IInv /\ [Next]_vars => IInv'
  BY TypeStep, VersionsStep, LineageStep DEF IInv
<1> QED
  BY InitIInv, <1>1, PTL DEF Spec

\* No two writers ever got the same version of a slot, and the dictionaries
\* of the code agree.
THEOREM VersionsAgreeHolds == Spec => []VersionsAgree
BY Invariance, PTL DEF IInv

\* Every parent is stored and in the run of its child.
THEOREM LineageClosedHolds == Spec => []LineageClosed
BY Invariance, PTL DEF IInv

\* No artifact is its own ancestor.
THEOREM LineageAcyclicHolds == Spec => []LineageAcyclic
BY Invariance, PTL DEF IInv

\* What PublishedIsImmutable says of a step.
Keeps ==
  /\ \A a \in Artifacts : Stored(a) => record'[a] = record[a]
  /\ \A s \in Slots :
       /\ head'[s] >= head[s]
       /\ \A v \in Versions : Get(s, v) # NoArtifact => Get(s, v)' = Get(s, v)

\* Only a new id and the next version are assigned.
LEMMA KeepsStep == IInv /\ [Next]_vars => [Keeps]_vars
<1> SUFFICES ASSUME IInv, Next PROVE Keeps
  BY DEF IInv
<1>1. PICK a \in Artifacts, s \in Slots, version \in Versions,
           parents \in SUBSET Artifacts, expected \in 0..MaxVersion :
             Write(a, s, version, parents, expected)
  BY DEF Next
<1>2. TypeOK /\ VersionsAgree
  BY DEF IInv
<1>3. Effect(a, s, version, parents)
  BY <1>1, <1>2, WriteEffect
<1>4. \A t \in Slots : head'[t] >= head[t]
  BY <1>2, <1>3 DEF TypeOK, Effect
<1>5. Get(s, version) = NoArtifact
  BY <1>2, <1>3 DEF VersionsAgree, TypeOK, Versions, Effect
<1>6. \A t \in Slots, v \in Versions : Get(t, v) # NoArtifact => Get(t, v)' = Get(t, v)
  BY <1>3, <1>5 DEF Effect, Get
<1> QED
  BY <1>3, <1>4, <1>6 DEF Effect, Keeps

\* Stored records and versions never change.
THEOREM PublishedIsImmutableHolds == Spec => PublishedIsImmutable
BY KeepsStep, Invariance, PTL DEF Spec, PublishedIsImmutable, Keeps

\* Every slot is an append-only log of artifacts that are used once.
THEOREM RefinesLog == Spec => ImplementsLog
<1> DEFINE log == [s \in Slots |-> [v \in 1..head[s] |-> logical[s][v]]]
<1>1. Init => Log!Init
  <2> SUFFICES ASSUME Init PROVE \A s \in Slots : [v \in 1..head[s] |-> logical[s][v]] = << >>
    BY DEF Log!Init
  <2> QED
    BY DEF Init
<1>2. IInv /\ IInv' /\ [Next]_vars => [Log!Next]_log
  <2> SUFFICES ASSUME IInv, IInv', [Next]_vars PROVE Log!Next \/ UNCHANGED log
    OBVIOUS
  <2>1. CASE UNCHANGED vars
    BY <2>1 DEF vars
  <2>2. CASE Next
    <3>1. PICK a \in Artifacts, s \in Slots, version \in Versions,
               parents \in SUBSET Artifacts, expected \in 0..MaxVersion :
                 Write(a, s, version, parents, expected)
      BY <2>2 DEF Next
    <3>2. TypeOK /\ VersionsAgree
      BY DEF IInv
    <3>0. Effect(a, s, version, parents)
      BY <3>1, <3>2, WriteEffect
    <3>3. \A t \in Slots : head[t] \in Nat /\ 1..head[t] \subseteq Versions
      BY <3>2 DEF TypeOK, Versions
    <3>4. \A t \in Slots : /\ log[t] = [v \in 1..head[t] |-> Get(t, v)]
                           /\ log'[t] = [v \in 1..head'[t] |-> Get(t, v)']
      BY DEF Get
    <3>5. ASSUME NEW t \in Slots PROVE \A v \in DOMAIN log[t] : log[t][v] # a
      <4>1. \A v \in 1..head[t] : Get(t, v) # a
        BY <3>0, <3>2, <3>3 DEF VersionsAgree, Effect
      <4> QED
        BY <4>1, <3>4
    <3>6. log'[s] = Append(log[s], a)
      <4>1. head'[s] = head[s] + 1 /\ version = head[s] + 1
        BY <3>0 DEF Effect
      <4>2. \A v \in 1..head[s] : Get(s, v)' = Get(s, v)
        BY <3>0, <3>3, <4>1 DEF Effect, Get
      <4>3. logical'[s][head[s] + 1] = a
        BY <3>0, <4>1 DEF Effect, Get
      <4>4. Len(log[s]) = head[s]
        BY <3>3, <3>4
      <4>5. Append(log[s], a) = [v \in 1..(head[s] + 1) |->
                                   IF v = head[s] + 1 THEN a ELSE Get(s, v)]
        BY <3>3, <3>4, <4>4
      <4> QED
        BY <3>3, <3>4, <4>1, <4>2, <4>3, <4>5 DEF Get
    <3>7. \A t \in Slots : t # s => log'[t] = log[t]
      <4> SUFFICES ASSUME NEW t \in Slots, t # s PROVE log'[t] = log[t]
        OBVIOUS
      <4>1. head'[t] = head[t] /\ \A v \in 1..head[t] : Get(t, v)' = Get(t, v)
        BY <3>0, <3>3 DEF Effect, Get
      <4> QED
        BY <3>4, <4>1
    <3>8. log' = [log EXCEPT ![s] = Append(@, a)]
      BY <3>6, <3>7
    <3> QED
      BY <3>5, <3>8 DEF Log!Next, Log!Publish
  <2> QED
    BY <2>1, <2>2
<1> QED
  BY <1>1, <1>2, Invariance, PTL DEF Spec, ImplementsLog, Log!Spec

-----------------------------------------------------------------------------
(* Lineage.  The walk of the code is a recursion from artifacts to their    *)
(* parents: it is defined because nothing is its own ancestor and finitely  *)
(* many artifacts are stored, and each visit keeps the order of the list.   *)

\* What the walk relies on.
Stocked == TypeOK /\ LineageClosed /\ LineageAcyclic /\ IsFiniteSet(Stock)

\* Lists of artifacts, and what visits make of them.
Lists == Seq(Stock)
Walks == [Stock -> [Lists -> Lists]]
ParentsOf(a) == SetToSeq(record[a].parents)

\* The list of a finite set has each of its elements.
LEMMA ListOfSet ==
  ASSUME NEW S, IsFiniteSet(S)
  PROVE  SetToSeq(S) \in Seq(S) /\ ToSet(SetToSeq(S)) = S
<1> DEFINE n == Cardinality(S)
           q == SetToSeq(S)
<1>1. n \in Nat /\ ExistsBijection(1..n, S)
  BY FS_CardinalityType
<1>2. PICK b : b \in Bijection(1..n, S)
  BY <1>1 DEF ExistsBijection
<1>3. b \in [1..n -> S] /\ IsInjective(b)
  BY <1>2 DEF Bijection, Injection, IsInjective
<1>4. q \in [1..n -> S] /\ IsInjective(q)
  BY <1>3 DEF SetToSeq
<1>5. q \in Injection(1..n, S)
  BY <1>4 DEF Injection, IsInjective
<1>6. q \in Surjection(1..n, S)
  <2>1. Cardinality(1..n) = n
    BY <1>1, FS_Interval
  <2> HIDE DEF n, q
  <2> QED
    BY <1>1, <1>5, <2>1, FS_Injection DEF n
<1>7. ToSet(q) = S
  BY <1>4, <1>6 DEF Surjection, ToSet
<1>8. q \in Seq(S)
  <2> HIDE DEF n, q
  <2> QED
    BY <1>1, <1>4
<1> QED
  BY <1>7, <1>8

\* The parents of a stored artifact are stored, and a walk lists them.
LEMMA ParentsAreStock ==
  ASSUME Stocked, NEW a \in Stock
  PROVE  /\ record[a].parents \subseteq Stock
         /\ ParentsOf(a) \in Lists
         /\ ToSet(ParentsOf(a)) = record[a].parents
<1>1. record[a].parents \subseteq Stock
  BY DEF Stocked, Stock, LineageClosed, TypeOK, Stored, Records
<1>2. IsFiniteSet(record[a].parents)
  BY <1>1, FS_Subset DEF Stocked
<1>3. ParentsOf(a) \in Seq(record[a].parents) /\ ToSet(ParentsOf(a)) = record[a].parents
  BY <1>2, ListOfSet DEF ParentsOf
<1> QED
  BY <1>1, <1>3 DEF Lists

-----------------------------------------------------------------------------
(* The loop over the parents *)

\* Visits to the parents are defined.
Walk(visit, parents) == \A p \in parents : visit[p] \in [Lists -> Lists]

\* f has the lists before and after each of the parents.
Passes(f, visit, ordered, parents) ==
  /\ f \in [0..Len(parents) -> Lists]
  /\ f[0] = ordered
  /\ \A i \in 1..Len(parents) : f[i] = visit[parents[i]][f[i - 1]]

\* There are such lists, and the last one is what the loop makes.
LEMMA AfterPasses ==
  ASSUME NEW visit, NEW ordered \in Lists, NEW parents \in Lists, Walk(visit, ToSet(parents))
  PROVE  \E f : Passes(f, visit, ordered, parents) /\ After(visit, ordered, parents) = f[Len(parents)]
<1> DEFINE n == Len(parents)
           step == [i \in 1..n |-> visit[parents[i]]]
           Eqn(f) == f = [i \in 0..n |-> IF i = 0 THEN ordered ELSE visit[parents[i]][f[i - 1]]]
           after == CHOOSE f : Eqn(f)
<1>1. n \in Nat /\ \A i \in 1..n : visit[parents[i]] \in [Lists -> Lists]
  BY DEF Lists, Walk, ToSet
<1>2. step \in [1..n -> [Lists -> Lists]]
  BY <1>1
<1>3. PICK f : IsRun(f, n, Lists, ordered, step)
  <2> HIDE DEF n, step
  <2> QED
    BY <1>1, <1>2, Recursion
<1>4. Eqn(f)
  <2>1. f \in [0..n -> Lists] /\ f[0] = ordered
    BY <1>3 DEF IsRun
  <2>2. \A i \in 1..n : f[i] = visit[parents[i]][f[i - 1]]
    BY <1>3 DEF IsRun
  <2>3. \A i \in 0..n : f[i] = IF i = 0 THEN ordered ELSE visit[parents[i]][f[i - 1]]
    BY <1>1, <2>1, <2>2
  <2> HIDE DEF n
  <2> QED
    BY <2>1, <2>3
<1>5. Eqn(after)
  <2> HIDE DEF Eqn
  <2> QED
    BY <1>4
<1>6. \A i \in 0..n : after[i] = IF i = 0 THEN ordered ELSE visit[parents[i]][after[i - 1]]
  <2> HIDE DEF after
  <2> QED
    BY <1>5
<1>7. DOMAIN after = 0..n /\ after = [i \in 0..n |-> after[i]]
  <2> HIDE DEF after
  <2> QED
    BY <1>5
<1>8. \A i \in 0..n : after[i] \in Lists
  <2> DEFINE Good == {i \in 0..n : after[i] \in Lists}
  <2> HIDE DEF after, n
  <2>1. 0 \in Good
    BY <1>1, <1>6
  <2>2. ASSUME NEW k \in 1..n, k - 1 \in Good PROVE k \in Good
    <3>1. after[k] = visit[parents[k]][after[k - 1]]
      BY <1>1, <1>6
    <3>2. after[k - 1] \in Lists
      BY <1>1, <2>2
    <3>3. visit[parents[k]] \in [Lists -> Lists]
      BY <1>1
    <3> QED
      BY <1>1, <3>1, <3>2, <3>3
  <2>3. \A k \in 0..n : k \in Good
    <3> HIDE DEF Good
    <3> QED
      BY <1>1, <2>1, <2>2, UpTo
  <2> QED
    BY <2>3
<1>9. Passes(after, visit, ordered, parents)
  <2> HIDE DEF after
  <2> QED
    BY <1>1, <1>6, <1>7, <1>8 DEF Passes
<1>10. After(visit, ordered, parents) = after[n]
  BY DEF After
<1> HIDE DEF after
<1> QED
  BY <1>9, <1>10

\* What the loop makes of the list depends on the visits to the parents only.
LEMMA AfterSame ==
  ASSUME NEW visit, NEW other, NEW ordered \in Lists, NEW parents \in Lists,
         Walk(visit, ToSet(parents)), \A p \in ToSet(parents) : visit[p] = other[p]
  PROVE  After(visit, ordered, parents) = After(other, ordered, parents)
<1> DEFINE n == Len(parents)
<1>0. Walk(other, ToSet(parents))
  BY DEF Walk
<1>1. PICK f : Passes(f, visit, ordered, parents) /\ After(visit, ordered, parents) = f[n]
  BY AfterPasses
<1>2. PICK g : Passes(g, other, ordered, parents) /\ After(other, ordered, parents) = g[n]
  BY <1>0, AfterPasses
<1>3. n \in Nat /\ \A i \in 1..n : parents[i] \in ToSet(parents)
  BY DEF Lists, ToSet
<1> DEFINE Good == {i \in 0..n : f[i] = g[i]}
<1>4. 0 \in Good
  BY <1>1, <1>2, <1>3 DEF Passes
<1>5. ASSUME NEW k \in 1..n, k - 1 \in Good PROVE k \in Good
  BY <1>1, <1>2, <1>3, <1>5 DEF Passes
<1>6. \A k \in 0..n : k \in Good
  <2> HIDE DEF Good, n
  <2> QED
    BY <1>3, <1>4, <1>5, UpTo
<1> QED
  BY <1>1, <1>2, <1>3, <1>6

-----------------------------------------------------------------------------
(* The walk exists *)

\* What visit makes of an artifact when it visits others the way `visit` does.
Body(visit, a) ==
  [ordered \in Lists |->
     IF Visited(ordered, a) THEN ordered
     ELSE Append(After(visit, ordered, ParentsOf(a)), a)]

\* A visit makes a list of a list.
LEMMA BodyType ==
  ASSUME Stocked, NEW visit, NEW a \in Stock, Walk(visit, record[a].parents)
  PROVE  Body(visit, a) \in [Lists -> Lists]
<1> SUFFICES ASSUME NEW ordered \in Lists
             PROVE  Append(After(visit, ordered, ParentsOf(a)), a) \in Lists
  BY DEF Body
<1>1. ParentsOf(a) \in Lists /\ ToSet(ParentsOf(a)) = record[a].parents
  BY ParentsAreStock
<1>2. PICK f : /\ Passes(f, visit, ordered, ParentsOf(a))
               /\ After(visit, ordered, ParentsOf(a)) = f[Len(ParentsOf(a))]
  BY <1>1, AfterPasses
<1>3. Len(ParentsOf(a)) \in Nat
  BY <1>1 DEF Lists
<1>4. After(visit, ordered, ParentsOf(a)) \in Lists
  BY <1>2, <1>3 DEF Passes
<1> QED
  BY <1>4 DEF Lists

\* What a visit does depends on the visits to the parents only.
LEMMA BodySame ==
  ASSUME Stocked, NEW visit, NEW other, NEW a \in Stock, Walk(visit, record[a].parents),
         \A p \in record[a].parents : visit[p] = other[p]
  PROVE  Body(visit, a) = Body(other, a)
<1>1. ParentsOf(a) \in Lists /\ ToSet(ParentsOf(a)) = record[a].parents
  BY ParentsAreStock
<1>2. \A ordered \in Lists :
        After(visit, ordered, ParentsOf(a)) = After(other, ordered, ParentsOf(a))
  BY <1>1, AfterSame
<1> QED
  BY <1>2 DEF Body

\* A walk may leave rest for later: the artifacts outside it have their parents
\* there, and some walk visits them the way the code does.
WalksAllBut(visit, rest) == \A a \in Stock \ rest : visit[a] = Body(visit, a)
CanLeave(rest) ==
  /\ \A a \in Stock \ rest : record[a].parents \intersect rest = {}
  /\ \E visit \in Walks : WalksAllBut(visit, rest)

\* One of the artifacts that are left has its parents among the others.
LEMMA OneMore ==
  ASSUME Stocked, NEW rest \in SUBSET Stock, rest # {}, CanLeave(rest)
  PROVE  \E a \in rest : CanLeave(rest \ {a})
<1>1. PICK a \in rest : record[a].parents \intersect rest = {}
  BY DEF Stocked, LineageAcyclic, Stock
<1>2. PICK visit \in Walks : WalksAllBut(visit, rest)
  BY DEF CanLeave
<1> DEFINE next == [visit EXCEPT ![a] = Body(visit, a)]
<1>3. next \in Walks
  <2>1. Walk(visit, record[a].parents)
    BY ParentsAreStock DEF Walk, Walks
  <2>2. Body(visit, a) \in [Lists -> Lists]
    BY <2>1, BodyType
  <2> QED
    BY <2>2 DEF Walks
<1>4. next[a] = Body(visit, a) /\ \A b \in Stock : b # a => next[b] = visit[b]
  BY DEF Walks
<1>5. ASSUME NEW b \in Stock \ (rest \ {a})
      PROVE  record[b].parents \intersect rest = {} /\ a \notin record[b].parents
  BY <1>1, <1>5 DEF CanLeave
<1>6. ASSUME NEW b \in Stock \ (rest \ {a}) PROVE next[b] = Body(next, b)
  <2>1. \A p \in record[b].parents : p \in Stock /\ p # a
    BY <1>5, ParentsAreStock
  <2>2. \A p \in record[b].parents : visit[p] = next[p]
    BY <1>4, <2>1
  <2>3. Body(visit, b) = Body(next, b)
    <3>1. Walk(visit, record[b].parents)
      BY <2>1 DEF Walk, Walks
    <3> HIDE DEF next
    <3> QED
      BY <2>2, <3>1, BodySame
  <2>4. next[b] = Body(visit, b)
    BY <1>2, <1>4 DEF WalksAllBut
  <2> QED
    BY <2>3, <2>4
<1>7. WalksAllBut(next, rest \ {a})
  <2> HIDE DEF next
  <2> QED
    BY <1>6 DEF WalksAllBut
<1>8. CanLeave(rest \ {a})
  <2> HIDE DEF next
  <2> QED
    BY <1>3, <1>5, <1>7 DEF CanLeave
<1> QED
  BY <1>8

\* One after the other, none is left.
LEMMA WalkExists ==
  ASSUME Stocked
  PROVE  \E visit \in Walks : \A a \in Stock : visit[a] = Body(visit, a)
<1> DEFINE Good == {rest \in SUBSET Stock : CanLeave(rest) => CanLeave({})}
<1>1. ASSUME NEW rest \in SUBSET Stock, \A t \in SUBSET rest : t # rest => t \in Good
      PROVE  rest \in Good
  <2> SUFFICES ASSUME CanLeave(rest) PROVE CanLeave({})
    OBVIOUS
  <2>1. CASE rest = {}
    BY <2>1
  <2>2. CASE rest # {}
    <3>1. PICK a \in rest : CanLeave(rest \ {a})
      BY <2>2, OneMore
    <3>2. rest \ {a} \in Good
      BY <1>1
    <3> QED
      BY <3>1, <3>2
  <2> QED
    BY <2>1, <2>2
<1>2. Stock \in Good
  <2>1. IsFiniteSet(Stock)
    BY DEF Stocked
  <2> HIDE DEF Good
  <2>2. \A rest \in SUBSET Stock : rest \in Good
    BY <1>1, <2>1, SetInduction
  <2> QED
    BY <2>2
<1>3. CanLeave(Stock)
  <2> DEFINE idle == [a \in Stock |-> [ordered \in Lists |-> ordered]]
  <2>1. idle \in Walks
    BY DEF Walks
  <2> HIDE DEF idle
  <2> QED
    BY <2>1 DEF CanLeave, WalksAllBut
<1>4. CanLeave({})
  BY <1>2, <1>3
<1> QED
  BY <1>4 DEF CanLeave, WalksAllBut

\* Visit is that walk: one that solved the equation otherwise would differ at an
\* artifact whose parents it visits alike.
LEMMA VisitIs ==
  ASSUME Stocked
  PROVE  Visit \in Walks /\ \A a \in Stock : Visit[a] = Body(Visit, a)
<1> DEFINE Eqn(visit) == visit = [a \in Stock |-> Body(visit, a)]
<1>1. Visit = CHOOSE visit : Eqn(visit)
  BY DEF Visit, Body, Lists, ParentsOf
<1>2. PICK visit \in Walks : \A a \in Stock : visit[a] = Body(visit, a)
  BY WalkExists
<1>3. Eqn(visit)
  BY <1>2 DEF Walks
<1>4. Eqn(Visit)
  <2> HIDE DEF Eqn
  <2> QED
    BY <1>1, <1>3
<1>5. \A a \in Stock : Visit[a] = Body(Visit, a)
  BY <1>4
<1>6. Visit = [a \in Stock |-> Visit[a]]
  BY <1>4
<1> DEFINE apart == {a \in Stock : Visit[a] # visit[a]}
<1>7. CASE apart # {}
  <2>1. PICK a \in apart : record[a].parents \intersect apart = {}
    BY <1>7 DEF Stocked, LineageAcyclic, Stock
  <2>2. record[a].parents \subseteq Stock
    BY ParentsAreStock
  <2>3. \A p \in record[a].parents : visit[p] = Visit[p]
    BY <2>1, <2>2
  <2>4. Walk(visit, record[a].parents)
    BY <2>2 DEF Walk, Walks
  <2>5. Body(visit, a) = Body(Visit, a)
    BY <2>3, <2>4, BodySame
  <2> QED
    BY <1>2, <1>5, <2>1, <2>5
<1>8. CASE apart = {}
  <2>1. Visit = visit
    BY <1>6, <1>8 DEF Walks
  <2> QED
    BY <1>5, <2>1
<1> QED
  BY <1>7, <1>8

-----------------------------------------------------------------------------
(* Ancestors *)

Closed(S) == \A c \in S : Stored(c) => record[c].parents \subseteq S

\* Ancestry is the smallest closed set around a.
LEMMA AncestryWithin ==
  ASSUME NEW a \in Artifacts, NEW S \in SUBSET Artifacts, a \in S, Closed(S)
  PROVE  Ancestry(a) \subseteq S
BY DEF Ancestry, Closed

LEMMA AncestryIsClosed ==
  ASSUME Stocked, NEW a \in Stock
  PROVE  a \in Ancestry(a) /\ Closed(Ancestry(a))
<1>1. a \in Artifacts
  BY DEF Stock
<1>2. ASSUME NEW c \in Ancestry(a), Stored(c), NEW p \in record[c].parents
      PROVE  p \in Ancestry(a)
  <2>1. c \in Stock
    BY <1>2 DEF Ancestry, Stock
  <2>2. p \in Artifacts
    BY <2>1, ParentsAreStock DEF Stock
  <2> QED
    BY <1>2, <2>2 DEF Ancestry
<1> QED
  BY <1>1, <1>2 DEF Ancestry, Closed

\* An artifact's ancestors are itself and those of its parents.
LEMMA AncestryIs ==
  ASSUME Stocked, NEW a \in Stock
  PROVE  Ancestry(a) = {a} \union UNION {Ancestry(p) : p \in record[a].parents}
<1> DEFINE all == {a} \union UNION {Ancestry(p) : p \in record[a].parents}
<1>1. record[a].parents \subseteq Stock
  BY ParentsAreStock
<1>2. Ancestry(a) \subseteq all
  <2>1. all \in SUBSET Artifacts
    BY DEF Stock, Ancestry
  <2>2. Closed(all)
    <3> SUFFICES ASSUME NEW c \in all, Stored(c), NEW q \in record[c].parents PROVE q \in all
      BY DEF Closed
    <3>1. CASE c = a
      BY <1>1, <3>1, AncestryIsClosed
    <3>2. ASSUME NEW p \in record[a].parents, c \in Ancestry(p) PROVE q \in all
      <4>1. Closed(Ancestry(p))
        BY <1>1, AncestryIsClosed
      <4> QED
        BY <3>2, <4>1 DEF Closed
    <3> QED
      BY <3>1, <3>2
  <2> HIDE DEF all
  <2>3. a \in all
    BY DEF all
  <2> QED
    BY <2>1, <2>2, <2>3, AncestryWithin DEF Stock
<1>3. ASSUME NEW p \in record[a].parents PROVE Ancestry(p) \subseteq Ancestry(a)
  <2>1. p \in Ancestry(a) /\ Closed(Ancestry(a))
    BY AncestryIsClosed DEF Closed, Stock
  <2>2. Ancestry(a) \in SUBSET Artifacts
    BY DEF Ancestry
  <2> QED
    BY <2>1, <2>2, AncestryWithin
<1>4. a \in Ancestry(a)
  BY AncestryIsClosed
<1> QED
  BY <1>2, <1>3, <1>4

\* Nothing is built from itself.
LEMMA NotOwnAncestor ==
  ASSUME Stocked, NEW a \in Stock, NEW p \in record[a].parents
  PROVE  a \notin Ancestry(p)
<1> SUFFICES ASSUME a \in Ancestry(p) PROVE FALSE
  OBVIOUS
<1> DEFINE heirs == {c \in Stock : a \in Ancestry(c)}
<1>1. p \in heirs
  BY ParentsAreStock
<1>2. PICK c \in heirs : record[c].parents \intersect heirs = {}
  BY <1>1 DEF Stocked, LineageAcyclic, Stock
<1>3. record[c].parents \subseteq Stock
  BY ParentsAreStock
<1>4. CASE c = a
  BY <1>1, <1>2, <1>4
<1>5. CASE c # a
  <2>1. PICK q \in record[c].parents : a \in Ancestry(q)
    BY <1>5, AncestryIs
  <2> QED
    BY <1>2, <1>3, <2>1
<1> QED
  BY <1>4, <1>5

-----------------------------------------------------------------------------
(* The order of the list *)

\* No artifact is listed twice, and each after its parents.
Topological(order) ==
  /\ IsInjective(order)
  /\ \A i \in DOMAIN order : \A p \in record[order[i]].parents :
       \E j \in 1..(i - 1) : order[j] = p

\* What is in the list has its ancestors there.
LEMMA TopologicalIsClosed ==
  ASSUME Stocked, NEW order \in Lists, Topological(order), NEW a \in ToSet(order)
  PROVE  Ancestry(a) \subseteq ToSet(order)
<1>1. ToSet(order) \subseteq Artifacts /\ Len(order) \in Nat /\ DOMAIN order = 1..Len(order)
  BY DEF Lists, ToSet, Stock
<1>2. Closed(ToSet(order))
  <2> SUFFICES ASSUME NEW c \in ToSet(order), NEW p \in record[c].parents
               PROVE  p \in ToSet(order)
    BY DEF Closed
  <2>1. PICK i \in 1..Len(order) : order[i] = c
    BY <1>1 DEF ToSet
  <2>2. PICK j \in 1..(i - 1) : order[j] = p
    BY <1>1, <2>1 DEF Topological
  <2>3. j \in 1..Len(order)
    BY <1>1
  <2> QED
    BY <1>1, <2>2, <2>3 DEF ToSet
<1> QED
  BY <1>1, <1>2, AncestryWithin

\* An artifact may follow its parents.
LEMMA AppendIsTopological ==
  ASSUME Stocked, NEW order \in Lists, Topological(order),
         NEW a \in Stock, a \notin ToSet(order), record[a].parents \subseteq ToSet(order)
  PROVE  /\ Topological(Append(order, a))
         /\ ToSet(Append(order, a)) = ToSet(order) \union {a}
<1> DEFINE n == Len(order)
           more == Append(order, a)
<1>1. n \in Nat /\ DOMAIN order = 1..n /\ DOMAIN more = 1..(n + 1)
  BY DEF Lists
<1>2. more[n + 1] = a /\ \A i \in 1..n : more[i] = order[i]
  BY DEF Lists
<1>3. \A i \in 1..n : order[i] \in ToSet(order)
  BY <1>1 DEF ToSet
<1> HIDE DEF n, more
<1>4. ToSet(more) = ToSet(order) \union {a}
  <2>1. ToSet(order) = {order[i] : i \in 1..n} /\ ToSet(more) = {more[i] : i \in 1..(n + 1)}
    BY <1>1 DEF ToSet
  <2>2. 1..(n + 1) = (1..n) \union {n + 1}
    BY <1>1
  <2> QED
    BY <1>2, <2>1, <2>2
<1>5. IsInjective(more)
  <2> SUFFICES ASSUME NEW i \in 1..(n + 1), NEW j \in 1..(n + 1), more[i] = more[j]
               PROVE  i = j
    BY <1>1 DEF IsInjective
  <2>1. CASE i \in 1..n /\ j \in 1..n
    BY <1>1, <1>2, <2>1 DEF Topological, IsInjective
  <2>2. CASE i = n + 1 /\ j = n + 1
    BY <2>2
  <2>3. CASE i \in 1..n /\ j = n + 1
    BY <1>2, <1>3, <2>3
  <2>4. CASE i = n + 1 /\ j \in 1..n
    BY <1>2, <1>3, <2>4
  <2>5. (i \in 1..n \/ i = n + 1) /\ (j \in 1..n \/ j = n + 1)
    BY <1>1
  <2> QED
    BY <2>1, <2>2, <2>3, <2>4, <2>5
<1>6. ASSUME NEW i \in 1..(n + 1), NEW p \in record[more[i]].parents
      PROVE  \E j \in 1..(i - 1) : more[j] = p
  <2>1. CASE i \in 1..n
    <3>1. PICK j \in 1..(i - 1) : order[j] = p
      BY <1>1, <1>2, <1>6, <2>1 DEF Topological
    <3>2. j \in 1..n
      BY <1>1, <2>1
    <3> QED
      BY <1>2, <3>1, <3>2
  <2>2. CASE i = n + 1
    <3>1. PICK j \in 1..n : order[j] = p
      BY <1>1, <1>2, <1>6, <2>2 DEF ToSet
    <3>2. j \in 1..(i - 1)
      BY <1>1, <2>2
    <3> QED
      BY <1>2, <3>1, <3>2
  <2> QED
    BY <1>1, <2>1, <2>2
<1>7. Topological(more)
  BY <1>1, <1>5, <1>6 DEF Topological
<1> QED
  BY <1>4, <1>7 DEF more

\* A visit to a keeps the order of a list and adds the ancestors of a.
Adds(a) ==
  \A ordered \in Lists : Topological(ordered) =>
    /\ Topological(Visit[a][ordered])
    /\ ToSet(Visit[a][ordered]) = ToSet(ordered) \union Ancestry(a)

\* The loop over the parents keeps the order and adds the ancestors of them all.
LEMMA LoopAdds ==
  ASSUME Stocked, NEW ordered \in Lists, Topological(ordered), NEW parents \in Lists,
         \A p \in ToSet(parents) : Adds(p)
  PROVE  LET list == After(Visit, ordered, parents)
         IN  /\ list \in Lists /\ Topological(list)
             /\ ToSet(list) = ToSet(ordered) \union UNION {Ancestry(p) : p \in ToSet(parents)}
<1> DEFINE n == Len(parents)
<1>1. /\ n \in Nat /\ DOMAIN parents = 1..n
      /\ \A i \in 1..n : parents[i] \in Stock /\ parents[i] \in ToSet(parents)
  BY DEF Lists, ToSet
<1>2. Walk(Visit, ToSet(parents))
  BY <1>1, VisitIs DEF Walk, Walks, ToSet
<1>3. PICK f : Passes(f, Visit, ordered, parents) /\ After(Visit, ordered, parents) = f[n]
  BY <1>2, AfterPasses
<1> DEFINE Seen(i) == UNION {Ancestry(parents[j]) : j \in 1..i}
           Good == {i \in 0..n : Topological(f[i]) /\ ToSet(f[i]) = ToSet(ordered) \union Seen(i)}
<1>4. f[0] = ordered /\ \A i \in 0..n : f[i] \in Lists
  BY <1>1, <1>3 DEF Passes
<1>5. 0 \in Good
  BY <1>1, <1>4
<1>6. ASSUME NEW k \in 1..n, k - 1 \in Good PROVE k \in Good
  <2>1. f[k] = Visit[parents[k]][f[k - 1]] /\ f[k - 1] \in Lists
    BY <1>1, <1>3, <1>4 DEF Passes
  <2>2. Topological(f[k - 1]) /\ ToSet(f[k - 1]) = ToSet(ordered) \union Seen(k - 1)
    BY <1>6
  <2>3. Adds(parents[k])
    BY <1>1
  <2>4. Topological(f[k]) /\ ToSet(f[k]) = ToSet(f[k - 1]) \union Ancestry(parents[k])
    BY <2>1, <2>2, <2>3 DEF Adds
  <2>5. Seen(k) = Seen(k - 1) \union Ancestry(parents[k])
    <3>1. 1..k = (1..(k - 1)) \union {k}
      BY <1>1
    <3> QED
      BY <3>1
  <2>6. k \in 0..n
    BY <1>1
  <2> HIDE DEF Seen
  <2> QED
    BY <2>2, <2>4, <2>5, <2>6
<1>7. n \in Good
  <2> HIDE DEF Good, n
  <2>1. \A k \in 0..n : k \in Good
    BY <1>1, <1>5, <1>6, UpTo
  <2> QED
    BY <1>1, <2>1
<1>8. Seen(n) = UNION {Ancestry(p) : p \in ToSet(parents)}
  BY <1>1 DEF ToSet
<1>9. f[n] \in Lists
  BY <1>1, <1>4
<1> QED
  BY <1>3, <1>7, <1>8, <1>9

\* The parents are visited, then the artifact is listed.
LEMMA VisitAdds ==
  ASSUME Stocked, NEW a \in Stock, \A p \in record[a].parents : Adds(p)
  PROVE  Adds(a)
<1> SUFFICES ASSUME NEW ordered \in Lists, Topological(ordered)
             PROVE  /\ Topological(Visit[a][ordered])
                    /\ ToSet(Visit[a][ordered]) = ToSet(ordered) \union Ancestry(a)
  BY DEF Adds
<1>1. Visit[a] = Body(Visit, a)
  BY VisitIs
<1>2. CASE a \in ToSet(ordered)
  <2>1. Visit[a][ordered] = ordered
    BY <1>1, <1>2 DEF Body, Visited
  <2> QED
    BY <1>2, <2>1, TopologicalIsClosed
<1>3. CASE a \notin ToSet(ordered)
  <2> DEFINE list == After(Visit, ordered, ParentsOf(a))
             others == UNION {Ancestry(p) : p \in record[a].parents}
  <2>1. Visit[a][ordered] = Append(list, a)
    BY <1>1, <1>3 DEF Body, Visited
  <2>2. ParentsOf(a) \in Lists /\ ToSet(ParentsOf(a)) = record[a].parents
    BY ParentsAreStock
  <2>3. list \in Lists /\ Topological(list) /\ ToSet(list) = ToSet(ordered) \union others
    BY <2>2, LoopAdds
  <2>4. a \notin others
    BY NotOwnAncestor
  <2>5. record[a].parents \subseteq others
    BY ParentsAreStock, AncestryIsClosed
  <2>6. Ancestry(a) = {a} \union others
    BY AncestryIs
  <2> HIDE DEF list, others
  <2>7. Topological(Append(list, a)) /\ ToSet(Append(list, a)) = ToSet(list) \union {a}
    BY <1>3, <2>3, <2>4, <2>5, AppendIsTopological
  <2> QED
    BY <2>1, <2>3, <2>6, <2>7
<1> QED
  BY <1>2, <1>3

\* From artifacts to those built from them.
LEMMA EveryVisitAdds ==
  ASSUME Stocked
  PROVE  \A a \in Stock : Adds(a)
<1> DEFINE bad == {a \in Stock : ~ Adds(a)}
<1>1. CASE bad # {}
  <2>1. PICK a \in bad : record[a].parents \intersect bad = {}
    BY <1>1 DEF Stocked, LineageAcyclic, Stock
  <2>2. \A p \in record[a].parents : Adds(p)
    BY <2>1, ParentsAreStock
  <2> QED
    BY <2>1, <2>2, VisitAdds
<1> QED
  BY <1>1

\* A lineage is the visit that begins with nothing listed.
LEMMA StockedIsTopological ==
  ASSUME Stocked
  PROVE  LineageIsTopological
<1> SUFFICES ASSUME NEW a \in Artifacts, Stored(a)
             PROVE  ToSet(Lineage(a)) = Ancestry(a) /\ Topological(Lineage(a))
  BY DEF LineageIsTopological, Topological
<1>1. <<>> \in Lists /\ ToSet(<<>>) = {} /\ Topological(<<>>)
  BY DEF Lists, ToSet, Topological, IsInjective
<1>2. Adds(a)
  BY EveryVisitAdds DEF Stock
<1> QED
  BY <1>1, <1>2 DEF Adds, Lineage

-----------------------------------------------------------------------------
\* Nothing is stored at first.
LEMMA InitFinite == Init => IsFiniteSet(Stock)
<1> SUFFICES ASSUME Init PROVE IsFiniteSet(Stock)
  OBVIOUS
<1>1. Stock = {}
  BY DEF Init, Stock, Stored
<1> QED
  BY <1>1, FS_EmptySet

\* A write stores one artifact.
LEMMA FiniteStep ==
  ASSUME TypeOK, IsFiniteSet(Stock), [Next]_vars
  PROVE  IsFiniteSet(Stock)'
<1>1. CASE UNCHANGED vars
  BY <1>1 DEF vars, Stock, Stored
<1>2. ASSUME NEW a \in Artifacts, Stock' \subseteq Stock \union {a} PROVE IsFiniteSet(Stock)'
  <2>1. IsFiniteSet(Stock \union {a})
    BY FS_AddElement
  <2> QED
    BY <1>2, <2>1, FS_Subset
<1>3. ASSUME NEW a \in Artifacts, NEW s \in Slots, NEW version \in Versions,
             NEW parents \in SUBSET Artifacts, NEW expected \in 0..MaxVersion,
             Write(a, s, version, parents, expected)
      PROVE  Stock' \subseteq Stock \union {a}
  BY <1>3 DEF Write, TypeOK, Stock, Stored
<1> QED
  BY <1>1, <1>2, <1>3 DEF Next

\* lineage ends, and lists an artifact and its ancestors, each once and after all
\* its parents, whatever was written in whatever order.
THEOREM LineageIsTopologicalHolds == Spec => []LineageIsTopological
<1> DEFINE StockInv == IInv /\ IsFiniteSet(Stock)
<1>1. Init => StockInv
  BY InitIInv, InitFinite
<1>2. StockInv /\ [Next]_vars => StockInv'
  BY TypeStep, VersionsStep, LineageStep, FiniteStep DEF IInv
<1>3. StockInv => LineageIsTopological
  BY StockedIsTopological DEF IInv, Stocked
<1> QED
  BY <1>1, <1>2, <1>3, PTL DEF Spec

-----------------------------------------------------------------------------
(* Calls of the workflow *)

USE CallsAssumption, RepairAssumption

\* What a task that is done has left on the Blackboard.
Delivered(c, t) ==
  /\ Stored(OutputId(c, t))
  /\ Get(SlotOf(RunOfCall[c], t), 1) = OutputId(c, t)
  /\ record[OutputId(c, t)].parents = {OutputId(c, d) : d \in Inputs[t]}

\* A task works or is done only after its inputs are; a call returns after its
\* critic.
CallIInv ==
  /\ \A c \in Calls, t \in Tasks : progress[c][t] = "done" => Delivered(c, t)
  /\ \A c \in Calls, t \in Tasks :
       progress[c][t] \in {"working", "done", "failed"} =>
         \A d \in Inputs[t] : progress[c][d] = "done"
  /\ \A c \in Calls : result[c] = "returned" => progress[c]["critic"] = "done"

TripIInv == IInv /\ CallTypeOK /\ RepairTypeOK /\ CallIInv

-----------------------------------------------------------------------------
\* Every nonempty set of tasks has a first one.
LEMMA FirstTask ==
  ASSUME NEW S \in SUBSET RepairTasks, S # {}
  PROVE  \E t \in S : \A u \in S : TaskOrder[t] <= TaskOrder[u]
<1>1. CASE "destination" \in S
  BY <1>1 DEF RepairTasks, TaskOrder
<1>2. CASE "destination" \notin S /\ "mobility" \in S
  BY <1>2 DEF RepairTasks, TaskOrder
<1>3. CASE "destination" \notin S /\ "mobility" \notin S /\ "routes" \in S
  BY <1>3 DEF RepairTasks, TaskOrder
<1>4. CASE /\ "destination" \notin S /\ "mobility" \notin S /\ "routes" \notin S
           /\ "planning" \in S
  BY <1>4 DEF RepairTasks, TaskOrder
<1>5. CASE S = {"critic"}
  BY <1>5 DEF RepairTasks, TaskOrder
<1> QED
  BY <1>1, <1>2, <1>3, <1>4, <1>5 DEF RepairTasks

LEMMA CurrentType ==
  ASSUME RepairTypeOK, NEW x \in Sessions, Executing(x)
  PROVE  Current(x) \in todo[x] /\ Current(x) \in RepairTasks
<1>1. todo[x] \in SUBSET RepairTasks /\ todo[x] # {}
  BY DEF RepairTypeOK
<1> QED
  BY <1>1, FirstTask DEF Current

\* A lookup of the latest version finds an artifact where there is one.
LEMMA LatestStored ==
  ASSUME TypeOK, VersionsAgree, NEW s \in Slots, head[s] > 0
  PROVE  Latest(s) \in Artifacts /\ Stored(Latest(s))
<1>1. head[s] \in Versions
  BY DEF TypeOK, Versions
<1>2. Get(s, head[s]) # NoArtifact
  BY <1>1 DEF VersionsAgree, TypeOK
<1>3. Get(s, head[s]) \in Artifacts
  BY <1>1, <1>2 DEF TypeOK, Get
<1> QED
  BY <1>1, <1>2, <1>3 DEF VersionsAgree, Latest, TypeOK

\* The fixpoint of a set of tasks is a set of tasks that holds it.
LEMMA ClosureType ==
  ASSUME NEW S \in SUBSET RepairTasks
  PROVE  Closure(S) \in SUBSET RepairTasks /\ S \subseteq Closure(S)
BY DEF Closure, Grow

-----------------------------------------------------------------------------
\* What a call publishes is a write of the Blackboard.
LEMMA PublishWrites ==
  ASSUME NEW c \in Calls, NEW t \in Tasks, Accepts(c, t)
  PROVE  Next
<1>1. OutputId(c, t) \in Artifacts /\ SlotOf(RunOfCall[c], t) \in Slots
  OBVIOUS
<1>2. {OutputId(c, d) : d \in Inputs[t]} \in SUBSET Artifacts
  BY DEF Inputs, Tasks, Research
<1>3. 1 \in Versions /\ 0 \in 0..MaxVersion
  BY DEF Versions
<1> QED
  BY <1>1, <1>2, <1>3 DEF Accepts, Next

\* So is what a session publishes.
LEMMA RepairWrites ==
  ASSUME RepairTypeOK, NEW x \in Sessions, WriteVersion(x)
  PROVE  Next
<1>1. Current(x) \in RepairTasks
  BY CurrentType DEF Executing, WriteVersion
<1>2. rounds[x] + 1 \in 1..MaxRounds
  BY DEF RepairTypeOK, Executing, WriteVersion
<1>3. RepairId(x, rounds[x] + 1, Current(x)) \in Artifacts /\ RepairSlot(Current(x)) \in Slots
  BY <1>1, <1>2
<1>4. context[x].upstream \in SUBSET Artifacts /\ context[x].expected \in 0..MaxVersion
  BY DEF RepairTypeOK
<1> QED
  BY <1>3, <1>4 DEF WriteVersion, Next

\* Every step is one of the Blackboard or leaves it alone.
LEMMA StepOfBlackboard == RepairTypeOK /\ [TripNext]_tripVars => [Next]_vars
<1> SUFFICES ASSUME RepairTypeOK, TripNext PROVE [Next]_vars
  BY DEF tripVars
<1>1. ASSUME NEW c \in Calls, NEW t \in Tasks, TaskEnds(c, t) PROVE [Next]_vars
  BY <1>1, PublishWrites DEF TaskEnds, Publish, ServiceFails, PublishRefused, Fail
<1>2. ASSUME NEW c \in Calls, BeginCall(c) PROVE [Next]_vars
  BY <1>2 DEF BeginCall
<1>3. ASSUME NEW x \in Sessions, PlanStep(x) PROVE [Next]_vars
  BY <1>3 DEF PlanStep, Plan, PlanWaits, PlanRefused, Passed, ResumeAfterClarification,
              Ready, Move
<1>4. ASSUME NEW x \in Sessions, ExecuteStep(x) PROVE [Next]_vars
  BY <1>4, RepairWrites DEF ExecuteStep, CallHandler, HandlerReturns, RepairFails,
                            WriteRefused, Move
<1> QED
  BY <1>1, <1>2, <1>3, <1>4 DEF TripNext, CallStep, RepairStep

-----------------------------------------------------------------------------
LEMMA TripInitIInv == TripInit => TripIInv
<1> SUFFICES ASSUME TripInit PROVE TripIInv
  OBVIOUS
<1>1. IInv
  BY InitIInv DEF TripInit
<1>2. CallTypeOK
  BY DEF TripInit, CallInit, CallTypeOK
<1>3. RepairTypeOK
  BY DEF TripInit, RepairInit, RepairTypeOK, NoContext, Executing
<1>4. CallIInv
  BY DEF TripInit, CallInit, CallIInv, Tasks
<1> QED
  BY <1>1, <1>2, <1>3, <1>4 DEF TripIInv

LEMMA CallTypeStep == CallTypeOK /\ [TripNext]_tripVars => CallTypeOK'
<1> SUFFICES ASSUME CallTypeOK, [TripNext]_tripVars PROVE CallTypeOK'
  OBVIOUS
<1> USE DEF CallTypeOK
<1>1. ASSUME NEW c \in Calls, BeginCall(c) PROVE CallTypeOK'
  BY <1>1 DEF BeginCall
<1>2. ASSUME NEW c \in Calls, NEW t \in Tasks, Publish(c, t) PROVE CallTypeOK'
  <2>1. Advance(c, t) \in [Tasks -> {"waiting", "working", "done", "failed"}]
    BY DEF Advance
  <2> QED
    BY <1>2, <2>1 DEF Publish
<1>3. ASSUME NEW c \in Calls, NEW t \in Tasks, Fail(c, t) PROVE CallTypeOK'
  BY <1>3 DEF Fail
<1>4. CASE UNCHANGED callVars
  BY <1>4 DEF callVars
<1> QED
  BY <1>1, <1>2, <1>3, <1>4
     DEF TripNext, CallStep, TaskEnds, ServiceFails, PublishRefused, tripVars

\* A plan is a nonempty set of tasks, for a round that is allowed.
LEMMA ReadyType ==
  ASSUME TypeOK, RepairTypeOK, NEW x \in Sessions, NEW S \in SUBSET AgentTasks, S # {},
         MayRevise(x), Ready(x, S)
  PROVE  RepairTypeOK'
<1>1. S \in SUBSET RepairTasks
  BY DEF AgentTasks, RepairTasks
<1>2. Closure(S) \in SUBSET RepairTasks /\ Closure(S) # {}
  BY <1>1, ClosureType
<1>3. Versions0 \in [RepairTasks -> 0..MaxVersion]
  BY DEF Versions0, TypeOK
<1> QED
  BY <1>2, <1>3 DEF RepairTypeOK, Ready, MayRevise, Executing

LEMMA PlanTypeStep ==
  ASSUME TypeOK, RepairTypeOK, NEW x \in Sessions, PlanStep(x)
  PROVE  RepairTypeOK'
<1>1. ASSUME NEW targets \in Reviews, Plan(x, targets) PROVE RepairTypeOK'
  <2>1. targets \in SUBSET AgentTasks /\ targets # {}
    BY <1>1 DEF Plan, Targets
  <2> QED
    BY <1>1, <2>1, ReadyType DEF Plan
<1>2. ASSUME ResumeAfterClarification(x) PROVE RepairTypeOK'
  <2>1. PICK S \in {{"mobility"}, {"destination"}, {"destination", "mobility"}} : Ready(x, S)
    BY <1>2 DEF ResumeAfterClarification
  <2>2. S \in SUBSET AgentTasks /\ S # {}
    BY DEF AgentTasks
  <2> QED
    BY <1>2, <2>1, <2>2, ReadyType DEF ResumeAfterClarification
<1>3. ASSUME NEW p \in {"waiting_user", "limit", "passed"}, Move(x, p) PROVE RepairTypeOK'
  BY <1>3 DEF Move, RepairTypeOK, Executing
<1> QED
  BY <1>1, <1>2, <1>3 DEF PlanStep, PlanWaits, PlanRefused, Passed

LEMMA ExecuteTypeStep ==
  ASSUME TypeOK, VersionsAgree, RepairTypeOK, NEW x \in Sessions, ExecuteStep(x)
  PROVE  RepairTypeOK'
<1> DEFINE t == Current(x)
<1>1. ASSUME Executing(x)
      PROVE  /\ t \in todo[x] /\ t \in RepairTasks
             /\ rounds[x] \in 0..MaxRounds /\ rounds[x] < MaxRounds
  BY <1>1, CurrentType DEF RepairTypeOK
<1>2. ASSUME CallHandler(x) PROVE RepairTypeOK'
  <2>1. t \in RepairTasks /\ rounds[x] + 1 \in 1..MaxRounds
    BY <1>1, <1>2 DEF CallHandler, Executing
  <2>2. ASSUME NEW d \in TaskDeps[t] PROVE Upstream(x, d) \in Artifacts
    <3>1. d \in RepairTasks
      BY <2>1 DEF TaskDeps, RepairTasks
    <3>2. CASE d \in mine[x]
      BY <2>1, <3>1, <3>2 DEF Upstream
    <3>3. CASE d \notin mine[x]
      BY <1>2, <3>1, <3>3, LatestStored DEF CallHandler, Available, Upstream
    <3> QED
      BY <3>2, <3>3
  <2>3. {Upstream(x, d) : d \in TaskDeps[t]} \in SUBSET Artifacts
    BY <2>2
  <2>4. Versions0 \in [RepairTasks -> 0..MaxVersion]
    BY DEF Versions0, TypeOK
  <2>5. context' \in [Sessions -> [expected : 0..MaxVersion, upstream : SUBSET Artifacts]]
    BY <1>2, <2>3 DEF CallHandler, RepairTypeOK
  <2>6. known' \in [Sessions -> [RepairTasks -> 0..MaxVersion]]
    BY <1>2, <2>4 DEF CallHandler, RepairTypeOK
  <2> HIDE DEF t
  <2> QED
    BY <1>2, <2>5, <2>6 DEF CallHandler, RepairTypeOK, Executing
<1>3. ASSUME HandlerReturns(x) PROVE RepairTypeOK'
  <2>1. head[RepairSlot(t)] \in 0..MaxVersion
    BY <1>1, <1>3 DEF HandlerReturns, Executing, TypeOK
  <2>2. context' \in [Sessions -> [expected : 0..MaxVersion, upstream : SUBSET Artifacts]]
    BY <1>3, <2>1 DEF HandlerReturns, RepairTypeOK
  <2> QED
    BY <1>3, <2>2 DEF HandlerReturns, RepairTypeOK, Executing
<1>4. ASSUME Move(x, "failed") PROVE RepairTypeOK'
  BY <1>4 DEF Move, RepairTypeOK, Executing
<1>5. ASSUME WriteVersion(x) PROVE RepairTypeOK'
  <2>1. t \in todo[x] /\ t \in RepairTasks /\ rounds[x] \in 0..MaxRounds /\ rounds[x] < MaxRounds
    BY <1>1, <1>5 DEF WriteVersion, Executing
  <2>2. /\ mine' \in [Sessions -> SUBSET RepairTasks]
        /\ todo' \in [Sessions -> SUBSET RepairTasks]
    BY <1>5, <2>1 DEF WriteVersion, RepairTypeOK
  <2>3. /\ rounds' \in [Sessions -> 0..MaxRounds]
        /\ context' \in [Sessions -> [expected : 0..MaxVersion, upstream : SUBSET Artifacts]]
    BY <1>5, <2>1 DEF WriteVersion, RepairTypeOK, NoContext
  <2>4. Executing(x)' => todo'[x] # {} /\ rounds'[x] < MaxRounds
    BY <1>5, <2>1 DEF WriteVersion, RepairTypeOK, Executing, LastTask
  <2>5. \A y \in Sessions : y # x => /\ Executing(y)' = Executing(y)
                                    /\ todo'[y] = todo[y] /\ rounds'[y] = rounds[y]
    BY <1>5 DEF WriteVersion, RepairTypeOK, Executing
  <2>6. place' \in [Sessions -> {"review", "waiting_user", "limit", "passed", "ready",
                                 "handling", "writing", "failed"}]
    BY <1>5 DEF WriteVersion, RepairTypeOK
  <2>7. UNCHANGED <<seeds, known>>
    BY <1>5 DEF WriteVersion
  <2> QED
    BY <2>2, <2>3, <2>4, <2>5, <2>6, <2>7 DEF RepairTypeOK
<1> QED
  BY <1>2, <1>3, <1>4, <1>5 DEF ExecuteStep, RepairFails, WriteRefused

LEMMA RepairTypeStep ==
  TypeOK /\ VersionsAgree /\ RepairTypeOK /\ [TripNext]_tripVars => RepairTypeOK'
<1> SUFFICES ASSUME TypeOK, VersionsAgree, RepairTypeOK, [TripNext]_tripVars
             PROVE  RepairTypeOK'
  OBVIOUS
<1>1. CASE UNCHANGED repairVars
  BY <1>1 DEF repairVars, RepairTypeOK, Executing
<1> QED
  BY <1>1, PlanTypeStep, ExecuteTypeStep DEF TripNext, RepairStep, tripVars

-----------------------------------------------------------------------------
\* What was delivered stays, whoever writes.
LEMMA DeliveredStays ==
  ASSUME IInv, [Next]_vars, NEW c \in Calls, NEW t \in Tasks, Delivered(c, t)
  PROVE  Delivered(c, t)'
<1>1. /\ OutputId(c, t) \in Artifacts /\ SlotOf(RunOfCall[c], t) \in Slots
      /\ 1 \in Versions
  BY DEF Versions
<1>2. Keeps \/ UNCHANGED vars
  BY KeepsStep
<1>3. CASE UNCHANGED vars
  BY <1>3 DEF vars, Delivered, Stored, Get
<1>4. CASE Keeps
  <2>1. record'[OutputId(c, t)] = record[OutputId(c, t)]
    BY <1>1, <1>4 DEF Keeps, Delivered
  <2>2. Get(SlotOf(RunOfCall[c], t), 1)' = Get(SlotOf(RunOfCall[c], t), 1)
    BY <1>1, <1>4 DEF Keeps, Delivered
  <2> QED
    BY <2>1, <2>2 DEF Delivered, Stored
<1> QED
  BY <1>2, <1>3, <1>4

\* A task that publishes has delivered.
LEMMA PublishDelivers ==
  ASSUME TypeOK, NEW c \in Calls, NEW t \in Tasks, Accepts(c, t)
  PROVE  Delivered(c, t)'
<1> DEFINE a == OutputId(c, t)
           s == SlotOf(RunOfCall[c], t)
           parents == {OutputId(c, d) : d \in Inputs[t]}
<1>1. a \in Artifacts /\ s \in Slots /\ 1 \in Versions /\ 0 \in 0..MaxVersion
  BY DEF Versions
<1>2. parents \in SUBSET Artifacts
  BY DEF Inputs, Tasks, Research
<1>3. Write(a, s, 1, parents, 0)
  BY DEF Accepts
<1> HIDE DEF a, s, parents
<1>4. Effect(a, s, 1, parents)
  BY <1>1, <1>2, <1>3, WriteEffect
<1>5. record'[a] = [slot |-> s, version |-> 1, parents |-> parents] /\ logical'[s][1] = a
  BY <1>4 DEF Effect
<1>6. [slot |-> s, version |-> 1, parents |-> parents] \in Records
  BY <1>1, <1>2 DEF Records
<1>7. record'[a] # NoRecord /\ record'[a].parents = parents
  BY <1>5, <1>6
<1>8. Stored(OutputId(c, t))'
  BY <1>7 DEF Stored, a
<1>9. Get(SlotOf(RunOfCall[c], t), 1)' = OutputId(c, t)
  BY <1>5 DEF Get, a, s
<1>10. record'[OutputId(c, t)].parents = {OutputId(c, d) : d \in Inputs[t]}
  BY <1>7 DEF a, parents
<1> QED
  BY <1>8, <1>9, <1>10 DEF Delivered

LEMMA CallIInvStep ==
  ASSUME IInv, CallTypeOK, CallIInv, [Next]_vars, [TripNext]_tripVars
  PROVE  CallIInv'
<1>1. \A c \in Calls, t \in Tasks : Delivered(c, t) => Delivered(c, t)'
  BY DeliveredStays
<1>2. CASE UNCHANGED callVars
  BY <1>1, <1>2 DEF CallIInv, callVars
<1>3. ASSUME NEW c \in Calls, BeginCall(c) PROVE CallIInv'
  <2>1. /\ \A b \in Calls : b # c => progress'[b] = progress[b] /\ result'[b] = result[b]
        /\ result'[c] = "running"
        /\ \A t \in Tasks : progress'[c][t] = IF t \in Research THEN "working" ELSE "waiting"
    BY <1>3 DEF BeginCall, CallTypeOK
  <2>2. \A t \in Research : Inputs[t] = {}
    BY DEF Inputs, Research
  <2> QED
    BY <1>1, <2>1, <2>2 DEF CallIInv
<1>4. ASSUME NEW c \in Calls, NEW t \in Tasks, Publish(c, t) PROVE CallIInv'
  <2>1. /\ \A b \in Calls : b # c => progress'[b] = progress[b] /\ result'[b] = result[b]
        /\ progress'[c] = Advance(c, t)
        /\ result'[c] = IF t = "critic" THEN "returned" ELSE result[c]
    BY <1>4 DEF Publish, CallTypeOK
  <2>2. Delivered(c, t)'
    BY <1>4, PublishDelivers DEF IInv, Publish
  <2>3. \A d \in Tasks : Inputs[d] \subseteq Tasks
    BY DEF Inputs, Tasks, Research
  <2>4. \A u \in Tasks : progress'[c][u] = "done" <=> progress[c][u] = "done" \/ u = t
    BY <2>1 DEF Advance
  <2>5. \A u \in Tasks : progress'[c][u] \in {"working", "done", "failed"} =>
          \A d \in Inputs[u] : progress'[c][d] = "done"
    BY <1>4, <2>1, <2>3, <2>4 DEF Advance, CallIInv, Publish
  <2>6. \A u \in Tasks : progress'[c][u] = "done" => Delivered(c, u)'
    BY <1>1, <2>2, <2>4 DEF CallIInv
  <2>7. result'[c] = "returned" => progress'[c]["critic"] = "done"
    BY <2>1, <2>4 DEF CallIInv, Tasks
  <2>8. \A b \in Calls, u \in Tasks : progress'[b][u] = "done" => Delivered(b, u)'
    BY <1>1, <2>1, <2>6 DEF CallIInv
  <2>9. \A b \in Calls, u \in Tasks :
          progress'[b][u] \in {"working", "done", "failed"} =>
            \A d \in Inputs[u] : progress'[b][d] = "done"
    BY <2>1, <2>5 DEF CallIInv
  <2>10. \A b \in Calls : result'[b] = "returned" => progress'[b]["critic"] = "done"
    BY <2>1, <2>7 DEF CallIInv
  <2> QED
    BY <2>8, <2>9, <2>10 DEF CallIInv
<1>5. ASSUME NEW c \in Calls, NEW t \in Tasks, progress[c][t] = "working", Fail(c, t)
      PROVE  CallIInv'
  <2>1. /\ \A b \in Calls : b # c => progress'[b] = progress[b] /\ result'[b] = result[b]
        /\ \A u \in Tasks : progress'[c][u] = IF u = t THEN "failed" ELSE progress[c][u]
        /\ result'[c] = "raised"
    BY <1>5 DEF Fail, CallTypeOK
  <2>2. \A u \in Tasks : Inputs[u] \subseteq Tasks
    BY DEF Inputs, Tasks, Research
  <2> QED
    BY <1>1, <1>5, <2>1, <2>2 DEF CallIInv
<1> QED
  BY <1>2, <1>3, <1>4, <1>5
     DEF TripNext, CallStep, TaskEnds, ServiceFails, PublishRefused, Fail, tripVars

-----------------------------------------------------------------------------
LEMMA TripStep == TripIInv /\ [TripNext]_tripVars => TripIInv' /\ [Next]_vars
<1> SUFFICES ASSUME TripIInv, [TripNext]_tripVars PROVE TripIInv' /\ [Next]_vars
  OBVIOUS
<1>1. [Next]_vars
  BY StepOfBlackboard DEF TripIInv
<1>2. IInv'
  BY <1>1, TypeStep, VersionsStep, LineageStep DEF TripIInv, IInv
<1>3. CallTypeOK' /\ RepairTypeOK'
  BY CallTypeStep, RepairTypeStep DEF TripIInv, IInv
<1>4. CallIInv'
  BY <1>1, CallIInvStep DEF TripIInv
<1> QED
  BY <1>1, <1>2, <1>3, <1>4 DEF TripIInv

\* The invariant holds of every state of calls and sessions.
THEOREM TripInvariance == TripSpec => []TripIInv
BY TripInitIInv, TripStep, PTL DEF TripSpec

\* Variables keep their types; with it every number and every reference that a
\* session carries from one step to a later one.
THEOREM TripTypeCorrect == TripSpec => []TripTypeOK
<1>1. TripIInv => TripTypeOK
  BY DEF TripIInv, IInv, TripTypeOK
<1> QED
  BY <1>1, TripInvariance, PTL

\* The artifacts of a call that returned are its own, whatever other calls and
\* repairs of the run do.
THEOREM ResultIsOneCallHolds == TripSpec => []ResultIsOneCall
<1>1. TripIInv => ResultIsOneCall
  <2> SUFFICES ASSUME TripIInv, NEW c \in Calls, result[c] = "returned", NEW t \in Tasks
               PROVE  Delivered(c, t)
    BY DEF ResultIsOneCall, Delivered
  <2>1. progress[c]["critic"] = "done" /\ "critic" \in Tasks
    BY DEF TripIInv, CallIInv, Tasks
  <2>2. t = "critic" \/ t \in Inputs["critic"]
    BY DEF Tasks, Inputs, Research
  <2>3. progress[c][t] = "done"
    BY <2>1, <2>2 DEF TripIInv, CallIInv
  <2> QED
    BY <2>3 DEF TripIInv, CallIInv
<1> QED
  BY <1>1, TripInvariance, PTL

\* The workflow writes only what the Blackboard lets any writer write, so every
\* theorem about the Blackboard is one about trips.
THEOREM RefinesBlackboard == TripSpec => Spec
<1>1. TripInit => Init
  BY DEF TripInit
<1> QED
  BY <1>1, TripInvariance, TripStep, PTL DEF TripSpec, Spec

\* No call and no session takes back or changes what another one published.
COROLLARY TripsPublishForGood == TripSpec => PublishedIsImmutable
BY RefinesBlackboard, PublishedIsImmutableHolds

\* Lineage can be asked for in the middle of any calls and repairs.
COROLLARY TripsHaveLineage == TripSpec => []LineageIsTopological
BY RefinesBlackboard, LineageIsTopologicalHolds

-----------------------------------------------------------------------------
(***************************************************************************)
(* Rounds of repair.  What a session has published in its round is told by *)
(* mine; every reader of mine relies on the order of the tasks.            *)
(***************************************************************************)

\* A session that has begun a round and not completed it.
Busy(x) == Executing(x) \/ place[x] = "failed"

\* The round that mine is about.
Round(x) == IF Busy(x) THEN rounds[x] + 1 ELSE rounds[x]

MineId(x, t) == RepairId(x, Round(x), t)

\* A session has published its rounds and the tasks of mine, each built from
\* those before it; what is left comes later in the order of the tasks.
RoundInv(x) ==
  /\ \A k \in 1..MaxRounds, t \in RepairTasks :
       Stored(RepairId(x, k, t)) => k < Round(x) \/ (k = Round(x) /\ t \in mine[x])
  /\ \A t \in mine[x] :
       /\ Stored(MineId(x, t))
       /\ \A d \in mine[x] : d \in TaskDeps[t] => MineId(x, d) \in record[MineId(x, t)].parents
  /\ Busy(x) =>
       /\ rounds[x] < MaxRounds
       /\ seeds[x] # {}
       /\ mine[x] \union todo[x] = Closure(seeds[x])
       /\ \A t \in mine[x], u \in todo[x] : TaskOrder[t] < TaskOrder[u]
  /\ ~ Busy(x) => mine[x] = IF rounds[x] = 0 THEN {} ELSE Closure(seeds[x])
  /\ place[x] \in {"handling", "writing"} =>
       \A d \in mine[x] : d \in TaskDeps[Current(x)] => MineId(x, d) \in context[x].upstream

RoundsInv == \A x \in Sessions : RoundInv(x)

\* The invalidated tasks are those that depend on a seed, directly or not.
LEMMA ClosureIsDownstream ==
  ASSUME NEW S \in SUBSET RepairTasks
  PROVE  Closure(S) = Downstream(S)
<1> DEFINE C == Closure(S)
<1>1. C \in SUBSET RepairTasks /\ S \subseteq C
  BY ClosureType
<1>2. ASSUME NEW U \in SUBSET RepairTasks, S \subseteq U,
             \A u \in RepairTasks : TaskDeps[u] \intersect U # {} => u \in U
      PROVE  C \subseteq U
  <2>1. ASSUME NEW V, V \subseteq U PROVE Grow(V) \subseteq U
    BY <1>2, <2>1 DEF Grow
  <2> QED
    BY <1>2, <2>1 DEF Closure
<1>3. ASSUME NEW u \in RepairTasks, TaskDeps[u] \intersect C # {} PROVE u \in C
  <2> DEFINE G == Grow(S)
             H == Grow(G)
  <2>1. C = Grow(H)
    BY DEF Closure
  <2>2. S \subseteq G /\ G \subseteq H /\ H \subseteq C
    BY <2>1 DEF Grow
  <2>3. TaskDeps["destination"] = {} /\ TaskDeps["mobility"] = {}
        /\ TaskDeps["routes"] = {"destination", "mobility"}
        /\ TaskDeps["planning"] = {"routes"} /\ TaskDeps["critic"] = {"planning"}
    BY DEF TaskDeps
  <2>4. /\ \A t \in RepairTasks : TaskDeps[t] \intersect S # {} => t \in G
        /\ \A t \in RepairTasks : TaskDeps[t] \intersect G # {} => t \in H
        /\ \A t \in RepairTasks : TaskDeps[t] \intersect H # {} => t \in C
        /\ \A t \in G : t \in S \/ TaskDeps[t] \intersect S # {}
        /\ \A t \in H : t \in G \/ TaskDeps[t] \intersect G # {}
        /\ \A t \in C : t \in H \/ TaskDeps[t] \intersect H # {}
    BY <2>1 DEF Grow
  <2> HIDE DEF C, G, H
  <2>5. \A d \in {"destination", "mobility"} : d \in C => d \in S
    BY <2>3, <2>4
  <2>6. "routes" \in C => "routes" \in G
    <3>1. TaskDeps["routes"] \intersect C # {} => TaskDeps["routes"] \intersect S # {}
      BY <2>3, <2>5
    <3>2. TaskDeps["routes"] \intersect C # {} => "routes" \in G
      BY <3>1, <2>4 DEF RepairTasks
    <3> QED
      BY <2>2, <2>4, <3>2
  <2>7. "planning" \in C => "planning" \in H
    <3>1. TaskDeps["planning"] \intersect C # {} => TaskDeps["planning"] \intersect G # {}
      BY <2>3, <2>6
    <3>2. TaskDeps["planning"] \intersect C # {} => "planning" \in H
      BY <3>1, <2>4 DEF RepairTasks
    <3> QED
      BY <2>2, <2>4, <3>2
  <2>8. u \in {"routes", "planning", "critic"}
    BY <1>3, <2>3 DEF RepairTasks
  <2>9. CASE u = "routes"
    BY <1>3, <2>2, <2>3, <2>4, <2>5, <2>9
  <2>10. CASE u = "planning"
    BY <1>3, <2>2, <2>3, <2>4, <2>6, <2>10
  <2>11. CASE u = "critic"
    BY <1>3, <2>3, <2>4, <2>7, <2>11
  <2> QED
    BY <2>8, <2>9, <2>10, <2>11
<1> HIDE DEF C
<1>4. C \subseteq Downstream(S)
  BY <1>1, <1>2 DEF Downstream
<1>5. Downstream(S) \subseteq C
  BY <1>1, <1>3 DEF Downstream
<1> QED
  BY <1>4, <1>5 DEF C

\* The tasks have an order, and the dependencies of a task come before it.
LEMMA Ordered ==
  /\ \A t \in RepairTasks : TaskOrder[t] \in Nat /\ TaskDeps[t] \subseteq RepairTasks
  /\ \A t, u \in RepairTasks : TaskOrder[t] = TaskOrder[u] => t = u
  /\ \A t, d \in RepairTasks : d \in TaskDeps[t] => TaskOrder[d] < TaskOrder[t]
  /\ \A t \in RepairTasks : TaskOrder[t] <= TaskOrder["critic"]
<1>1. /\ TaskOrder["destination"] = 1 /\ TaskOrder["mobility"] = 2 /\ TaskOrder["routes"] = 3
      /\ TaskOrder["planning"] = 4 /\ TaskOrder["critic"] = 5
  BY DEF TaskOrder
<1>2. /\ TaskDeps["destination"] = {} /\ TaskDeps["mobility"] = {}
      /\ TaskDeps["routes"] = {"destination", "mobility"}
      /\ TaskDeps["planning"] = {"routes"} /\ TaskDeps["critic"] = {"planning"}
  BY DEF TaskDeps
<1>3. \A t \in RepairTasks : TaskOrder[t] \in Nat /\ TaskDeps[t] \subseteq RepairTasks
  BY <1>1, <1>2 DEF RepairTasks
<1>4. \A t, u \in RepairTasks : TaskOrder[t] = TaskOrder[u] => t = u
  BY <1>1 DEF RepairTasks
<1>5. \A t, d \in RepairTasks : d \in TaskDeps[t] => TaskOrder[d] < TaskOrder[t]
  BY <1>1, <1>2 DEF RepairTasks
<1>6. \A t \in RepairTasks : TaskOrder[t] <= TaskOrder["critic"]
  BY <1>1 DEF RepairTasks
<1> QED
  BY <1>3, <1>4, <1>5, <1>6

\* Every plan ends with a review.
LEMMA CriticInvalidated ==
  ASSUME NEW S \in SUBSET RepairTasks, S # {}
  PROVE  "critic" \in Closure(S)
<1> SUFFICES ASSUME NEW U \in SUBSET RepairTasks, S \subseteq U,
                    \A u \in RepairTasks : TaskDeps[u] \intersect U # {} => u \in U
             PROVE  "critic" \in U
  BY ClosureIsDownstream DEF Downstream, RepairTasks
<1>1. /\ "planning" \in U => "critic" \in U
      /\ "routes" \in U => "planning" \in U
      /\ "destination" \in U \/ "mobility" \in U => "routes" \in U
  <2>1. /\ TaskDeps["routes"] = {"destination", "mobility"}
        /\ TaskDeps["planning"] = {"routes"} /\ TaskDeps["critic"] = {"planning"}
    BY DEF TaskDeps
  <2> QED
    BY <2>1 DEF RepairTasks
<1>2. PICK t \in S : t \in U /\ t \in RepairTasks
  OBVIOUS
<1> QED
  BY <1>1, <1>2 DEF RepairTasks

First(S) == CHOOSE t \in S : \A u \in S : TaskOrder[t] <= TaskOrder[u]

LEMMA CurrentIsFirst ==
  ASSUME RepairTypeOK, NEW x \in Sessions, Executing(x)
  PROVE  /\ Current(x) \in todo[x] /\ Current(x) \in RepairTasks
         /\ \A u \in todo[x] : u # Current(x) => TaskOrder[Current(x)] < TaskOrder[u]
<1>1. todo[x] \in SUBSET RepairTasks /\ todo[x] # {}
  BY DEF RepairTypeOK
<1>2. /\ Current(x) \in todo[x]
      /\ \A u \in todo[x] : TaskOrder[Current(x)] <= TaskOrder[u]
  BY <1>1, FirstTask DEF Current
<1>3. Current(x) \in RepairTasks
  BY <1>1, <1>2
<1>4. ASSUME NEW u \in todo[x], u # Current(x) PROVE TaskOrder[Current(x)] < TaskOrder[u]
  <2>1. u \in RepairTasks
    BY <1>1
  <2>2. TaskOrder[Current(x)] \in Nat /\ TaskOrder[u] \in Nat
        /\ TaskOrder[Current(x)] # TaskOrder[u]
    BY <1>3, <1>4, <2>1, Ordered
  <2>3. TaskOrder[Current(x)] <= TaskOrder[u]
    BY <1>2
  <2> QED
    BY <2>2, <2>3
<1> QED
  BY <1>2, <1>3, <1>4

\* Ids of repairs are one session's, round's and task's, and none is a call's.
LEMMA RepairIds ==
  /\ \A x, y \in Sessions : \A j, k, t, u :
       RepairId(x, j, t) = RepairId(y, k, u) => x = y /\ j = k /\ t = u
  /\ \A x \in Sessions : \A k, t, c, u : RepairId(x, k, t) # OutputId(c, u)
BY DEF RepairId, OutputId

\* The tasks of mine have ids.
LEMMA MineIdType ==
  ASSUME RepairTypeOK, NEW x \in Sessions, RoundInv(x)
  PROVE  /\ Round(x) \in 0..MaxRounds
         /\ mine[x] \in SUBSET RepairTasks
         /\ mine[x] # {} => Round(x) \in 1..MaxRounds
         /\ \A t \in mine[x] : MineId(x, t) \in Artifacts
<1>1. rounds[x] \in 0..MaxRounds /\ mine[x] \in SUBSET RepairTasks
  BY DEF RepairTypeOK
<1>2. Round(x) \in 0..MaxRounds
  BY <1>1 DEF Round, RoundInv
<1>3. mine[x] # {} => Round(x) \in 1..MaxRounds
  BY <1>1 DEF Round, RoundInv
<1>4. \A t \in mine[x] : MineId(x, t) \in Artifacts
  BY <1>1, <1>3 DEF MineId
<1> QED
  BY <1>1, <1>2, <1>3, <1>4

\* Nothing of the session changes.
SameSession(x) ==
  /\ place'[x] = place[x] /\ rounds'[x] = rounds[x] /\ seeds'[x] = seeds[x]
  /\ todo'[x] = todo[x] /\ mine'[x] = mine[x]
  /\ known'[x] = known[x] /\ context'[x] = context[x]

\* The records of the session stay as they are.
SameRecords(x) ==
  \A k \in 1..MaxRounds, t \in RepairTasks : record'[RepairId(x, k, t)] = record[RepairId(x, k, t)]

LEMMA SameDerived ==
  ASSUME NEW x \in Sessions, SameSession(x)
  PROVE  /\ Busy(x)' = Busy(x) /\ Executing(x)' = Executing(x) /\ Round(x)' = Round(x)
         /\ Current(x)' = Current(x)
         /\ \A t : MineId(x, t)' = MineId(x, t)
<1>1. Executing(x)' = Executing(x)
  BY DEF SameSession, Executing
<1>2. Busy(x)' = Busy(x)
  BY <1>1 DEF SameSession, Busy
<1>3. Round(x)' = Round(x)
  BY <1>2 DEF SameSession, Round
<1>4. Current(x)' = Current(x)
  <2>1. Current(x) = First(todo[x]) /\ Current(x)' = First(todo'[x])
    BY DEF Current, First
  <2> QED
    BY <2>1 DEF SameSession
<1> QED
  BY <1>1, <1>2, <1>3, <1>4 DEF MineId, RepairId

LEMMA RoundStays ==
  ASSUME RepairTypeOK, NEW x \in Sessions, RoundInv(x), SameSession(x), SameRecords(x)
  PROVE  RoundInv(x)'
<1>1. /\ Busy(x)' = Busy(x) /\ Round(x)' = Round(x) /\ Current(x)' = Current(x)
      /\ \A t : MineId(x, t)' = MineId(x, t)
  BY SameDerived
<1>2. \A t \in mine[x] : record'[MineId(x, t)] = record[MineId(x, t)]
  BY MineIdType DEF SameRecords, MineId
<1>3. \A k \in 1..MaxRounds, t \in RepairTasks :
        Stored(RepairId(x, k, t))' = Stored(RepairId(x, k, t))
  BY DEF SameRecords, Stored
<1>4. \A t \in mine[x] : Stored(MineId(x, t)) = (record'[MineId(x, t)] # NoRecord)
  BY <1>2 DEF Stored
<1> HIDE DEF Stored
<1>5. \A k \in 1..MaxRounds, t \in RepairTasks :
        Stored(RepairId(x, k, t))' => k < Round(x)' \/ (k = Round(x)' /\ t \in mine'[x])
  BY <1>1, <1>3 DEF RoundInv, SameSession
<1>6. \A t \in mine'[x] :
       /\ Stored(MineId(x, t))'
       /\ \A d \in mine'[x] : d \in TaskDeps[t] => MineId(x, d)' \in record'[MineId(x, t)'].parents
  BY <1>1, <1>2, <1>4 DEF RoundInv, SameSession, Stored
<1>7. Busy(x)' =>
       /\ rounds'[x] < MaxRounds
       /\ seeds'[x] # {}
       /\ mine'[x] \union todo'[x] = Closure(seeds'[x])
       /\ \A t \in mine'[x], u \in todo'[x] : TaskOrder[t] < TaskOrder[u]
  BY <1>1 DEF RoundInv, SameSession
<1>8. ~ Busy(x)' => mine'[x] = IF rounds'[x] = 0 THEN {} ELSE Closure(seeds'[x])
  BY <1>1 DEF RoundInv, SameSession
<1>9. place'[x] \in {"handling", "writing"} =>
       \A d \in mine'[x] : d \in TaskDeps[Current(x)'] => MineId(x, d)' \in context'[x].upstream
  BY <1>1 DEF RoundInv, SameSession
<1> QED
  BY <1>5, <1>6, <1>7, <1>8, <1>9 DEF RoundInv, Closure, Grow

\* A step of one session is none of another.
LEMMA OthersStay ==
  ASSUME RepairTypeOK, NEW x \in Sessions, PlanStep(x) \/ ExecuteStep(x),
         NEW y \in Sessions, y # x
  PROVE  SameSession(y)
<1> USE DEF RepairTypeOK, SameSession
<1>1. ASSUME NEW S, Ready(x, S) PROVE SameSession(y)
  BY <1>1 DEF Ready
<1>2. ASSUME NEW p, Move(x, p) PROVE SameSession(y)
  BY <1>2 DEF Move
<1>3. CASE CallHandler(x)
  BY <1>3 DEF CallHandler
<1>4. CASE HandlerReturns(x)
  BY <1>4 DEF HandlerReturns
<1>5. CASE WriteVersion(x)
  BY <1>5 DEF WriteVersion
<1> QED
  BY <1>1, <1>2, <1>3, <1>4, <1>5
     DEF PlanStep, Plan, PlanWaits, PlanRefused, Passed, ResumeAfterClarification,
         ExecuteStep, RepairFails, WriteRefused

\* What a session writes: the current task, numbered after the head it knows.
Written(x) ==
  LET t == Current(x)
      a == RepairId(x, rounds[x] + 1, t) IN
  /\ Effect(a, RepairSlot(t), head[RepairSlot(t)] + 1, context[x].upstream)
  /\ known[x][t] = head[RepairSlot(t)]
  /\ mine'[x] = mine[x] \union {t} /\ todo'[x] = todo[x] \ {t}
  /\ seeds'[x] = seeds[x] /\ known'[x] = known[x]
  /\ IF LastTask(x) THEN place'[x] = "review" /\ rounds'[x] = rounds[x] + 1
     ELSE place'[x] = "ready" /\ rounds'[x] = rounds[x]

LEMMA WriteIsWritten ==
  ASSUME TypeOK, RepairTypeOK, NEW x \in Sessions, WriteVersion(x)
  PROVE  /\ Written(x)
         /\ Current(x) \in todo[x] /\ Current(x) \in RepairTasks
         /\ rounds[x] + 1 \in 1..MaxRounds
         /\ RepairId(x, rounds[x] + 1, Current(x)) \in Artifacts
         /\ RepairSlot(Current(x)) \in Slots
         /\ head[RepairSlot(Current(x))] + 1 \in Versions
         /\ context[x].upstream \in SUBSET Artifacts
<1> DEFINE t == Current(x)
<1>1. Executing(x) /\ place[x] = "writing"
  BY DEF WriteVersion, Executing
<1>2. t \in todo[x] /\ t \in RepairTasks
  BY <1>1, CurrentType
<1>3. rounds[x] + 1 \in 1..MaxRounds
  BY <1>1 DEF RepairTypeOK
<1>4. RepairId(x, rounds[x] + 1, t) \in Artifacts /\ RepairSlot(t) \in Slots
  BY <1>2, <1>3
<1>5. context[x].upstream \in SUBSET Artifacts /\ context[x].expected \in 0..MaxVersion
      /\ known[x][t] \in 0..MaxVersion
  BY <1>2 DEF RepairTypeOK
<1>6. /\ Numbered(x) \in Versions
      /\ Write(RepairId(x, rounds[x] + 1, t), RepairSlot(t), Numbered(x),
               context[x].upstream, context[x].expected)
  BY DEF WriteVersion
<1>7. Numbered(x) = known[x][t] + 1
  BY DEF Numbered
<1> HIDE DEF t
<1>8. Numbered(x) = head[RepairSlot(t)] + 1
  BY <1>6 DEF Write, FollowsHead
<1>9. head[RepairSlot(t)] \in 0..MaxVersion
  BY <1>4 DEF TypeOK
<1>10. known[x][t] = head[RepairSlot(t)]
  BY <1>5, <1>7, <1>8, <1>9
<1>11. Effect(RepairId(x, rounds[x] + 1, t), RepairSlot(t), head[RepairSlot(t)] + 1,
              context[x].upstream)
  BY <1>4, <1>5, <1>6, <1>8, WriteEffect
<1>12. /\ mine'[x] = mine[x] \union {t} /\ todo'[x] = todo[x] \ {t}
       /\ seeds'[x] = seeds[x] /\ known'[x] = known[x]
       /\ IF LastTask(x) THEN place'[x] = "review" /\ rounds'[x] = rounds[x] + 1
          ELSE place'[x] = "ready" /\ rounds'[x] = rounds[x]
  BY DEF WriteVersion, RepairTypeOK, t
<1> QED
  BY <1>2, <1>3, <1>4, <1>5, <1>6, <1>8, <1>10, <1>11, <1>12 DEF Written, t

\* A plan starts a round with nothing published.
LEMMA RoundBegins ==
  ASSUME RepairTypeOK, NEW x \in Sessions, RoundInv(x), ~ Busy(x),
         NEW S \in SUBSET AgentTasks, S # {}, MayRevise(x), Ready(x, S)
  PROVE  RoundInv(x)'
<1>1. /\ place'[x] = "ready" /\ seeds'[x] = S /\ todo'[x] = Closure(S) /\ mine'[x] = {}
      /\ rounds'[x] = rounds[x] /\ record' = record /\ rounds[x] \in 0..MaxRounds
      /\ rounds[x] < MaxRounds
  BY DEF Ready, RepairTypeOK, MayRevise, vars
<1>2. Busy(x)' /\ Round(x)' = rounds[x] + 1
  BY <1>1 DEF Busy, Executing, Round
<1>3. Round(x) = rounds[x]
  BY DEF Round
<1>4. \A k \in 1..MaxRounds, t \in RepairTasks : Stored(RepairId(x, k, t)) => k < rounds[x] + 1
  BY <1>1, <1>3 DEF RoundInv
<1> QED
  BY <1>1, <1>2, <1>4 DEF RoundInv, Stored, RepairId, Closure, Grow

\* A session that has no round and gets none, or that fails in its round.
LEMMA RoundOfMove ==
  ASSUME RepairTypeOK, NEW x \in Sessions, RoundInv(x), NEW p, Move(x, p),
         \/ ~ Busy(x) /\ p \in {"waiting_user", "limit", "passed"}
         \/ Executing(x) /\ p = "failed"
  PROVE  RoundInv(x)'
<1>1. /\ place'[x] = p /\ rounds'[x] = rounds[x] /\ seeds'[x] = seeds[x]
      /\ todo'[x] = todo[x] /\ mine'[x] = mine[x] /\ context'[x] = context[x]
      /\ record' = record
  BY DEF Move, RepairTypeOK, vars
<1>2. Busy(x)' = Busy(x)
  BY <1>1 DEF Busy, Executing
<1>3. Round(x)' = Round(x)
  BY <1>1, <1>2 DEF Round
<1>4. p \notin {"handling", "writing"}
  OBVIOUS
<1> QED
  BY <1>1, <1>2, <1>3, <1>4 DEF RoundInv, Stored, MineId, RepairId, Closure, Grow

LEMMA RoundOfPlan ==
  ASSUME RepairTypeOK, NEW x \in Sessions, RoundInv(x), PlanStep(x)
  PROVE  RoundInv(x)'
<1>1. place[x] \in {"review", "waiting_user"} /\ ~ Busy(x)
  BY DEF PlanStep, Plan, PlanWaits, PlanRefused, Passed, ResumeAfterClarification, Busy, Executing
<1>2. ASSUME NEW targets \in Reviews, Plan(x, targets) PROVE RoundInv(x)'
  <2>1. targets \in SUBSET AgentTasks /\ targets # {} /\ MayRevise(x) /\ Ready(x, targets)
    BY <1>2 DEF Plan, Targets
  <2> QED
    BY <1>1, <2>1, RoundBegins
<1>3. ASSUME ResumeAfterClarification(x) PROVE RoundInv(x)'
  <2>1. PICK S \in {{"mobility"}, {"destination"}, {"destination", "mobility"}} : Ready(x, S)
    BY <1>3 DEF ResumeAfterClarification
  <2>2. S \in SUBSET AgentTasks /\ S # {} /\ MayRevise(x)
    BY <1>3 DEF AgentTasks, ResumeAfterClarification
  <2> QED
    BY <1>1, <2>1, <2>2, RoundBegins
<1>4. ASSUME NEW p \in {"waiting_user", "limit", "passed"}, Move(x, p) PROVE RoundInv(x)'
  BY <1>1, <1>4, RoundOfMove
<1> QED
  BY <1>2, <1>3, <1>4 DEF PlanStep, PlanWaits, PlanRefused, Passed

\* The handler is called with the references of the session's own artifacts.
LEMMA RoundOfHandler ==
  ASSUME RepairTypeOK, NEW x \in Sessions, RoundInv(x), CallHandler(x) \/ HandlerReturns(x)
  PROVE  RoundInv(x)'
<1>1. /\ rounds'[x] = rounds[x] /\ seeds'[x] = seeds[x]
      /\ todo'[x] = todo[x] /\ mine'[x] = mine[x] /\ record' = record
      /\ place[x] \in {"ready", "handling"} /\ place'[x] \in {"handling", "writing"}
  BY DEF CallHandler, HandlerReturns, RepairTypeOK, vars
<1>2. Busy(x) /\ Busy(x)' /\ Executing(x)
  BY <1>1 DEF Busy, Executing
<1>3. Round(x)' = Round(x) /\ Round(x) = rounds[x] + 1
  BY <1>1, <1>2 DEF Round
<1>4. Current(x)' = Current(x)
  <2>1. Current(x) = First(todo[x]) /\ Current(x)' = First(todo'[x])
    BY DEF Current, First
  <2> QED
    BY <1>1, <2>1
<1>5. \A d \in mine[x] : d \in TaskDeps[Current(x)] => MineId(x, d) \in context'[x].upstream
  <2>1. CASE CallHandler(x)
    <3>1. context'[x].upstream = {Upstream(x, d) : d \in TaskDeps[Current(x)]}
      BY <2>1 DEF CallHandler, RepairTypeOK
    <3>2. \A d \in mine[x] : Upstream(x, d) = MineId(x, d)
      BY <1>3 DEF Upstream, MineId
    <3> QED
      BY <3>1, <3>2
  <2>2. CASE HandlerReturns(x)
    <3>1. context'[x].upstream = context[x].upstream /\ place[x] = "handling"
      BY <2>2 DEF HandlerReturns, RepairTypeOK
    <3> QED
      BY <3>1 DEF RoundInv
  <2> QED
    BY <2>1, <2>2
<1> QED
  BY <1>1, <1>2, <1>3, <1>4, <1>5 DEF RoundInv, Stored, MineId, RepairId, Closure, Grow

LEMMA RoundOfWrite ==
  ASSUME TypeOK, RepairTypeOK, NEW x \in Sessions, RoundInv(x), WriteVersion(x)
  PROVE  RoundInv(x)'
<1>16. PICK t, r : t = Current(x) /\ r = rounds[x] + 1
  OBVIOUS
<1>0. place[x] = "writing" /\ Executing(x) /\ Busy(x)
  BY DEF WriteVersion, Executing, Busy
<1>1. /\ Written(x) /\ t \in todo[x] /\ t \in RepairTasks /\ r \in 1..MaxRounds
      /\ RepairId(x, r, t) \in Artifacts /\ context[x].upstream \in SUBSET Artifacts
      /\ RepairSlot(t) \in Slots /\ head[RepairSlot(t)] + 1 \in Versions
  BY <1>16, WriteIsWritten
<1>2. \A u \in todo[x] : u # t => TaskOrder[t] < TaskOrder[u]
  BY <1>0, <1>16, CurrentIsFirst
<1>3. /\ ~ Stored(RepairId(x, r, t))
      /\ record'[RepairId(x, r, t)] =
           [slot |-> RepairSlot(t), version |-> head[RepairSlot(t)] + 1,
            parents |-> context[x].upstream]
      /\ \A b \in Artifacts : b # RepairId(x, r, t) => record'[b] = record[b]
      /\ mine'[x] = mine[x] \union {t} /\ todo'[x] = todo[x] \ {t} /\ seeds'[x] = seeds[x]
      /\ IF LastTask(x) THEN place'[x] = "review" /\ rounds'[x] = r
         ELSE place'[x] = "ready" /\ rounds'[x] = rounds[x]
  BY <1>1, <1>16 DEF Written, Effect
<1>4. [slot |-> RepairSlot(t), version |-> head[RepairSlot(t)] + 1,
       parents |-> context[x].upstream] \in Records
  BY <1>1 DEF Records
<1>5. LastTask(x) <=> todo[x] = {t}
  BY <1>16 DEF LastTask
<1>6. mine[x] \in SUBSET RepairTasks /\ todo[x] \in SUBSET RepairTasks /\ rounds[x] \in 0..MaxRounds
  BY DEF RepairTypeOK
<1>7. Round(x) = r /\ Round(x)' = r
  BY <1>0, <1>3, <1>16 DEF Round, Busy, Executing
<1>18. Stored(RepairId(x, r, t))' /\ record'[RepairId(x, r, t)].parents = context[x].upstream
  <2>1. /\ record'[RepairId(x, r, t)] # NoRecord
        /\ record'[RepairId(x, r, t)].parents = context[x].upstream
    BY <1>3, <1>4
  <2> QED
    BY <2>1 DEF Stored
<1>8. \A k \in 1..MaxRounds, u \in RepairTasks :
        k # r \/ u # t => record'[RepairId(x, k, u)] = record[RepairId(x, k, u)]
  BY <1>3, RepairIds
<1>9. \A k \in 1..MaxRounds, u \in RepairTasks :
        Stored(RepairId(x, k, u))' => k < r \/ (k = r /\ u \in mine'[x])
  <2> SUFFICES ASSUME NEW k \in 1..MaxRounds, NEW u \in RepairTasks, Stored(RepairId(x, k, u))'
               PROVE  k < r \/ (k = r /\ u \in mine'[x])
    OBVIOUS
  <2>1. CASE k = r /\ u = t
    BY <1>3, <2>1
  <2>2. CASE k # r \/ u # t
    BY <1>3, <1>7, <1>8, <2>2 DEF RoundInv, Stored
  <2> QED
    BY <2>1, <2>2
<1>10. ASSUME NEW u \in mine'[x]
       PROVE  /\ Stored(RepairId(x, r, u))'
              /\ \A d \in mine'[x] :
                   d \in TaskDeps[u] => RepairId(x, r, d) \in record'[RepairId(x, r, u)].parents
  <2>1. CASE u = t
    <3>1. \A d \in mine'[x] : d \in TaskDeps[t] => d \in mine[x]
      BY <1>1, <1>3, Ordered
    <3>2. \A d \in mine[x] : d \in TaskDeps[t] => RepairId(x, r, d) \in context[x].upstream
      BY <1>0, <1>7, <1>16 DEF RoundInv, MineId
    <3>3. \A d \in mine'[x] :
            d \in TaskDeps[t] => RepairId(x, r, d) \in record'[RepairId(x, r, t)].parents
      BY <1>18, <3>1, <3>2
    <3> QED
      BY <1>18, <2>1, <3>3
  <2>2. CASE u # t
    <3>1. u \in mine[x] /\ u \in RepairTasks
      BY <1>3, <1>6, <2>2
    <3>2. record'[RepairId(x, r, u)] = record[RepairId(x, r, u)]
      BY <1>1, <1>8, <2>2, <3>1
    <3>3. /\ Stored(RepairId(x, r, u))
          /\ \A d \in mine[x] :
               d \in TaskDeps[u] => RepairId(x, r, d) \in record[RepairId(x, r, u)].parents
      BY <1>7, <3>1 DEF RoundInv, MineId
    <3>4. TaskOrder[u] < TaskOrder[t]
      BY <1>0, <1>1, <3>1 DEF RoundInv
    <3>5. t \notin TaskDeps[u]
      BY <1>1, <3>1, <3>4, Ordered
    <3>6. Stored(RepairId(x, r, u))'
      BY <3>2, <3>3 DEF Stored
    <3>7. \A d \in mine'[x] :
            d \in TaskDeps[u] => RepairId(x, r, d) \in record'[RepairId(x, r, u)].parents
      BY <1>3, <3>2, <3>3, <3>5
    <3> QED
      BY <3>6, <3>7
  <2> QED
    BY <2>1, <2>2
<1>11. mine'[x] \union todo'[x] = Closure(seeds[x]) /\ rounds[x] < MaxRounds /\ seeds[x] # {}
  BY <1>0, <1>1, <1>3 DEF RoundInv
<1>12. \A u \in mine'[x], w \in todo'[x] : TaskOrder[u] < TaskOrder[w]
  BY <1>0, <1>2, <1>3 DEF RoundInv
<1>13. ~ Busy(x)' => mine'[x] = IF rounds'[x] = 0 THEN {} ELSE Closure(seeds'[x])
  <2> SUFFICES ASSUME ~ Busy(x)' PROVE rounds'[x] # 0 /\ mine'[x] = Closure(seeds[x]) /\ seeds'[x] = seeds[x]
    BY DEF Closure, Grow
  <2>1. LastTask(x)
    BY <1>3 DEF Busy, Executing
  <2>2. todo'[x] = {}
    BY <1>3, <1>5, <2>1
  <2> QED
    BY <1>1, <1>3, <1>11, <2>1, <2>2
<1>14. Busy(x)' => rounds'[x] = rounds[x]
  BY <1>3 DEF Busy, Executing
<1>15. place'[x] \notin {"handling", "writing"}
  BY <1>3
<1>19. \A u : MineId(x, u)' = RepairId(x, r, u)
  BY <1>7 DEF MineId, RepairId
<1>20. \A u \in mine'[x] :
        /\ Stored(MineId(x, u))'
        /\ \A d \in mine'[x] : d \in TaskDeps[u] => MineId(x, d)' \in record'[MineId(x, u)'].parents
  BY <1>10, <1>19 DEF Stored
<1>21. Busy(x)' =>
        /\ rounds'[x] < MaxRounds
        /\ seeds'[x] # {}
        /\ mine'[x] \union todo'[x] = Closure(seeds'[x])
        /\ \A u \in mine'[x], w \in todo'[x] : TaskOrder[u] < TaskOrder[w]
  BY <1>3, <1>11, <1>12, <1>14
<1>22. \A k \in 1..MaxRounds, u \in RepairTasks :
        Stored(RepairId(x, k, u))' => k < Round(x)' \/ (k = Round(x)' /\ u \in mine'[x])
  BY <1>7, <1>9
<1> QED
  BY <1>13, <1>15, <1>20, <1>21, <1>22 DEF RoundInv, Closure, Grow

LEMMA RoundsStep ==
  ASSUME TypeOK, RepairTypeOK, RoundsInv, [TripNext]_tripVars
  PROVE  RoundsInv'
<1>1. ASSUME UNCHANGED <<vars, repairVars>> PROVE RoundsInv'
  <2> SUFFICES ASSUME NEW x \in Sessions PROVE RoundInv(x)'
    BY DEF RoundsInv
  <2>1. RoundInv(x) /\ SameSession(x) /\ SameRecords(x)
    BY <1>1 DEF RoundsInv, vars, repairVars, SameSession, SameRecords
  <2> QED
    BY <2>1, RoundStays
<1>2. ASSUME NEW c \in Calls, NEW t \in Tasks, Publish(c, t), UNCHANGED repairVars
      PROVE  RoundsInv'
  <2> SUFFICES ASSUME NEW x \in Sessions PROVE RoundInv(x)'
    BY DEF RoundsInv
  <2>1. RoundInv(x) /\ SameSession(x)
    BY <1>2 DEF RoundsInv, repairVars, SameSession
  <2>2. SameRecords(x)
    <3>1. \A a \in Artifacts : a # OutputId(c, t) => record'[a] = record[a]
      BY <1>2 DEF Publish, Accepts, Write, TypeOK
    <3> QED
      BY <3>1, RepairIds DEF SameRecords
  <2> QED
    BY <2>1, <2>2, RoundStays
<1>3. ASSUME NEW x \in Sessions, PlanStep(x) \/ ExecuteStep(x) PROVE RoundsInv'
  <2> SUFFICES ASSUME NEW y \in Sessions PROVE RoundInv(y)'
    BY DEF RoundsInv
  <2>0. RoundInv(x) /\ RoundInv(y)
    BY DEF RoundsInv
  <2>1. CASE y = x
    <3>1. CASE PlanStep(x)
      BY <2>0, <2>1, <3>1, RoundOfPlan
    <3>2. CASE ExecuteStep(x)
      <4>1. CASE RepairFails(x) \/ WriteRefused(x)
        <5>1. Executing(x) /\ Move(x, "failed")
          BY <4>1 DEF RepairFails, WriteRefused, Executing
        <5> QED
          BY <2>0, <2>1, <5>1, RoundOfMove
      <4>2. CASE CallHandler(x) \/ HandlerReturns(x)
        BY <2>0, <2>1, <4>2, RoundOfHandler
      <4>3. CASE WriteVersion(x)
        BY <2>0, <2>1, <4>3, RoundOfWrite
      <4> QED
        BY <3>2, <4>1, <4>2, <4>3 DEF ExecuteStep
    <3> QED
      BY <1>3, <3>1, <3>2
  <2>2. CASE y # x
    <3>1. SameSession(y)
      BY <1>3, <2>2, OthersStay
    <3>2. SameRecords(y)
      <4>1. CASE WriteVersion(x)
        <5>1. \A a \in Artifacts : a # RepairId(x, rounds[x] + 1, Current(x)) => record'[a] = record[a]
          BY <4>1, WriteIsWritten DEF Written, Effect
        <5> QED
          BY <2>2, <5>1, RepairIds DEF SameRecords
      <4>2. CASE ~ WriteVersion(x)
        <5>1. record' = record
          BY <1>3, <4>2 DEF PlanStep, Plan, PlanWaits, PlanRefused, Passed,
            ResumeAfterClarification, Ready, Move, ExecuteStep, CallHandler, HandlerReturns,
            RepairFails, WriteRefused, vars
        <5> QED
          BY <5>1 DEF SameRecords
      <4> QED
        BY <4>1, <4>2
    <3> QED
      BY <2>0, <3>1, <3>2, RoundStays
  <2> QED
    BY <2>1, <2>2
<1> QED
  BY <1>1, <1>2, <1>3
     DEF TripNext, CallStep, RepairStep, BeginCall, TaskEnds, ServiceFails, PublishRefused, Fail,
         tripVars

\* Sessions have published their rounds and the tasks of mine, in their order.
THEOREM RoundsInvariance == TripSpec => []RoundsInv
<1>1. TripInit => RoundsInv
  <2> SUFFICES ASSUME TripInit, NEW x \in Sessions PROVE RoundInv(x)
    BY DEF RoundsInv
  <2>1. place[x] = "review" /\ rounds[x] = 0 /\ mine[x] = {}
    BY DEF TripInit, RepairInit
  <2>2. \A k \in 1..MaxRounds, t \in RepairTasks : ~ Stored(RepairId(x, k, t))
    BY DEF TripInit, Init, Stored
  <2>3. ~ Busy(x)
    BY <2>1 DEF Busy, Executing
  <2> QED
    BY <2>1, <2>2, <2>3 DEF RoundInv
<1>2. TripIInv /\ RoundsInv /\ [TripNext]_tripVars => RoundsInv'
  BY RoundsStep DEF TripIInv, IInv
<1> QED
  BY <1>1, <1>2, TripInvariance, PTL DEF TripSpec

\* A session touches what its patches or answers invalidate and nothing else, and
\* a completed round has rebuilt all of it in the order of the dependencies
\* (TargetedRepairController.plan and execute).
THEOREM RepairsDownstream == TripSpec => []RepairsExactlyDownstream
<1>1. TripIInv /\ RoundsInv => RepairsExactlyDownstream
  <2> SUFFICES ASSUME TripIInv, NEW x \in Sessions, RoundInv(x)
               PROVE  /\ \A t \in RepairTasks :
                           MayRevise(x) /\ Stored(RepairId(x, rounds[x] + 1, t)) =>
                             t \in Downstream(seeds[x])
                      /\ place[x] \in {"review", "passed", "limit"} /\ rounds[x] > 0 =>
                           /\ mine[x] = Downstream(seeds[x])
                           /\ \A t, d \in mine[x] :
                                d \in TaskDeps[t] =>
                                  RepairId(x, rounds[x], d) \in record[RepairId(x, rounds[x], t)].parents
    BY DEF RoundsInv, RepairsExactlyDownstream
  <2>1. /\ RepairTypeOK /\ rounds[x] \in 0..MaxRounds /\ MaxRounds \in Nat
        /\ seeds[x] \in SUBSET RepairTasks
    BY DEF TripIInv, RepairTypeOK, AgentTasks, RepairTasks
  <2>2. Closure(seeds[x]) = Downstream(seeds[x])
    BY <2>1, ClosureIsDownstream
  <2>3. ASSUME NEW t \in RepairTasks, MayRevise(x), Stored(RepairId(x, rounds[x] + 1, t))
        PROVE  t \in Downstream(seeds[x])
    <3>1. rounds[x] + 1 \in 1..MaxRounds
      BY <2>1, <2>3 DEF MayRevise
    <3>2. rounds[x] + 1 < Round(x) \/ (rounds[x] + 1 = Round(x) /\ t \in mine[x])
      BY <2>3, <3>1 DEF RoundInv
    <3>3. Busy(x) /\ t \in mine[x]
      BY <2>1, <3>2 DEF Round
    <3> QED
      BY <2>2, <3>3 DEF RoundInv
  <2>4. ASSUME place[x] \in {"review", "passed", "limit"}, rounds[x] > 0
        PROVE  /\ mine[x] = Downstream(seeds[x])
               /\ \A t, d \in mine[x] :
                    d \in TaskDeps[t] =>
                      RepairId(x, rounds[x], d) \in record[RepairId(x, rounds[x], t)].parents
    <3>1. ~ Busy(x)
      BY <2>4 DEF Busy, Executing
    <3>2. Round(x) = rounds[x] /\ rounds[x] # 0
      BY <2>1, <2>4, <3>1 DEF Round
    <3> QED
      BY <2>2, <3>1, <3>2 DEF RoundInv, MineId
  <2> QED
    BY <2>3, <2>4
<1> QED
  BY <1>1, TripInvariance, RoundsInvariance, PTL

-----------------------------------------------------------------------------
(***************************************************************************)
(* No update is lost unnoticed.  Every plan ends with a review, so a       *)
(* session whose handlers number after what it knew when it planned can    *)
(* only complete its round while nobody else has published a review: two   *)
(* rounds that overlap never both complete.  Whatever a session has left   *)
(* half done is noticed, because the session is busy or has failed.        *)
(***************************************************************************)
ReviewSlot == RepairSlot("critic")

\* Nobody has completed a round since the session planned its own.
Live(x) == Executing(x) /\ known[x]["critic"] = head[ReviewSlot]

\* A round that is not complete has touched the task.
ByAnother(x, t) == \E z \in Sessions \ {x} : Busy(z) /\ t \in mine[z]
Touched(t) == \E z \in Sessions : Busy(z) /\ t \in mine[z]

LatestOf(t) == Latest(RepairSlot(t))
BuiltFrom(t, d) == LatestOf(d) \in record[LatestOf(t)].parents

\* What the session has published is the latest there is, and so is what it was
\* built from, but for what others do at the same time.
LiveInv(x) ==
  /\ \A t \in mine[x] : LatestOf(t) = MineId(x, t) \/ ByAnother(x, t)
  /\ \A t \in mine[x], d \in RepairTasks :
       d \in TaskDeps[t] /\ d \notin mine[x] =>
         LatestOf(d) \in record[MineId(x, t)].parents \/ ByAnother(x, d)
  /\ place[x] \in {"handling", "writing"} =>
       \A d \in RepairTasks :
         d \in TaskDeps[Current(x)] /\ d \notin mine[x] =>
           LatestOf(d) \in context[x].upstream \/ ByAnother(x, d)

\* Before the first review there is no repair.
StartInv ==
  /\ ~ Reviewed => /\ \A x \in Sessions : place[x] = "review"
                   /\ \A t \in RepairTasks : head[RepairSlot(t)] <= 1
  /\ Reviewed => \A t \in RepairTasks : head[RepairSlot(t)] > 0

KnownInv ==
  \A x \in Sessions, t \in RepairTasks : Executing(x) => known[x][t] <= head[RepairSlot(t)]

LivesInv == \A x \in Sessions : Live(x) => LiveInv(x)

FreshInv ==
  Reviewed => \A t, d \in RepairTasks :
    d \in TaskDeps[t] => BuiltFrom(t, d) \/ Touched(t) \/ Touched(d)

SerialInv == StartInv /\ KnownInv /\ LivesInv /\ FreshInv

\* The dependencies of a task are among the inputs that the workflow gave it.
LEMMA DepsAreInputs ==
  /\ RepairTasks = Tasks
  /\ \A t \in RepairTasks : TaskDeps[t] \subseteq Inputs[t] /\ TaskDeps[t] \subseteq RepairTasks
  /\ \A r, t : SlotOf(r, t) = <<r, t>> /\ RepairSlot(t) = <<RepairRun, t>>
  /\ \A t \in Tasks : t = "critic" \/ t \in Inputs["critic"]
<1>1. /\ TaskDeps["destination"] = {} /\ TaskDeps["mobility"] = {}
      /\ TaskDeps["routes"] = {"destination", "mobility"}
      /\ TaskDeps["planning"] = {"routes"} /\ TaskDeps["critic"] = {"planning"}
  BY DEF TaskDeps
<1>2. /\ Inputs["routes"] = {"destination", "mobility"}
      /\ Inputs["planning"] = {"destination", "mobility", "routes"}
      /\ Inputs["critic"] = {"destination", "mobility", "routes", "planning"}
  BY DEF Inputs, Research
<1>3. RepairTasks = {"destination", "mobility", "routes", "planning", "critic"} /\ Tasks = RepairTasks
  BY DEF RepairTasks, Tasks
<1>4. \A t \in RepairTasks : TaskDeps[t] \subseteq Inputs[t] /\ TaskDeps[t] \subseteq RepairTasks
  BY <1>1, <1>2, <1>3
<1> QED
  BY <1>2, <1>3, <1>4 DEF SlotOf, RepairSlot

\* The versions of a slot that exists.
LEMMA LatestIs ==
  ASSUME TypeOK, VersionsAgree, NEW t \in RepairTasks, head[RepairSlot(t)] > 0
  PROVE  LatestOf(t) \in Artifacts /\ Stored(LatestOf(t))
BY LatestStored DEF LatestOf

\* Nothing on the Blackboard that the sessions look at changes.
SameBoard ==
  /\ \A t \in RepairTasks : head'[RepairSlot(t)] = head[RepairSlot(t)]
  /\ \A t \in RepairTasks : LatestOf(t)' = LatestOf(t)
  /\ \A a \in Artifacts : Stored(a) => record'[a] = record[a]

\* What happens elsewhere, of calls and on the Blackboard, is nothing to a
\* session.
LEMMA SerialStays ==
  ASSUME TypeOK, VersionsAgree, RepairTypeOK, RoundsInv, SerialInv,
         \A x \in Sessions : SameSession(x), SameBoard
  PROVE  SerialInv'
<1>1. ASSUME NEW x \in Sessions
      PROVE  /\ Busy(x)' = Busy(x) /\ Executing(x)' = Executing(x) /\ Current(x)' = Current(x)
             /\ \A t : MineId(x, t)' = MineId(x, t)
  BY SameDerived
<1>2. Reviewed' = Reviewed /\ "critic" \in RepairTasks
  BY DEF Reviewed, SameBoard, RepairTasks, RepairSlot
<1>3. StartInv'
  BY <1>2 DEF SerialInv, StartInv, SameBoard, SameSession, RepairSlot
<1>4. KnownInv'
  BY <1>1 DEF SerialInv, KnownInv, SameBoard, SameSession, RepairSlot
<1>5. /\ \A x \in Sessions : \A t : ByAnother(x, t)' = ByAnother(x, t)
      /\ \A t : Touched(t)' = Touched(t)
  BY <1>1 DEF ByAnother, Touched, SameSession
<1>6. ASSUME NEW x \in Sessions, Live(x)' PROVE LiveInv(x)'
  <2>1. Live(x)
    BY <1>1, <1>2, <1>6 DEF Live, SameBoard, SameSession, ReviewSlot, RepairSlot
  <2>2. LiveInv(x) /\ RoundInv(x)
    BY <2>1 DEF SerialInv, LivesInv, RoundsInv
  <2>3. \A t \in mine[x] : record'[MineId(x, t)] = record[MineId(x, t)] /\ t \in RepairTasks
    BY <2>2, MineIdType DEF SameBoard, RoundInv
  <2>4. \A t \in mine'[x] : LatestOf(t)' = MineId(x, t)' \/ ByAnother(x, t)'
    BY <1>1, <1>5, <2>2, <2>3 DEF LiveInv, SameBoard, SameSession
  <2>5. \A t \in mine'[x], d \in RepairTasks :
          d \in TaskDeps[t] /\ d \notin mine'[x] =>
            LatestOf(d)' \in record'[MineId(x, t)'].parents \/ ByAnother(x, d)'
    BY <1>1, <1>5, <2>2, <2>3 DEF LiveInv, SameBoard, SameSession
  <2>6. place'[x] \in {"handling", "writing"} =>
          \A d \in RepairTasks :
            d \in TaskDeps[Current(x)'] /\ d \notin mine'[x] =>
              LatestOf(d)' \in context'[x].upstream \/ ByAnother(x, d)'
    BY <1>1, <1>5, <2>2 DEF LiveInv, SameBoard, SameSession
  <2> QED
    BY <2>4, <2>5, <2>6 DEF LiveInv
<1>7. FreshInv'
  <2> SUFFICES ASSUME Reviewed, NEW t \in RepairTasks, NEW d \in RepairTasks, d \in TaskDeps[t]
               PROVE  BuiltFrom(t, d)' \/ Touched(t)' \/ Touched(d)'
    BY <1>2 DEF FreshInv
  <2>1. BuiltFrom(t, d) \/ Touched(t) \/ Touched(d)
    BY DEF SerialInv, FreshInv
  <2>2. head[RepairSlot(t)] > 0
    BY DEF SerialInv, StartInv
  <2>3. LatestOf(t) \in Artifacts /\ Stored(LatestOf(t))
    BY <2>2, LatestIs
  <2>4. BuiltFrom(t, d)' = BuiltFrom(t, d)
    BY <2>3 DEF BuiltFrom, SameBoard
  <2> QED
    BY <1>5, <2>1, <2>4
<1> QED
  BY <1>3, <1>4, <1>6, <1>7 DEF SerialInv, LivesInv

\* The first versions of a run are those of one call, and no call writes to the
\* run when it is reviewed.
LEMMA SerialOfCall ==
  ASSUME TripIInv, TripIInv', RoundsInv, SerialInv,
         NEW c \in Calls, NEW t \in Tasks, Publish(c, t), UNCHANGED repairVars
  PROVE  SerialInv'
<1>0. /\ TypeOK /\ VersionsAgree /\ RepairTypeOK /\ CallTypeOK
      /\ CallIInv' /\ VersionsAgree' /\ TypeOK'
  BY DEF TripIInv, IInv
<1>1. \A x \in Sessions : SameSession(x)
  BY DEF repairVars, SameSession
<1>2. PICK s, a : s = SlotOf(RunOfCall[c], t) /\ a = OutputId(c, t)
  OBVIOUS
<1>3. PICK parents : parents = {OutputId(c, d) : d \in Inputs[t]}
  OBVIOUS
<1>4. s \in Slots /\ a \in Artifacts /\ parents \in SUBSET Artifacts
  BY <1>2, <1>3 DEF Inputs, Tasks, Research
<1>5. Effect(a, s, 1, parents) /\ head[s] = 0
  <2>1. Write(a, s, 1, parents, 0)
    BY <1>2, <1>3 DEF Publish, Accepts
  <2>2. 1 \in Versions /\ 0 \in 0..MaxVersion
    BY DEF Versions
  <2>3. head[s] = 0
    BY <2>1 DEF Write, FollowsHead
  <2> QED
    BY <1>0, <1>4, <2>1, <2>2, <2>3, WriteEffect
<1>6. CASE \A u \in RepairTasks : RepairSlot(u) # s
  <2>1. \A u \in RepairTasks : RepairSlot(u) \in Slots
    OBVIOUS
  <2>2. \A u \in RepairTasks : head'[RepairSlot(u)] = head[RepairSlot(u)]
    BY <1>5, <1>6, <2>1 DEF Effect
  <2>3. \A u \in RepairTasks : head[RepairSlot(u)] # 0 => head[RepairSlot(u)] \in Versions
    BY <1>0, <2>1 DEF TypeOK, Versions
  <2>4. \A u \in RepairTasks : LatestOf(u)' = LatestOf(u)
    BY <1>5, <1>6, <2>1, <2>2, <2>3 DEF Effect, LatestOf, Latest, Get, RepairSlot
  <2>5. SameBoard
    BY <1>5, <2>2, <2>4 DEF SameBoard, Effect
  <2> QED
    BY <1>0, <1>1, <2>5, SerialStays
<1>7. CASE \E u \in RepairTasks : RepairSlot(u) = s
  <2>1. RunOfCall[c] = RepairRun /\ s = RepairSlot(t) /\ t \in RepairTasks
    BY <1>2, <1>7, DepsAreInputs
  <2>2. ~ Reviewed
    BY <1>5, <2>1 DEF SerialInv, StartInv
  <2>3. /\ \A x \in Sessions : place'[x] = "review"
        /\ \A u \in RepairTasks : head'[RepairSlot(u)] <= 1
    BY <1>1, <1>5, <2>2 DEF SerialInv, StartInv, SameSession, Effect
  <2>4. \A x \in Sessions : ~ Executing(x)'
    BY <2>3 DEF Executing
  <2>5. ASSUME Reviewed'
        PROVE  \A u \in RepairTasks :
                 /\ head'[RepairSlot(u)] = 1 /\ LatestOf(u)' = OutputId(c, u)
                 /\ record'[OutputId(c, u)].parents = {OutputId(c, d) : d \in Inputs[u]}
    <3>1. t = "critic"
      BY <1>5, <2>1, <2>2, <2>5, DepsAreInputs DEF Reviewed, Effect, RepairTasks
    <3>2. progress'[c]["critic"] = "done" /\ "critic" \in Tasks
      BY <1>0, <3>1 DEF Publish, Advance, CallTypeOK, Tasks
    <3> SUFFICES ASSUME NEW u \in RepairTasks
                 PROVE  /\ head'[RepairSlot(u)] = 1 /\ LatestOf(u)' = OutputId(c, u)
                        /\ record'[OutputId(c, u)].parents = {OutputId(c, d) : d \in Inputs[u]}
      OBVIOUS
    <3>3. u \in Tasks
      BY DepsAreInputs
    <3>4. progress'[c][u] = "done"
      BY <1>0, <3>2, <3>3, DepsAreInputs DEF CallIInv
    <3>5. /\ Get(SlotOf(RunOfCall[c], u), 1)' = OutputId(c, u)
          /\ record'[OutputId(c, u)].parents = {OutputId(c, d) : d \in Inputs[u]}
      BY <1>0, <3>3, <3>4 DEF CallIInv, Delivered
    <3>6. SlotOf(RunOfCall[c], u) = RepairSlot(u) /\ RepairSlot(u) \in Slots
          /\ OutputId(c, u) \in Artifacts /\ 1 \in Versions
      BY <2>1, <3>3, DepsAreInputs DEF Versions
    <3>7. logical'[RepairSlot(u)][1] = OutputId(c, u)
      BY <3>5, <3>6 DEF Get
    <3>8. 1 <= head'[RepairSlot(u)]
      BY <1>0, <3>6, <3>7 DEF VersionsAgree, Get
    <3>9. head'[RepairSlot(u)] = 1
      BY <1>0, <2>3, <3>6, <3>8 DEF TypeOK
    <3>10. LatestOf(u)' = OutputId(c, u)
      BY <3>7, <3>9 DEF LatestOf, Latest, Get, RepairSlot
    <3> QED
      BY <3>5, <3>9, <3>10
  <2>6. StartInv'
    BY <2>3, <2>5 DEF StartInv, RepairSlot
  <2>7. KnownInv' /\ LivesInv'
    BY <2>4 DEF KnownInv, LivesInv, Live
  <2>8. FreshInv'
    <3> SUFFICES ASSUME Reviewed', NEW u \in RepairTasks, NEW d \in RepairTasks, d \in TaskDeps[u]
                 PROVE  BuiltFrom(u, d)'
      BY DEF FreshInv
    <3>1. /\ LatestOf(u)' = OutputId(c, u) /\ LatestOf(d)' = OutputId(c, d)
          /\ record'[OutputId(c, u)].parents = {OutputId(c, e) : e \in Inputs[u]}
      BY <2>5
    <3>2. d \in Inputs[u]
      BY DepsAreInputs
    <3> QED
      BY <3>1, <3>2 DEF BuiltFrom
  <2> QED
    BY <2>6, <2>7, <2>8 DEF SerialInv
<1> QED
  BY <1>6, <1>7

\* What depends on an invalidated task is invalidated.
LEMMA ClosureIsClosed ==
  ASSUME NEW S \in SUBSET RepairTasks, NEW d \in Closure(S), NEW u \in RepairTasks,
         d \in TaskDeps[u]
  PROVE  u \in Closure(S)
BY ClosureIsDownstream DEF Downstream

\* A step of a session that writes nothing.
LEMMA SerialOfQuiet ==
  ASSUME SerialInv, Reviewed, UNCHANGED vars, NEW x \in Sessions,
         \A y \in Sessions : y # x => SameSession(y),
         Busy(x) => Busy(x)' /\ mine'[x] = mine[x],
         \A t \in RepairTasks : Executing(x)' => known'[x][t] <= head[RepairSlot(t)],
         Live(x)' => LiveInv(x)'
  PROVE  SerialInv'
<1>1. ASSUME NEW y \in Sessions, y # x
      PROVE  /\ Busy(y)' = Busy(y) /\ Executing(y)' = Executing(y) /\ Current(y)' = Current(y)
             /\ \A t : MineId(y, t)' = MineId(y, t)
             /\ SameSession(y)
  BY <1>1, SameDerived
<1>2. head' = head /\ record' = record /\ \A t : LatestOf(t)' = LatestOf(t)
  BY DEF vars, LatestOf, Latest, Get, RepairSlot
<1>3. Reviewed'
  BY <1>2 DEF Reviewed, RepairSlot
<1>4. /\ \A y \in Sessions : \A t : ByAnother(y, t) => ByAnother(y, t)'
      /\ \A t : Touched(t) => Touched(t)'
  BY <1>1 DEF ByAnother, Touched, SameSession
<1>5. StartInv'
  BY <1>2, <1>3 DEF SerialInv, StartInv, RepairSlot
<1>6. KnownInv'
  BY <1>1, <1>2 DEF SerialInv, KnownInv, SameSession, RepairSlot
<1>7. ASSUME NEW y \in Sessions, Live(y)' PROVE LiveInv(y)'
  <2>1. CASE y = x
    BY <1>7, <2>1
  <2>2. CASE y # x
    <3>1. Live(y)
      BY <1>1, <1>2, <1>7, <2>2 DEF Live, SameSession, ReviewSlot, RepairSlot
    <3>2. LiveInv(y)
      BY <3>1 DEF SerialInv, LivesInv
    <3>3. /\ mine'[y] = mine[y] /\ place'[y] = place[y] /\ context'[y] = context[y]
          /\ Current(y)' = Current(y) /\ \A t : MineId(y, t)' = MineId(y, t)
      BY <1>1, <2>2 DEF SameSession
    <3> QED
      BY <1>2, <1>4, <3>2, <3>3 DEF LiveInv
  <2> QED
    BY <2>1, <2>2
<1>8. FreshInv'
  BY <1>2, <1>4 DEF SerialInv, FreshInv, BuiltFrom
<1> QED
  BY <1>5, <1>6, <1>7, <1>8 DEF SerialInv, LivesInv

LEMMA SerialOfPlan ==
  ASSUME TypeOK, RepairTypeOK, SerialInv, NEW x \in Sessions, PlanStep(x)
  PROVE  SerialInv'
<1>1. place[x] \in {"review", "waiting_user"} /\ ~ Busy(x)
  BY DEF PlanStep, Plan, PlanWaits, PlanRefused, Passed, ResumeAfterClarification, Busy, Executing
<1>2. Reviewed
  BY DEF PlanStep, Plan, PlanWaits, PlanRefused, Passed, ResumeAfterClarification, SerialInv,
         StartInv
<1>3. \A y \in Sessions : y # x => SameSession(y)
  BY OthersStay
<1>4. ASSUME NEW S, Ready(x, S) PROVE SerialInv'
  <2>1. /\ UNCHANGED vars /\ place'[x] = "ready" /\ mine'[x] = {} /\ known'[x] = Versions0
    BY <1>4 DEF Ready, RepairTypeOK
  <2>2. \A t \in RepairTasks : known'[x][t] <= head[RepairSlot(t)]
    BY <2>1 DEF Versions0, TypeOK
  <2>3. LiveInv(x)'
    BY <2>1 DEF LiveInv
  <2> QED
    BY <1>1, <1>2, <1>3, <2>1, <2>2, <2>3, SerialOfQuiet
<1>5. ASSUME NEW p \in {"waiting_user", "limit", "passed"}, Move(x, p) PROVE SerialInv'
  <2>1. UNCHANGED vars /\ place'[x] = p
    BY <1>5 DEF Move, RepairTypeOK
  <2>2. ~ Executing(x)'
    BY <2>1 DEF Executing
  <2> QED
    BY <1>1, <1>2, <1>3, <2>1, <2>2, SerialOfQuiet DEF Live
<1> QED
  BY <1>4, <1>5 DEF PlanStep, Plan, PlanWaits, PlanRefused, Passed, ResumeAfterClarification

LEMMA SerialOfHandler ==
  ASSUME RepairTypeOK, SerialInv, ~ HandlerLooks, NEW x \in Sessions,
         CallHandler(x) \/ HandlerReturns(x)
  PROVE  SerialInv'
<1>1. /\ todo'[x] = todo[x] /\ mine'[x] = mine[x] /\ rounds'[x] = rounds[x]
      /\ known'[x] = known[x] /\ UNCHANGED vars
      /\ place[x] \in {"ready", "handling"} /\ place'[x] \in {"handling", "writing"}
  BY DEF CallHandler, HandlerReturns, RepairTypeOK
<1>2. Busy(x) /\ Busy(x)' /\ Executing(x) /\ Reviewed
  BY <1>1 DEF Busy, Executing, SerialInv, StartInv
<1>3. \A y \in Sessions : y # x => SameSession(y)
  BY OthersStay DEF ExecuteStep
<1>4. Current(x)' = Current(x) /\ \A t : MineId(x, t)' = MineId(x, t)
  <2>1. Current(x) = First(todo[x]) /\ Current(x)' = First(todo'[x])
    BY DEF Current, First
  <2>2. Round(x)' = Round(x)
    BY <1>1, <1>2 DEF Round
  <2> QED
    BY <1>1, <2>1, <2>2 DEF MineId, RepairId
<1>5. \A t \in RepairTasks : known'[x][t] <= head[RepairSlot(t)]
  BY <1>1, <1>2 DEF SerialInv, KnownInv
<1>6. ASSUME Live(x)' PROVE LiveInv(x)'
  <2>1. Live(x)
    BY <1>1, <1>2, <1>6 DEF Live, vars, ReviewSlot, RepairSlot
  <2>2. LiveInv(x)
    BY <2>1 DEF SerialInv, LivesInv
  <2>3. record' = record /\ \A t : LatestOf(t)' = LatestOf(t)
    BY <1>1 DEF vars, LatestOf, Latest, Get, RepairSlot
  <2>4. \A t : ByAnother(x, t)' = ByAnother(x, t)
    BY <1>3, SameDerived DEF ByAnother, SameSession
  <2>5. \A d \in RepairTasks : d \in TaskDeps[Current(x)] /\ d \notin mine[x] =>
          LatestOf(d) \in context'[x].upstream \/ ByAnother(x, d)
    <3>1. CASE CallHandler(x)
      <4>1. context'[x].upstream = {Upstream(x, d) : d \in TaskDeps[Current(x)]}
        BY <3>1 DEF CallHandler, RepairTypeOK
      <4>2. \A d : d \notin mine[x] => Upstream(x, d) = LatestOf(d)
        BY DEF Upstream, LatestOf
      <4> QED
        BY <4>1, <4>2
    <3>2. CASE HandlerReturns(x)
      <4>1. context'[x].upstream = context[x].upstream /\ place[x] = "handling"
        BY <3>2 DEF HandlerReturns, RepairTypeOK
      <4> QED
        BY <2>2, <4>1 DEF LiveInv
    <3> QED
      BY <3>1, <3>2
  <2> QED
    BY <1>1, <1>4, <2>2, <2>3, <2>4, <2>5 DEF LiveInv
<1> QED
  BY <1>1, <1>2, <1>3, <1>5, <1>6, SerialOfQuiet

LEMMA SerialOfFailure ==
  ASSUME RepairTypeOK, SerialInv, NEW x \in Sessions, RepairFails(x) \/ WriteRefused(x)
  PROVE  SerialInv'
<1>1. /\ UNCHANGED vars /\ mine'[x] = mine[x] /\ place'[x] = "failed"
      /\ place[x] \in {"ready", "handling", "writing"}
  BY DEF RepairFails, WriteRefused, Move, RepairTypeOK
<1>2. Busy(x)' /\ ~ Executing(x)' /\ Reviewed
  BY <1>1 DEF Busy, Executing, SerialInv, StartInv
<1>3. \A y \in Sessions : y # x => SameSession(y)
  BY OthersStay DEF ExecuteStep
<1> QED
  BY <1>1, <1>2, <1>3, SerialOfQuiet DEF Live

\* What a write changes for the sessions, in terms of the current task t, the
\* new artifact a and its parents.
WriteSeen(x, t, a) ==
  /\ t = Current(x) /\ a = MineId(x, t)
  /\ t \in RepairTasks /\ t \in todo[x] /\ a \in Artifacts /\ ~ Stored(a)
  /\ LatestOf(t)' = a
  /\ record'[a].parents = context[x].upstream
  /\ head'[RepairSlot(t)] = head[RepairSlot(t)] + 1
  /\ known[x][t] = head[RepairSlot(t)]
  /\ \A b \in Artifacts : b # a => record'[b] = record[b]
  /\ \A u \in RepairTasks : u # t =>
       head'[RepairSlot(u)] = head[RepairSlot(u)] /\ LatestOf(u)' = LatestOf(u)
  /\ \A u \in RepairTasks : head[RepairSlot(u)] \in Nat
  /\ mine'[x] = mine[x] \union {t} /\ known'[x] = known[x]
  /\ \A y \in Sessions : y # x => SameSession(y)

LEMMA WriteIsSeen ==
  ASSUME TypeOK, RepairTypeOK, NEW x \in Sessions, WriteVersion(x)
  PROVE  /\ \E t, a : WriteSeen(x, t, a)
         /\ Executing(x) /\ Busy(x) /\ place[x] = "writing"
<1>0. place[x] = "writing" /\ Executing(x) /\ Busy(x) /\ Round(x) = rounds[x] + 1
  BY DEF WriteVersion, Executing, Busy, Round
<1>1. PICK t, r, a, v : /\ t = Current(x) /\ r = rounds[x] + 1 /\ a = RepairId(x, r, t)
                        /\ v = head[RepairSlot(t)] + 1
  OBVIOUS
<1>2. /\ Written(x) /\ t \in todo[x] /\ t \in RepairTasks /\ a \in Artifacts
      /\ RepairSlot(t) \in Slots /\ v \in Versions /\ context[x].upstream \in SUBSET Artifacts
  BY <1>1, WriteIsWritten
<1>3. PICK parents : parents = context[x].upstream
  OBVIOUS
<1>4. /\ Effect(a, RepairSlot(t), v, parents) /\ known[x][t] = head[RepairSlot(t)]
      /\ mine'[x] = mine[x] \union {t} /\ known'[x] = known[x]
  BY <1>1, <1>2, <1>3 DEF Written
<1>5. a = MineId(x, t)
  BY <1>0, <1>1 DEF MineId
<1>6. \A u \in RepairTasks : head[RepairSlot(u)] \in Nat /\ RepairSlot(u) \in Slots
  BY DEF TypeOK
<1>7. head'[RepairSlot(t)] = v /\ logical'[RepairSlot(t)][v] = a /\ v # 0
  BY <1>1, <1>2, <1>4, <1>6 DEF Effect
<1>8. LatestOf(t)' = a
  BY <1>7 DEF LatestOf, Latest, Get, RepairSlot
<1>9. \A u \in RepairTasks : u # t => RepairSlot(u) # RepairSlot(t)
  BY DEF RepairSlot
<1>10. ASSUME NEW u \in RepairTasks, u # t
       PROVE  head'[RepairSlot(u)] = head[RepairSlot(u)] /\ LatestOf(u)' = LatestOf(u)
  <2>1. head'[RepairSlot(u)] = head[RepairSlot(u)]
    BY <1>4, <1>6, <1>9, <1>10 DEF Effect
  <2>2. head[RepairSlot(u)] # 0 => head[RepairSlot(u)] \in Versions
    BY <1>6 DEF TypeOK, Versions
  <2>3. head[RepairSlot(u)] # 0 =>
          logical'[RepairSlot(u)][head[RepairSlot(u)]] = logical[RepairSlot(u)][head[RepairSlot(u)]]
    BY <1>4, <1>6, <1>9, <1>10, <2>2 DEF Effect
  <2> QED
    BY <2>1, <2>3 DEF LatestOf, Latest, Get, RepairSlot
<1>11. record'[a].parents = context[x].upstream
  <2>1. record'[a] = [slot |-> RepairSlot(t), version |-> v, parents |-> parents]
    BY <1>4 DEF Effect
  <2> QED
    BY <1>3, <2>1
<1>12. ~ Stored(a) /\ \A b \in Artifacts : b # a => record'[b] = record[b]
  BY <1>4 DEF Effect
<1>13. \A y \in Sessions : y # x => SameSession(y)
  BY OthersStay DEF ExecuteStep
<1>14. WriteSeen(x, t, a)
  BY <1>1, <1>2, <1>4, <1>5, <1>6, <1>7, <1>8, <1>10, <1>11, <1>12, <1>13 DEF WriteSeen
<1> QED
  BY <1>0, <1>14

\* The tasks that are left end with the review, which is the last one.
LEMMA ReviewIsLast ==
  ASSUME RepairTypeOK, NEW x \in Sessions, RoundInv(x), Executing(x)
  PROVE  /\ "critic" \in todo[x]
         /\ LastTask(x) <=> Current(x) = "critic"
<1>1. /\ mine[x] \union todo[x] = Closure(seeds[x]) /\ seeds[x] # {}
      /\ \A t \in mine[x], u \in todo[x] : TaskOrder[t] < TaskOrder[u]
  BY DEF RoundInv, Busy
<1>2. /\ seeds[x] \in SUBSET RepairTasks /\ todo[x] \in SUBSET RepairTasks
      /\ mine[x] \in SUBSET RepairTasks
  BY DEF RepairTypeOK, AgentTasks, RepairTasks
<1>3. "critic" \in mine[x] \union todo[x]
  BY <1>1, <1>2, CriticInvalidated
<1>4. /\ Current(x) \in todo[x] /\ Current(x) \in RepairTasks
      /\ \A u \in todo[x] : u # Current(x) => TaskOrder[Current(x)] < TaskOrder[u]
  BY CurrentIsFirst
<1>5. /\ \A u \in RepairTasks : TaskOrder[u] \in Nat /\ TaskOrder[u] <= TaskOrder["critic"]
      /\ "critic" \in RepairTasks
  BY Ordered DEF RepairTasks
<1>6. "critic" \in todo[x]
  <2> SUFFICES ASSUME "critic" \in mine[x] PROVE FALSE
    BY <1>3
  <2>1. TaskOrder["critic"] < TaskOrder[Current(x)]
    BY <1>1, <1>4
  <2> QED
    BY <1>4, <1>5, <2>1
<1>7. ASSUME Current(x) = "critic" PROVE todo[x] = {"critic"}
  BY <1>2, <1>4, <1>5, <1>7
<1> QED
  BY <1>6, <1>7 DEF LastTask

\* A round goes on: what it wrote is its own, and touched for the others.
LEMMA SerialOfTask ==
  ASSUME TypeOK, VersionsAgree, RepairTypeOK, RoundsInv, SerialInv,
         NEW x \in Sessions, WriteVersion(x), ~ LastTask(x)
  PROVE  SerialInv'
<1>0. /\ Executing(x) /\ Busy(x) /\ place[x] = "writing" /\ RoundInv(x)
      /\ place'[x] = "ready" /\ rounds'[x] = rounds[x]
  BY WriteIsSeen, WriteIsWritten DEF RoundsInv, Written
<1>1. PICK t, a : WriteSeen(x, t, a)
  BY WriteIsSeen
<1> USE DEF WriteSeen
<1>2. Executing(x)' /\ Busy(x)' /\ Round(x)' = Round(x) /\ t # "critic"
  BY <1>0, <1>1, ReviewIsLast DEF Executing, Busy, Round
<1>3. \A u : MineId(x, u)' = MineId(x, u)
  BY <1>2 DEF MineId, RepairId
<1>4. ASSUME NEW y \in Sessions, y # x
      PROVE  /\ Busy(y)' = Busy(y) /\ Executing(y)' = Executing(y) /\ Current(y)' = Current(y)
             /\ \A u : MineId(y, u)' = MineId(y, u)
             /\ SameSession(y)
  BY <1>1, <1>4, SameDerived
<1>5. /\ \A y \in Sessions : \A u : ByAnother(y, u) => ByAnother(y, u)'
      /\ \A u : Touched(u) => Touched(u)'
      /\ \A y \in Sessions : y # x => ByAnother(y, t)'
      /\ Touched(t)'
  <2>1. \A z \in Sessions : \A u : Busy(z) /\ u \in mine[z] => Busy(z)' /\ u \in mine'[z]
    BY <1>0, <1>1, <1>2, <1>4 DEF SameSession
  <2>2. Busy(x)' /\ t \in mine'[x]
    BY <1>1, <1>2
  <2> QED
    BY <2>1, <2>2 DEF ByAnother, Touched
<1>6. "critic" \in RepairTasks /\ head'[ReviewSlot] = head[ReviewSlot] /\ Reviewed /\ Reviewed'
  <2>1. "critic" \in RepairTasks
    BY DEF RepairTasks
  <2>2. head'[ReviewSlot] = head[ReviewSlot]
    BY <1>1, <1>2, <2>1 DEF ReviewSlot
  <2>3. Reviewed
    BY <1>0 DEF SerialInv, StartInv
  <2> QED
    BY <2>1, <2>2, <2>3 DEF Reviewed, ReviewSlot, RepairSlot
<1>7. StartInv'
  BY <1>1, <1>6 DEF SerialInv, StartInv, RepairSlot
<1>8. KnownInv'
  <2> SUFFICES ASSUME NEW y \in Sessions, NEW u \in RepairTasks, Executing(y)'
               PROVE  known'[y][u] <= head'[RepairSlot(u)]
    BY DEF KnownInv, RepairSlot
  <2>1. Executing(y) /\ known'[y] = known[y]
    BY <1>0, <1>1, <1>4 DEF SameSession
  <2>2. known[y][u] <= head[RepairSlot(u)] /\ known[y][u] \in Nat
    BY <2>1 DEF SerialInv, KnownInv, RepairTypeOK
  <2>3. head'[RepairSlot(u)] = head[RepairSlot(u)] \/ head'[RepairSlot(u)] = head[RepairSlot(u)] + 1
    BY <1>1
  <2> QED
    BY <1>1, <2>1, <2>2, <2>3
<1>9. ASSUME NEW y \in Sessions, Live(y)', y # x PROVE LiveInv(y)'
  <2>1. Live(y)
    BY <1>4, <1>6, <1>9 DEF Live, SameSession, ReviewSlot, RepairSlot
  <2>2. LiveInv(y) /\ RoundInv(y)
    BY <2>1 DEF SerialInv, LivesInv, RoundsInv
  <2>3. /\ mine'[y] = mine[y] /\ place'[y] = place[y] /\ context'[y] = context[y]
        /\ Current(y)' = Current(y) /\ \A u : MineId(y, u)' = MineId(y, u)
    BY <1>4, <1>9 DEF SameSession
  <2>4. \A u \in mine[y] : u \in RepairTasks /\ record'[MineId(y, u)] = record[MineId(y, u)]
    <3>1. \A u \in mine[y] : MineId(y, u) # a
      BY <1>1, <1>9, RepairIds DEF MineId
    <3> QED
      BY <1>1, <2>2, <3>1, MineIdType
  <2>5. ByAnother(y, t)'
    BY <1>5, <1>9
  <2>6. \A u \in RepairTasks : LatestOf(u)' = LatestOf(u) \/ ByAnother(y, u)'
    BY <1>1, <2>5
  <2>7. \A u \in mine'[y] : LatestOf(u)' = MineId(y, u)' \/ ByAnother(y, u)'
    BY <1>5, <2>2, <2>3, <2>4, <2>6 DEF LiveInv
  <2>8. \A u \in mine'[y], d \in RepairTasks :
          d \in TaskDeps[u] /\ d \notin mine'[y] =>
            LatestOf(d)' \in record'[MineId(y, u)'].parents \/ ByAnother(y, d)'
    BY <1>5, <2>2, <2>3, <2>4, <2>6 DEF LiveInv
  <2>9. place'[y] \in {"handling", "writing"} =>
          \A d \in RepairTasks :
            d \in TaskDeps[Current(y)'] /\ d \notin mine'[y] =>
              LatestOf(d)' \in context'[y].upstream \/ ByAnother(y, d)'
    BY <1>5, <2>2, <2>3, <2>6 DEF LiveInv
  <2> QED
    BY <2>7, <2>8, <2>9 DEF LiveInv
<1>10. ASSUME Live(x)' PROVE LiveInv(x)'
  <2>1. Live(x)
    BY <1>0, <1>1, <1>6, <1>10 DEF Live, ReviewSlot, RepairSlot
  <2>2. LiveInv(x)
    BY <2>1 DEF SerialInv, LivesInv
  <2>3. \A u \in mine[x] : /\ u \in RepairTasks /\ u # t
                           /\ record'[MineId(x, u)] = record[MineId(x, u)]
    <3>1. \A u \in mine[x] : Stored(MineId(x, u)) /\ MineId(x, u) \in Artifacts /\ u \in RepairTasks
      BY <1>0, MineIdType DEF RoundInv
    <3> QED
      BY <1>1, <3>1
  <2>4. \A u \in mine'[x] : LatestOf(u)' = MineId(x, u)' \/ ByAnother(x, u)'
    <3> SUFFICES ASSUME NEW u \in mine'[x] PROVE LatestOf(u)' = MineId(x, u) \/ ByAnother(x, u)'
      BY <1>3
    <3>1. CASE u = t
      BY <1>1, <3>1
    <3>2. CASE u # t
      <4>1. u \in mine[x] /\ u \in RepairTasks
        BY <1>1, <2>3, <3>2
      <4> QED
        BY <1>1, <1>5, <2>2, <3>2, <4>1 DEF LiveInv
    <3> QED
      BY <3>1, <3>2
  <2>5. ASSUME NEW u \in mine'[x], NEW d \in RepairTasks, d \in TaskDeps[u], d \notin mine'[x]
        PROVE  LatestOf(d)' \in record'[MineId(x, u)'].parents \/ ByAnother(x, d)'
    <3>1. d # t /\ d \notin mine[x] /\ LatestOf(d)' = LatestOf(d)
      BY <1>1, <2>5
    <3>2. CASE u = t
      <4>1. LatestOf(d) \in context[x].upstream \/ ByAnother(x, d)
        BY <1>0, <1>1, <2>2, <2>5, <3>1, <3>2 DEF LiveInv
      <4> QED
        BY <1>1, <1>3, <1>5, <3>1, <3>2, <4>1
    <3>3. CASE u # t
      <4>1. u \in mine[x]
        BY <1>1, <3>3
      <4>2. LatestOf(d) \in record[MineId(x, u)].parents \/ ByAnother(x, d)
        BY <2>2, <2>5, <3>1, <4>1 DEF LiveInv
      <4> QED
        BY <1>3, <1>5, <2>3, <3>1, <4>1, <4>2
    <3> QED
      BY <3>2, <3>3
  <2> QED
    BY <1>0, <2>4, <2>5 DEF LiveInv
<1>11. FreshInv'
  <2> SUFFICES ASSUME NEW u \in RepairTasks, NEW d \in RepairTasks, d \in TaskDeps[u]
               PROVE  BuiltFrom(u, d)' \/ Touched(u)' \/ Touched(d)'
    BY DEF FreshInv
  <2>1. CASE u = t \/ d = t
    BY <1>5, <2>1
  <2>2. CASE u # t /\ d # t
    <3>1. BuiltFrom(u, d) \/ Touched(u) \/ Touched(d)
      BY <1>6 DEF SerialInv, FreshInv
    <3>2. LatestOf(u) \in Artifacts /\ Stored(LatestOf(u))
      BY <1>6, LatestIs DEF SerialInv, StartInv
    <3>3. BuiltFrom(u, d)' = BuiltFrom(u, d)
      BY <1>1, <2>2, <3>2 DEF BuiltFrom
    <3> QED
      BY <1>5, <3>1, <3>3
  <2> QED
    BY <2>1, <2>2
<1> QED
  BY <1>7, <1>8, <1>9, <1>10, <1>11 DEF SerialInv, LivesInv

\* A round is completed: the others that are busy will fail, and what it did not
\* rebuild does not depend on what it did.
LEMMA SerialOfReview ==
  ASSUME TypeOK, VersionsAgree, RepairTypeOK, RoundsInv, SerialInv,
         NEW x \in Sessions, WriteVersion(x), LastTask(x)
  PROVE  SerialInv'
<1>0. /\ Executing(x) /\ Busy(x) /\ place[x] = "writing" /\ RoundInv(x) /\ place'[x] = "review"
  BY WriteIsSeen, WriteIsWritten DEF RoundsInv, Written
<1>1. PICK t, a : WriteSeen(x, t, a)
  BY WriteIsSeen
<1> USE DEF WriteSeen
<1>2. t = "critic" /\ todo[x] = {t} /\ "critic" \in RepairTasks /\ ~ Executing(x)'
  BY <1>0, <1>1, ReviewIsLast DEF Executing, LastTask, RepairTasks
<1>3. ASSUME NEW y \in Sessions, y # x
      PROVE  /\ Busy(y)' = Busy(y) /\ Executing(y)' = Executing(y)
             /\ SameSession(y)
  BY <1>1, <1>3, SameDerived
<1>4. Reviewed /\ Reviewed'
  <2>1. Reviewed
    BY <1>0 DEF SerialInv, StartInv
  <2> QED
    BY <1>1, <1>2, <2>1 DEF Reviewed, RepairSlot
<1>5. StartInv'
  BY <1>1, <1>4 DEF SerialInv, StartInv, RepairSlot
<1>6. ASSUME NEW y \in Sessions, NEW u \in RepairTasks, Executing(y)'
      PROVE  /\ known'[y] = known[y] /\ known[y][u] <= head[RepairSlot(u)] /\ known[y][u] \in Nat
             /\ known'[y][u] <= head'[RepairSlot(u)]
  <2>1. Executing(y) /\ known'[y] = known[y]
    BY <1>0, <1>1, <1>3, <1>6 DEF SameSession
  <2>2. known[y][u] <= head[RepairSlot(u)] /\ known[y][u] \in Nat
    BY <2>1 DEF SerialInv, KnownInv, RepairTypeOK
  <2>3. head'[RepairSlot(u)] = head[RepairSlot(u)] \/ head'[RepairSlot(u)] = head[RepairSlot(u)] + 1
    BY <1>1
  <2> QED
    BY <1>1, <2>1, <2>2, <2>3
<1>7. KnownInv'
  BY <1>6 DEF KnownInv, RepairSlot
<1>8. LivesInv'
  <2> SUFFICES ASSUME NEW y \in Sessions, Live(y)' PROVE FALSE
    BY DEF LivesInv
  <2>1. Executing(y)' /\ known'[y]["critic"] = head'[ReviewSlot]
    BY DEF Live, ReviewSlot, RepairSlot
  <2>2. head'[ReviewSlot] = head[ReviewSlot] + 1 /\ head[ReviewSlot] \in Nat
    BY <1>1, <1>2 DEF ReviewSlot
  <2>3. known[y]["critic"] <= head[ReviewSlot] /\ known'[y] = known[y] /\ known[y]["critic"] \in Nat
    BY <1>2, <1>6, <2>1 DEF ReviewSlot
  <2> QED
    BY <2>1, <2>2, <2>3
<1>9. LiveInv(x)
  BY <1>0, <1>1, <1>2 DEF SerialInv, LivesInv, Live, ReviewSlot
<1>10. mine'[x] = Closure(seeds[x]) /\ seeds[x] \in SUBSET RepairTasks /\ mine[x] \in SUBSET RepairTasks
  <2>1. seeds[x] \in SUBSET RepairTasks /\ mine[x] \in SUBSET RepairTasks
    BY DEF RepairTypeOK, AgentTasks, RepairTasks
  <2> QED
    BY <1>0, <1>1, <1>2, <2>1 DEF RoundInv
<1>11. \A u : ByAnother(x, u) => Touched(u)'
  BY <1>3 DEF ByAnother, Touched, SameSession
<1>12. \A u \in mine[x] : /\ u # t
                          /\ record'[MineId(x, u)] = record[MineId(x, u)]
  <2>1. \A u \in mine[x] : Stored(MineId(x, u)) /\ MineId(x, u) \in Artifacts
    BY <1>0, MineIdType DEF RoundInv
  <2> QED
    BY <1>1, <2>1
<1>13. FreshInv'
  <2> SUFFICES ASSUME NEW u \in RepairTasks, NEW d \in RepairTasks, d \in TaskDeps[u],
                      ~ Touched(u)', ~ Touched(d)'
               PROVE  BuiltFrom(u, d)'
    BY DEF FreshInv
  <2>1. ~ ByAnother(x, u) /\ ~ ByAnother(x, d)
    BY <1>11
  <2>2. d # t /\ LatestOf(d)' = LatestOf(d)
    <3>1. TaskOrder[d] < TaskOrder[u] /\ TaskOrder[u] <= TaskOrder["critic"]
          /\ TaskOrder[d] \in Nat /\ TaskOrder[u] \in Nat /\ TaskOrder["critic"] \in Nat
      BY <1>2, Ordered
    <3>2. d # t
      BY <1>2, <3>1
    <3> QED
      BY <1>1, <3>2
  <2>3. ASSUME u = t PROVE LatestOf(d) \in record'[LatestOf(u)'].parents
    <3>1. LatestOf(d) \in context[x].upstream
      <4>1. CASE d \in mine[x]
        <5>1. LatestOf(d) = MineId(x, d)
          BY <1>9, <2>1, <4>1 DEF LiveInv
        <5>2. MineId(x, d) \in context[x].upstream
          BY <1>0, <1>1, <2>3, <4>1 DEF RoundInv
        <5> QED
          BY <5>1, <5>2
      <4>2. CASE d \notin mine[x]
        BY <1>0, <1>1, <1>9, <2>1, <2>3, <4>2 DEF LiveInv
      <4> QED
        BY <4>1, <4>2
    <3> QED
      BY <1>1, <2>3, <3>1
  <2>4. ASSUME u \in mine[x] PROVE LatestOf(d) \in record'[LatestOf(u)'].parents
    <3>1. LatestOf(u) = MineId(x, u) /\ LatestOf(u)' = LatestOf(u)
      BY <1>1, <1>9, <1>12, <2>1, <2>4 DEF LiveInv
    <3>2. LatestOf(d) \in record[MineId(x, u)].parents
      <4>1. CASE d \in mine[x]
        <5>1. LatestOf(d) = MineId(x, d)
          BY <1>9, <2>1, <4>1 DEF LiveInv
        <5>2. MineId(x, d) \in record[MineId(x, u)].parents
          BY <1>0, <2>4, <4>1 DEF RoundInv
        <5> QED
          BY <5>1, <5>2
      <4>2. CASE d \notin mine[x]
        BY <1>9, <2>1, <2>4, <4>2 DEF LiveInv
      <4> QED
        BY <4>1, <4>2
    <3> QED
      BY <1>12, <2>4, <3>1, <3>2
  <2>5. ASSUME u \notin mine'[x] PROVE LatestOf(d) \in record'[LatestOf(u)'].parents
    <3>1. u # t /\ u \notin mine[x] /\ d \notin mine[x]
      <4>1. u # t /\ u \notin mine[x]
        BY <1>1, <2>5
      <4>2. d \notin Closure(seeds[x])
        BY <1>10, <2>5, ClosureIsClosed
      <4> QED
        BY <1>1, <1>10, <4>1, <4>2
    <3>2. ~ Touched(u) /\ ~ Touched(d)
      BY <2>1, <3>1 DEF Touched, ByAnother
    <3>3. BuiltFrom(u, d)
      BY <1>4, <3>2 DEF SerialInv, FreshInv
    <3>4. LatestOf(u) \in Artifacts /\ Stored(LatestOf(u))
      BY <1>4, LatestIs DEF SerialInv, StartInv
    <3> QED
      BY <1>1, <3>1, <3>3, <3>4 DEF BuiltFrom
  <2>6. u = t \/ u \in mine[x] \/ u \notin mine'[x]
    BY <1>1
  <2> QED
    BY <2>2, <2>3, <2>4, <2>5, <2>6 DEF BuiltFrom
<1> QED
  BY <1>5, <1>7, <1>8, <1>13 DEF SerialInv

LEMMA SerialStep ==
  ASSUME ~ HandlerLooks, TripIInv, TripIInv', RoundsInv, SerialInv, [TripNext]_tripVars
  PROVE  SerialInv'
<1>0. TypeOK /\ VersionsAgree /\ RepairTypeOK
  BY DEF TripIInv, IInv
<1>1. ASSUME UNCHANGED <<vars, repairVars>> PROVE SerialInv'
  <2>1. \A x \in Sessions : SameSession(x)
    BY <1>1 DEF repairVars, SameSession
  <2>2. SameBoard
    BY <1>1 DEF vars, SameBoard, LatestOf, Latest, Get, RepairSlot
  <2> QED
    BY <1>0, <2>1, <2>2, SerialStays
<1>2. ASSUME NEW c \in Calls, NEW t \in Tasks, Publish(c, t), UNCHANGED repairVars
      PROVE  SerialInv'
  BY <1>2, SerialOfCall
<1>3. ASSUME NEW x \in Sessions, PlanStep(x) \/ ExecuteStep(x) PROVE SerialInv'
  <2>1. CASE PlanStep(x)
    BY <1>0, <2>1, SerialOfPlan
  <2>2. CASE WriteVersion(x)
    BY <1>0, <2>2, SerialOfTask, SerialOfReview
  <2>3. CASE CallHandler(x) \/ HandlerReturns(x)
    BY <1>0, <2>3, SerialOfHandler
  <2>4. CASE RepairFails(x) \/ WriteRefused(x)
    BY <1>0, <2>4, SerialOfFailure
  <2> QED
    BY <1>3, <2>1, <2>2, <2>3, <2>4 DEF ExecuteStep
<1> QED
  BY <1>1, <1>2, <1>3
     DEF TripNext, CallStep, RepairStep, BeginCall, TaskEnds, ServiceFails, PublishRefused, Fail,
         tripVars

LEMMA InitSerial == TripInit => SerialInv
<1> SUFFICES ASSUME TripInit PROVE SerialInv
  OBVIOUS
<1>1. /\ \A x \in Sessions : place[x] = "review" /\ ~ Executing(x)
      /\ \A t \in RepairTasks : head[RepairSlot(t)] = 0
  BY DEF TripInit, Init, RepairInit, Executing
<1>2. ~ Reviewed
  BY <1>1 DEF Reviewed, RepairTasks
<1> QED
  BY <1>1, <1>2 DEF SerialInv, StartInv, KnownInv, LivesInv, Live, FreshInv

\* With handlers that number their artifact after what the plan knew, no update
\* is lost unnoticed, however many sessions overlap: when nobody is at work and
\* nobody was told of a failure, every latest artifact is built from the latest
\* ones it depends on (TargetedRepairController.execute).
THEOREM StaleIsReported == ~ HandlerLooks => (TripSpec => []StaleOnlyIfReported)
<1> SUFFICES ASSUME ~ HandlerLooks PROVE TripSpec => []StaleOnlyIfReported
  OBVIOUS
<1>1. TripIInv /\ RoundsInv /\ SerialInv /\ TripIInv' /\ [TripNext]_tripVars => SerialInv'
  BY SerialStep
<1>2. SerialInv => StaleOnlyIfReported
  <2> SUFFICES ASSUME SerialInv, Reviewed,
                      \A x \in Sessions : ~ Executing(x) /\ place[x] # "failed",
                      NEW t \in RepairTasks, NEW d \in TaskDeps[t]
               PROVE  BuiltFrom(t, d)
    BY DEF StaleOnlyIfReported, BuiltFrom, LatestOf
  <2>1. d \in RepairTasks
    BY Ordered
  <2>2. ~ Touched(t) /\ ~ Touched(d)
    BY DEF Touched, Busy
  <2> QED
    BY <2>1, <2>2 DEF SerialInv, FreshInv
<1> QED
  BY <1>1, <1>2, InitSerial, TripInvariance, RoundsInvariance, PTL DEF TripSpec
=============================================================================
