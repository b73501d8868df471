-------------------------- MODULE BlackboardLineage --------------------------
(***************************************************************************)
(* The lineage query of the Blackboard: a depth-first walk over the        *)
(* parents that lists an artifact after its ancestors.                     *)
(***************************************************************************)
EXTENDS Blackboard, SequencesExt

\* The ids in _records.
Stock == {a \in Artifacts : Stored(a)}

\* Mutant of Visited: an artifact that is reached twice is listed twice.
NeverVisited(ordered, a) == FALSE

\* `ordered` stands for the visited set, too.
Visited(ordered, a) == a \in ToSet(ordered)

\* The list after a visit to each of the parents.
After(visit, ordered, parents) ==
  LET after[i \in 0..Len(parents)] ==
        IF i = 0 THEN ordered ELSE visit[parents[i]][after[i - 1]]
  IN  after[Len(parents)]

\* visit of the code: for an artifact, what it makes of the list.
Visit[a \in Stock] ==
  [ordered \in Seq(Stock) |->
     IF Visited(ordered, a) THEN ordered
     ELSE Append(After(Visit, ordered, SetToSeq(record[a].parents)), a)]

Lineage(a) == Visit[a][<<>>]

\* The reference definition: what every set around a and closed under parents
\* contains.
Ancestry(a) ==
  {b \in Artifacts : \A S \in SUBSET Artifacts :
     a \in S /\ (\A c \in S : Stored(c) => record[c].parents \subseteq S) => b \in S}

\* lineage lists an artifact and its ancestors, each once and after all its
\* parents, however the parents of different tasks overlap.
LineageIsTopological ==
  \A a \in Artifacts : Stored(a) =>
    LET order == Lineage(a) IN
      /\ ToSet(order) = Ancestry(a)
      /\ IsInjective(order)
      /\ \A i \in DOMAIN order : \A p \in record[order[i]].parents :
           \E j \in 1..(i - 1) : order[j] = p
=============================================================================
