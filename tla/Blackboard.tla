----------------------------- MODULE Blackboard -----------------------------
(***************************************************************************)
(* The versioned artifact store of packages/harness/blackboard.py.         *)
(*                                                                         *)
(* Any number of agents write at the same time; a write holds the lock     *)
(* (memory) or the row lock of the artifact head (PostgreSQL) from its     *)
(* first check to its last assignment and is one action here.  A writer    *)
(* took its idea of the latest version from an earlier read, so the        *)
(* version, the expected version and the parents it writes with are        *)
(* arbitrary.  A refused write changes nothing.                            *)
(*                                                                         *)
(* A slot is what the code calls a head key: run, task and artifact type.  *)
(* Payloads and their hash are left out.                                   *)
(***************************************************************************)
EXTENDS Integers

CONSTANTS
  Artifacts,   \* artifact ids
  NoArtifact,  \* what a lookup of a missing version finds
  Slots,       \* (run_id, task_id, artifact_type)
  RunOf,       \* the run of a slot
  MaxVersion   \* bound: the highest version a writer tries

ASSUME BlackboardAssumption ==
  /\ NoArtifact \notin Artifacts
  /\ MaxVersion \in Nat

Versions == 1..MaxVersion

\* An ArtifactRecord without its payload.
Records == [slot : Slots, version : Versions, parents : SUBSET Artifacts]

CONSTANT NoRecord  \* the value of an id that is not in _records
ASSUME NoRecordAssumption == NoRecord \notin Records

VARIABLES
  record,   \* _records: the record of an artifact id
  logical,  \* _logical: the artifact id of a slot and version
  head      \* _heads: the latest version of a slot, 0 without any

vars == <<record, logical, head>>

Stored(a) == record[a] # NoRecord

Init ==
  /\ record = [a \in Artifacts |-> NoRecord]
  /\ logical = [s \in Slots |-> [v \in Versions |-> NoArtifact]]
  /\ head = [s \in Slots |-> 0]

\* Mutant of FollowsHead: only what the writer expected is compared.
ExpectsHead(s, version, expected) == expected = head[s]

\* The optimistic test: nobody has written since the writer looked, and the
\* record it brings has the next number.
FollowsHead(s, version, expected) ==
  expected = head[s] /\ version = head[s] + 1

NewId(a, s) == ~ Stored(a)

\* Lineage points to stored artifacts of the same run.
ParentsKnown(a, s, parents) ==
  \A p \in parents : Stored(p) /\ RunOf[record[p].slot] = RunOf[s]

NewHead(version) == version

Write(a, s, version, parents, expected) ==
  /\ FollowsHead(s, version, expected)
  /\ NewId(a, s)
  /\ ParentsKnown(a, s, parents)
  /\ record' = [record EXCEPT ![a] =
                  [slot |-> s, version |-> version, parents |-> parents]]
  /\ logical' = [logical EXCEPT ![s][version] = a]
  /\ head' = [head EXCEPT ![s] = NewHead(version)]

Next ==
  \E a \in Artifacts, s \in Slots, version \in Versions,
     parents \in SUBSET Artifacts, expected \in 0..MaxVersion :
       Write(a, s, version, parents, expected)

Spec == Init /\ [][Next]_vars

\* get and latest of the code: the id they find, or NoArtifact.
Get(s, version) == logical[s][version]
Latest(s) == IF head[s] = 0 THEN NoArtifact ELSE Get(s, head[s])

-----------------------------------------------------------------------------
\* Every variable stays in its type.
TypeOK ==
  /\ record \in [Artifacts -> Records \union {NoRecord}]
  /\ logical \in [Slots -> [Versions -> Artifacts \union {NoArtifact}]]
  /\ head \in [Slots -> 0..MaxVersion]

\* The three dictionaries agree: the versions of a slot are 1 up to its head
\* without a gap, every lookup finds the record it asks for, and every stored
\* record is found; so no two writers ever got the same version of a slot.
VersionsAgree ==
  /\ \A s \in Slots, v \in Versions :
       /\ v <= head[s] <=> Get(s, v) # NoArtifact
       /\ Get(s, v) # NoArtifact =>
            /\ Stored(Get(s, v))
            /\ record[Get(s, v)].slot = s /\ record[Get(s, v)].version = v
  /\ \A a \in Artifacts : Stored(a) => Get(record[a].slot, record[a].version) = a

\* Every parent is stored and belongs to the run of its child.
LineageClosed ==
  \A a \in Artifacts : Stored(a) =>
    \A p \in record[a].parents :
      Stored(p) /\ RunOf[record[p].slot] = RunOf[record[a].slot]

\* No artifact is its own ancestor: among any artifacts one has no parent
\* there.  The recursion of lineage ends because of this.
LineageAcyclic ==
  \A S \in SUBSET {a \in Artifacts : Stored(a)} :
    S # {} => \E a \in S : record[a].parents \intersect S = {}

\* What a consumer was told once stays: a stored record, and what is found
\* under a slot and version, never change, and no version is taken back.
PublishedIsImmutable ==
  [][/\ \A a \in Artifacts : Stored(a) => record'[a] = record[a]
     /\ \A s \in Slots :
          /\ head'[s] >= head[s]
          /\ \A v \in Versions : Get(s, v) # NoArtifact => Get(s, v)' = Get(s, v)]_vars

\* The blackboard keeps a log of versions for every slot.
Log == INSTANCE ArtifactLog WITH
         log <- [s \in Slots |-> [v \in 1..head[s] |-> logical[s][v]]]

\* Whatever the writers bring, a slot is an append-only log of artifacts.
ImplementsLog == Log!Spec
=============================================================================
