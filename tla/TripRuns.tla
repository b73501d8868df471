------------------------------ MODULE TripRuns ------------------------------
(***************************************************************************)
(* The run service of apps/api/run_service.py.  Its routes have no await,  *)
(* so that a request is served in one step.  The bundle of a version is    *)
(* abstracted to the instructions it was made with, in their order: these  *)
(* are its assumptions, and their number is its revision_rounds.           *)
(***************************************************************************)
EXTENDS Integers, Sequences, FiniteSets

CONSTANTS
  Runs,            \* run ids, each given to one run at most
  Keys,            \* idempotency keys
  Requests,        \* what a trip may be asked for
  Supported,       \* the requests that the fixture runner accepts
  Instructions,
  Unused, Deleted, \* an id before and after its run
  MaxClarified     \* bound on the runs with a clarification answer at a time

ASSUME SupportedAssumption == Supported \subseteq Requests

VARIABLES
  runs,            \* the stored run of each id
  idempotency      \* the run and the request of each key in use

serviceVars == <<runs, idempotency>>

MaxVersions == 3
NoEntry == [run |-> Unused]

\* A stored run: state, answers and current are fields of its resource; marked
\* are the versions that the history says are current.
StoredRuns ==
  [state : {"succeeded", "cancelled"}, available : BOOLEAN, request : Requests,
   answers : Nat, current : 1..MaxVersions, result : Seq(Instructions),
   versions : Seq(Seq(Instructions)), marked : SUBSET (1..MaxVersions)]

\* An id is in one of three states, and no id is the absence of one.
IdAssumption ==
  Unused # Deleted /\ Unused \notin Runs \union StoredRuns /\ Deleted \notin StoredRuns

ASSUME IdAssumption

ServiceInit ==
  /\ runs = [r \in Runs |-> Unused]
  /\ idempotency = [k \in Keys |-> NoEntry]

-----------------------------------------------------------------------------
\* _authorized, for callers with the token of the run.
Stored(r) == runs[r] \notin {Unused, Deleted}
Cancelled(r) == runs[r].state = "cancelled"

\* A new run has a result: the fixture bundle, as its version 1.
NewRun(request) ==
  [state |-> "succeeded", available |-> TRUE, request |-> request, answers |-> 0,
   current |-> 1, result |-> <<>>, versions |-> <<<<>>>>, marked |-> {1}]

KeyInUse(k) == idempotency[k] # NoEntry

Create(k, request, r) ==
  /\ request \in Supported
  /\ ~ KeyInUse(k)
  /\ runs[r] = Unused
  /\ runs' = [runs EXCEPT ![r] = NewRun(request)]
  /\ idempotency' = [idempotency EXCEPT ![k] = [run |-> r, request |-> request]]

\* The key was used for the same request: its run is answered once more.
CreatedBefore(k, request, r) ==
  request \in Supported /\ KeyInUse(k) /\ idempotency[k] = [run |-> r, request |-> request]

CreateRefused(k, request) ==
  request \notin Supported \/ (KeyInUse(k) /\ idempotency[k].request # request)

Cancel(r) ==
  /\ Stored(r)
  /\ runs' = [runs EXCEPT ![r].state = "cancelled", ![r].available = FALSE]
  /\ UNCHANGED idempotency

Clarify(r) ==
  /\ Stored(r) /\ ~ Cancelled(r)
  /\ Cardinality({q \in Runs : Stored(q) /\ runs[q].answers > 0}) < MaxClarified
  /\ runs' = [runs EXCEPT ![r].answers = @ + 1]
  /\ UNCHANGED idempotency

\* A mutant of Forgotten: the keys of a run outlive it.
KeysKept(r) == idempotency

Forgotten(r) ==
  [k \in Keys |-> IF idempotency[k].run = r THEN NoEntry ELSE idempotency[k]]

Delete(r) ==
  /\ Stored(r)
  /\ runs' = [runs EXCEPT ![r] = Deleted]
  /\ idempotency' = Forgotten(r)

\* A mutant of MayReplan: base_version need only exist.
MayReplanAny(r, base) ==
  /\ Stored(r) /\ ~ Cancelled(r)
  /\ Len(runs[r].versions) < MaxVersions
  /\ base # 0 => base \in DOMAIN runs[r].versions

\* base is the version that the caller names, or 0.
MayReplan(r, base) ==
  /\ Stored(r) /\ ~ Cancelled(r)
  /\ Len(runs[r].versions) < MaxVersions
  /\ base # 0 => base = runs[r].current

\* The next version is made from the current result, and becomes current.
Replanned(stored, instruction) ==
  LET bundle == Append(stored.result, instruction)
      next == Len(stored.versions) + 1
  IN [stored EXCEPT !.versions = Append(@, bundle), !.result = bundle,
                    !.marked = {next}, !.current = next]

Replan(r, base, instruction) ==
  /\ MayReplan(r, base)
  /\ runs' = [runs EXCEPT ![r] = Replanned(@, instruction)]
  /\ UNCHANGED idempotency

\* restore does not look at the state of the run.
MayRestore(r, v) == Stored(r) /\ v \in DOMAIN runs[r].versions

\* A mutant of Restored: the result stays that of the version before.
RestoredByNumber(stored, v) == [stored EXCEPT !.current = v, !.marked = {v}]

\* A mutant of Restored: the versions after it are undone.
RestoredByUndoing(stored, v) ==
  [stored EXCEPT !.result = stored.versions[v], !.current = v, !.marked = {v},
                 !.versions = SubSeq(@, 1, v)]

Restored(stored, v) ==
  [stored EXCEPT !.result = stored.versions[v], !.current = v,
                 !.marked = {v} \intersect DOMAIN stored.versions]

Restore(r, v) ==
  /\ MayRestore(r, v)
  /\ runs' = [runs EXCEPT ![r] = Restored(@, v)]
  /\ UNCHANGED idempotency

\* result, comparison and export.
ResultAvailable(r) == Stored(r) /\ runs[r].available

\* diff: the parts of two bundles that differ.  The activities change with the
\* first instruction that asks for a relaxed plan, and only then.
Relaxed(bundle) == \E i \in DOMAIN bundle : bundle[i] = "relaxed"
Diff(r, from, to) ==
  LET before == runs[r].versions[from]
      after == runs[r].versions[to]
  IN (IF from = to THEN {} ELSE {"generated_at"})
     \union (IF before = after THEN {} ELSE {"assumptions"})
     \union (IF Len(before) = Len(after) THEN {} ELSE {"collaboration_summary"})
     \union (IF Relaxed(before) = Relaxed(after) THEN {} ELSE {"plans", "comparison"})

-----------------------------------------------------------------------------
\* A stored run can be reached by exactly one key, and a key leads to a run
\* that is stored, also when runs are deleted and keys are used again
\* (create, delete).
OneKeyPerRun ==
  /\ \A k \in Keys : KeyInUse(k) => Stored(idempotency[k].run)
  /\ \A r \in Runs : Stored(r) => Cardinality({k \in Keys : idempotency[k].run = r}) = 1

\* Whatever was replanned and restored in whatever order: the result is that
\* of the current version, which is the only one marked in the history; every
\* version but the first was made from an earlier one with one instruction,
\* in at most two rounds (replan, restore).
HistoryIsConsistent ==
  \A r \in Runs : Stored(r) =>
    LET stored == runs[r] IN
    /\ stored.marked = {stored.current}
    /\ stored.current \in DOMAIN stored.versions
    /\ stored.result = stored.versions[stored.current]
    /\ stored.versions[1] = <<>>
    /\ \A v \in 2..Len(stored.versions) :
         /\ Len(stored.versions[v]) <= 2
         /\ \E u \in 1..(v - 1), i \in Instructions :
              stored.versions[v] = Append(stored.versions[u], i)

\* No step changes or drops a version of a run that stays, and a cancelled
\* run stays cancelled, without a result of its own and without new versions.
VersionsArePermanent ==
  [][\A r \in Runs : Stored(r) /\ Stored(r)' =>
       /\ Len(runs[r].versions) <= Len(runs[r].versions)'
       /\ \A v \in DOMAIN runs[r].versions : runs[r].versions[v] = runs[r].versions[v]'
       /\ Cancelled(r) =>
            Cancelled(r)' /\ ~ runs[r].available' /\ runs[r].versions = runs[r].versions'
    ]_serviceVars
=============================================================================
