--------------------------- MODULE ServiceProofs ---------------------------
(***************************************************************************)
(* Theorems about the two ends of the service that others rely on: the run *)
(* API with its clients (TripRuns and RunClients), for any runs, keys,     *)
(* requests, instructions and tabs, and the delivery of events (Outbox),   *)
(* for any events, keys, publishers, lease lengths, batch sizes and any    *)
(* number of faults.  They share nothing, and each has an invariant.       *)
(*                                                                         *)
(* The run service has one of its own, ServiceInv: what the keys lead to   *)
(* (KeysInv) and what the history of a run is (RunsInv).  The clients add  *)
(* ClientInv: a view, wherever it is (on display, in a request or in an    *)
(* answer), is a view of a version that its run still has, if the run is   *)
(* there.  It is kept because no step of the service changes a version and *)
(* because no id is used again (RunEffect).                                *)
(*                                                                         *)
(* That of the outbox ties the place of a publisher in drain_once to the   *)
(* rows it leased (DrainInv).                                              *)
(***************************************************************************)
EXTENDS RunClients, Outbox, FiniteSetTheorems, SequenceTheorems, TLAPS

-----------------------------------------------------------------------------
(* The run API and its clients *)

\* What a step of the service does, whoever asks for it.
Change(r) ==
  \/ Cancel(r) \/ Clarify(r)
  \/ \E base \in 0..MaxVersions, i \in Instructions : Replan(r, base, i)
  \/ \E v \in 1..MaxVersions : Restore(r, v)

ServiceNext ==
  \/ \E k \in Keys, request \in Requests, r \in Runs : Create(k, request, r)
  \/ \E r \in Runs : Delete(r) \/ Change(r)

KeysInv ==
  /\ idempotency \in [Keys -> {NoEntry} \union [run : Runs, request : Requests]]
  /\ \A k \in Keys : KeyInUse(k) => Stored(idempotency[k].run)
  /\ \A r \in Runs : Stored(r) =>
       \E k \in Keys : \A j \in Keys : idempotency[j].run = r <=> j = k

History(record) ==
  /\ record.current \in DOMAIN record.versions
  /\ Len(record.versions) <= MaxVersions
  /\ record.marked = {record.current}
  /\ record.result = record.versions[record.current]
  /\ record.versions[1] = <<>>
  /\ \A v \in 1..Len(record.versions) : Len(record.versions[v]) <= v - 1
  /\ \A v \in 2..Len(record.versions) : \E u \in 1..(v - 1), i \in Instructions :
       record.versions[v] = Append(record.versions[u], i)
  /\ record.state = "cancelled" => ~ record.available

RunsInv ==
  /\ runs \in [Runs -> {Unused, Deleted} \union StoredRuns]
  /\ \A r \in Runs : Stored(r) => History(runs[r])

ServiceInv == KeysInv /\ RunsInv

\* A run that stays keeps its versions, in their places.
Continues(before, after) ==
  /\ after \in StoredRuns
  /\ History(after)
  /\ Len(before.versions) <= Len(after.versions)
  /\ \A v \in DOMAIN before.versions : before.versions[v] = after.versions[v]
  /\ before.state = "cancelled" =>
       after.state = "cancelled" /\ before.versions = after.versions

RunEffect(r) ==
  \/ runs'[r] = runs[r]
  \/ runs[r] = Unused /\ \E request \in Requests : runs'[r] = NewRun(request)
  \/ Stored(r) /\ runs'[r] = Deleted
  \/ Stored(r) /\ Continues(runs[r], runs'[r])

LEMMA StoredIsRecord ==
  ASSUME RunsInv, NEW r \in Runs, Stored(r)
  PROVE  runs[r] \in StoredRuns /\ History(runs[r])
  BY DEF RunsInv, Stored

\* The updates that the operations make keep the type of a stored run.
LEMMA Updated ==
  ASSUME NEW record \in StoredRuns
  PROVE  /\ \A n \in Nat : [record EXCEPT !.answers = n] \in StoredRuns
         /\ \A bundle \in Seq(Instructions), v \in 1..MaxVersions :
              [record EXCEPT !.result = bundle, !.current = v, !.marked = {v}] \in StoredRuns
         /\ \A versions \in Seq(Seq(Instructions)) :
              [record EXCEPT !.versions = versions] \in StoredRuns
  BY DEF StoredRuns

LEMMA VersionTyped ==
  ASSUME NEW record \in StoredRuns, History(record), NEW v \in DOMAIN record.versions
  PROVE  v \in 1..MaxVersions /\ record.versions[v] \in Seq(Instructions)
<1>1. record.versions \in Seq(Seq(Instructions)) /\ Len(record.versions) <= MaxVersions
  BY DEF StoredRuns, History
<1> QED
  BY <1>1 DEF MaxVersions

LEMMA NewRunIsStored ==
  ASSUME NEW request \in Requests
  PROVE  NewRun(request) \in StoredRuns /\ History(NewRun(request))
<1>1. <<>> \in Seq(Instructions) /\ <<<<>>>> \in Seq(Seq(Instructions))
  OBVIOUS
<1>2. NewRun(request) \in StoredRuns
  BY <1>1 DEF NewRun, StoredRuns, MaxVersions
<1>3. History(NewRun(request))
  BY DEF NewRun, History, MaxVersions
<1> QED
  BY <1>2, <1>3

LEMMA ReplannedContinues ==
  ASSUME NEW record \in StoredRuns, History(record), Len(record.versions) < MaxVersions,
         record.state # "cancelled", NEW i \in Instructions
  PROVE  Continues(record, Replanned(record, i))
<1> DEFINE bundle == Append(record.result, i)
           next == Len(record.versions) + 1
           after == Replanned(record, i)
           versions == Append(record.versions, bundle)
<1>1. /\ after = [record EXCEPT !.versions = versions, !.result = bundle,
                                !.marked = {next}, !.current = next]
      /\ record.versions \in Seq(Seq(Instructions)) /\ record.result \in Seq(Instructions)
  BY DEF Replanned, StoredRuns
<1>2. bundle \in Seq(Instructions) /\ versions \in Seq(Seq(Instructions))
  BY <1>1
<1>3. next \in 1..MaxVersions
  BY <1>1 DEF MaxVersions
<1>4. /\ after.versions = versions /\ after.result = bundle
      /\ after.marked = {next} /\ after.current = next
      /\ after.state = record.state /\ after.available = record.available
  BY <1>1 DEF StoredRuns
<1>5. after \in StoredRuns
  <2> DEFINE longer == [record EXCEPT !.versions = versions]
  <2>1. longer \in StoredRuns
    BY <1>2, Updated
  <2>2. after = [longer EXCEPT !.result = bundle, !.current = next, !.marked = {next}]
    BY <1>1 DEF StoredRuns
  <2> HIDE DEF longer, after
  <2> QED
    BY <1>2, <1>3, <2>1, <2>2, Updated
<1>6. /\ Len(versions) = next /\ versions[next] = bundle
      /\ \A v \in 1..Len(record.versions) : versions[v] = record.versions[v]
      /\ DOMAIN versions = 1..next /\ DOMAIN record.versions = 1..Len(record.versions)
  BY <1>1, <1>2
<1>7. /\ record.current \in 1..Len(record.versions)
      /\ Len(bundle) = Len(record.result) + 1
      /\ bundle = Append(record.versions[record.current], i)
      /\ Len(bundle) \in Nat /\ Len(bundle) <= record.current
  <2>1. record.result = record.versions[record.current] /\ record.current \in 1..Len(record.versions)
    BY <1>6 DEF History
  <2>2. Len(record.result) <= record.current - 1
    BY <2>1 DEF History
  <2> QED
    BY <1>1, <2>1, <2>2
<1>10. Len(record.versions) \in Nat /\ next = Len(record.versions) + 1 /\ next <= MaxVersions
  BY <1>1 DEF MaxVersions
<1>8. record.versions[1] = <<>>
  BY DEF History
<1>9. \A v \in 1..Len(record.versions) : Len(record.versions[v]) <= v - 1
  BY DEF History
<1> HIDE DEF versions, bundle, after, next
<1>11. History(after)
  <2>1. versions[1] = <<>>
    BY <1>8, <1>6, <1>7
  <2>2. ASSUME NEW v \in 1..Len(versions) PROVE Len(versions[v]) <= v - 1
    <3>1. CASE v = next
      BY <1>6, <1>7, <3>1, <1>10
    <3>2. CASE v \in 1..Len(record.versions)
      BY <1>6, <1>9, <3>2
    <3> QED
      BY <1>6, <1>10, <3>1, <3>2
  <2>3. ASSUME NEW v \in 2..Len(versions)
        PROVE  \E u \in 1..(v - 1), j \in Instructions : versions[v] = Append(versions[u], j)
    <3>1. CASE v = next
      <4>1. versions[record.current] = record.versions[record.current]
        BY <1>6, <1>7
      <4>2. record.current \in 1..(v - 1)
        BY <1>7, <1>10, <3>1
      <4> QED
        BY <1>6, <1>7, <3>1, <4>1, <4>2
    <3>2. CASE v \in 2..Len(record.versions)
      <4>1. PICK u \in 1..(v - 1), j \in Instructions : 
              record.versions[v] = Append(record.versions[u], j)
        BY <3>2 DEF History
      <4>2. u \in 1..Len(record.versions)
        BY <3>2, <1>10
      <4> QED
        BY <1>6, <3>2, <4>1, <4>2
    <3> QED
      BY <1>6, <1>10, <3>1, <3>2
  <2> QED
    <3>1. next \in DOMAIN versions /\ Len(versions) <= MaxVersions
      BY <1>6, <1>10
    <3> QED
      BY <1>4, <1>6, <2>1, <2>2, <2>3, <3>1 DEF History
<1> QED
  BY <1>4, <1>5, <1>6, <1>11, <1>10 DEF Continues, after

LEMMA RestoredContinues ==
  ASSUME NEW record \in StoredRuns, History(record), NEW v \in DOMAIN record.versions
  PROVE  Continues(record, Restored(record, v))
<1> DEFINE after == Restored(record, v)
<1>0. record.versions \in Seq(Seq(Instructions)) /\ Len(record.versions) <= MaxVersions
  BY DEF StoredRuns, History
<1>1. v \in 1..Len(record.versions) /\ v \in 1..MaxVersions
  BY <1>0 DEF MaxVersions
<1>2. record.versions[v] \in Seq(Instructions)
  BY <1>0, <1>1
<1>3. after = [record EXCEPT !.result = record.versions[v], !.current = v, !.marked = {v}]
  BY DEF Restored
<1>4. after \in StoredRuns
  <2> HIDE DEF after
  <2> QED
    BY <1>1, <1>2, <1>3, Updated
<1>5. /\ after.versions = record.versions /\ after.result = record.versions[v]
      /\ after.marked = {v} /\ after.current = v
      /\ after.state = record.state /\ after.available = record.available
  BY <1>3 DEF StoredRuns
<1>6. History(after)
  BY <1>5 DEF History
<1> QED
  BY <1>0, <1>4, <1>5, <1>6 DEF Continues

LEMMA ChangeEffect ==
  ASSUME RunsInv, NEW r \in Runs, Change(r)
  PROVE  /\ Stored(r)
         /\ Continues(runs[r], runs'[r])
         /\ runs' \in [Runs -> {Unused, Deleted} \union StoredRuns]
         /\ \A q \in Runs : q # r => runs'[q] = runs[q]
         /\ idempotency' = idempotency
<1>1. Stored(r)
  BY DEF Change, Cancel, Clarify, Replan, MayReplan, Restore, MayRestore
<1>2. runs[r] \in StoredRuns /\ History(runs[r])
  BY <1>1, StoredIsRecord
<1>3. runs \in [Runs -> {Unused, Deleted} \union StoredRuns]
  BY DEF RunsInv
<1>4. /\ \A q \in Runs : q # r => runs'[q] = runs[q]
      /\ DOMAIN runs' = Runs /\ runs' = [q \in Runs |-> runs'[q]]
      /\ idempotency' = idempotency
  BY <1>3 DEF Change, Cancel, Clarify, Replan, Restore
<1>5. Continues(runs[r], runs'[r])
  <2>1. CASE Cancel(r)
    <3>1. runs'[r] = [runs[r] EXCEPT !.state = "cancelled", !.available = FALSE]
      BY <1>3, <2>1 DEF Cancel
    <3>2. runs'[r] \in StoredRuns
      BY <1>2, <3>1 DEF StoredRuns
    <3>3. /\ runs'[r].versions = runs[r].versions /\ runs'[r].result = runs[r].result
          /\ runs'[r].marked = runs[r].marked /\ runs'[r].current = runs[r].current
          /\ runs'[r].state = "cancelled" /\ ~ runs'[r].available
      BY <1>2, <3>1 DEF StoredRuns
    <3>4. History(runs'[r])
      BY <1>2, <3>3 DEF History
    <3> QED
      BY <1>2, <3>2, <3>3, <3>4 DEF Continues, StoredRuns
  <2>2. CASE Clarify(r)
    <3>1. runs'[r] = [runs[r] EXCEPT !.answers = runs[r].answers + 1]
      BY <1>3, <2>2 DEF Clarify
    <3>2. runs'[r] \in StoredRuns
      <4>1. runs[r].answers + 1 \in Nat
        BY <1>2 DEF StoredRuns
      <4> QED
        BY <1>2, <3>1, <4>1, Updated
    <3>3. /\ runs'[r].versions = runs[r].versions /\ runs'[r].result = runs[r].result
          /\ runs'[r].marked = runs[r].marked /\ runs'[r].current = runs[r].current
          /\ runs'[r].state = runs[r].state /\ runs'[r].available = runs[r].available
      BY <1>2, <3>1 DEF StoredRuns
    <3>4. History(runs'[r])
      BY <1>2, <3>3 DEF History
    <3> QED
      BY <1>2, <3>2, <3>3, <3>4 DEF Continues, StoredRuns
  <2>3. ASSUME NEW base \in 0..MaxVersions, NEW i \in Instructions, Replan(r, base, i)
        PROVE  Continues(runs[r], runs'[r])
    <3>1. runs'[r] = Replanned(runs[r], i)
      BY <1>3, <2>3 DEF Replan
    <3>2. Len(runs[r].versions) < MaxVersions /\ runs[r].state # "cancelled"
      BY <2>3 DEF Replan, MayReplan, Cancelled
    <3> QED
      BY <1>2, <3>1, <3>2, ReplannedContinues
  <2>4. ASSUME NEW v \in 1..MaxVersions, Restore(r, v)
        PROVE  Continues(runs[r], runs'[r])
    <3>1. runs'[r] = Restored(runs[r], v) /\ v \in DOMAIN runs[r].versions
      BY <1>3, <2>4 DEF Restore, MayRestore
    <3> QED
      BY <1>2, <3>1, RestoredContinues
  <2> QED
    BY <2>1, <2>2, <2>3, <2>4 DEF Change
<1>6. runs' \in [Runs -> {Unused, Deleted} \union StoredRuns]
  <2>1. \A q \in Runs : runs'[q] \in {Unused, Deleted} \union StoredRuns
    BY <1>3, <1>4, <1>5 DEF Continues
  <2> QED
    BY <1>4, <2>1
<1> QED
  BY <1>1, <1>4, <1>5, <1>6

LEMMA ServiceEffect ==
  ASSUME RunsInv, ServiceNext \/ UNCHANGED serviceVars, NEW r \in Runs
  PROVE  RunEffect(r)
<1>1. CASE UNCHANGED serviceVars
  BY <1>1 DEF RunEffect, serviceVars
<1>2. ASSUME NEW k \in Keys, NEW request \in Requests, NEW q \in Runs, Create(k, request, q)
      PROVE  RunEffect(r)
  BY <1>2 DEF Create, RunEffect, RunsInv
<1>3. ASSUME NEW q \in Runs, Delete(q) PROVE RunEffect(r)
  BY <1>3 DEF Delete, RunEffect, RunsInv
<1>4. ASSUME NEW q \in Runs, Change(q) PROVE RunEffect(r)
  BY <1>4, ChangeEffect DEF RunEffect
<1> QED
  BY <1>1, <1>2, <1>3, <1>4 DEF ServiceNext

LEMMA InitServiceInv == ServiceInit => ServiceInv
<1> SUFFICES ASSUME ServiceInit PROVE ServiceInv
  OBVIOUS
<1>1. \A r \in Runs : ~ Stored(r)
  BY DEF ServiceInit, Stored
<1>2. RunsInv
  BY <1>1 DEF ServiceInit, RunsInv
<1>3. KeysInv
  BY <1>1 DEF ServiceInit, KeysInv, KeyInUse
<1> QED
  BY <1>2, <1>3 DEF ServiceInv

LEMMA RunsStep ==
  ASSUME RunsInv, ServiceNext \/ UNCHANGED serviceVars
  PROVE  RunsInv'
<1>1. runs' \in [Runs -> {Unused, Deleted} \union StoredRuns]
  <2>1. CASE UNCHANGED serviceVars
    BY <2>1 DEF RunsInv, serviceVars
  <2>2. ASSUME NEW k \in Keys, NEW request \in Requests, NEW r \in Runs, Create(k, request, r)
        PROVE  runs' \in [Runs -> {Unused, Deleted} \union StoredRuns]
    BY <2>2, NewRunIsStored DEF Create, RunsInv
  <2>3. ASSUME NEW r \in Runs, Delete(r)
        PROVE  runs' \in [Runs -> {Unused, Deleted} \union StoredRuns]
    BY <2>3 DEF Delete, RunsInv
  <2>4. ASSUME NEW r \in Runs, Change(r)
        PROVE  runs' \in [Runs -> {Unused, Deleted} \union StoredRuns]
    BY <2>4, ChangeEffect
  <2> QED
    BY <2>1, <2>2, <2>3, <2>4 DEF ServiceNext
<1>2. ASSUME NEW r \in Runs, Stored(r)' PROVE History(runs'[r])
  <2>1. RunEffect(r)
    BY ServiceEffect
  <2>2. CASE runs'[r] = runs[r]
    BY <1>2, <2>2 DEF RunsInv, Stored
  <2>3. ASSUME NEW request \in Requests, runs'[r] = NewRun(request) PROVE History(runs'[r])
    BY <2>3, NewRunIsStored
  <2>4. CASE runs'[r] = Deleted
    BY <1>2, <2>4 DEF Stored
  <2> QED
    BY <2>1, <2>2, <2>3, <2>4 DEF RunEffect, Continues
<1> QED
  BY <1>1, <1>2 DEF RunsInv

LEMMA Entries ==
  ASSUME KeysInv, NEW k \in Keys
  PROVE  /\ KeyInUse(k) <=> idempotency[k].run \in Runs
         /\ ~ KeyInUse(k) => idempotency[k].run = Unused
<1>1. CASE idempotency[k] = NoEntry
  BY <1>1, IdAssumption DEF IdAssumption, KeyInUse, NoEntry
<1>2. CASE idempotency[k] \in [run : Runs, request : Requests]
  <2>1. idempotency[k].run # Unused
    BY <1>2, IdAssumption DEF IdAssumption
  <2>2. NoEntry.run = Unused
    BY DEF NoEntry
  <2> QED
    BY <1>2, <2>1, <2>2 DEF KeyInUse
<1> QED
  BY <1>1, <1>2 DEF KeysInv

LEMMA KeysStep ==
  ASSUME KeysInv, RunsInv, ServiceNext \/ UNCHANGED serviceVars
  PROVE  KeysInv'
<1>1. CASE UNCHANGED serviceVars
  BY <1>1 DEF KeysInv, KeyInUse, Stored, serviceVars
<1>2. ASSUME NEW k \in Keys, NEW request \in Requests, NEW r \in Runs, Create(k, request, r)
      PROVE  KeysInv'
  <2>1. runs[r] = Unused /\ ~ KeyInUse(k)
    BY <1>2 DEF Create
  <2>2. /\ \A q \in Runs : q # r => runs'[q] = runs[q]
        /\ runs'[r] = NewRun(request)
    BY <1>2 DEF Create, RunsInv
  <2>3. Stored(r)'
    BY <2>2, NewRunIsStored, IdAssumption DEF Stored, IdAssumption
  <2>4. \A q \in Runs : q # r => (Stored(q)' <=> Stored(q))
    BY <2>2 DEF Stored
  <2>5. /\ \A j \in Keys : j # k => idempotency'[j] = idempotency[j]
        /\ idempotency'[k] = [run |-> r, request |-> request]
        /\ idempotency' \in [Keys -> {NoEntry} \union [run : Runs, request : Requests]]
    BY <1>2 DEF Create, KeysInv
  <2>6. ~ Stored(r)
    BY <2>1 DEF Stored
  <2>7. \A j \in Keys : idempotency[j].run # r
    BY <2>6, Entries DEF KeysInv
  <2>8. idempotency[k].run \notin Runs /\ idempotency'[k].run = r
    BY <2>1, <2>5, Entries
  <2>9. ASSUME NEW j \in Keys, KeyInUse(j)' PROVE Stored(idempotency[j].run)'
    <3>1. CASE j = k
      BY <2>3, <2>8, <3>1 DEF Stored
    <3>2. CASE j # k
      <4>1. KeyInUse(j) /\ idempotency'[j].run = idempotency[j].run
        BY <2>5, <2>9, <3>2 DEF KeyInUse
      <4>2. Stored(idempotency[j].run) /\ idempotency[j].run \in Runs
        BY <4>1, Entries DEF KeysInv
      <4> QED
        BY <2>4, <2>7, <4>1, <4>2 DEF Stored
    <3> QED
      BY <3>1, <3>2
  <2>10. ASSUME NEW q \in Runs, Stored(q)'
         PROVE  \E j \in Keys : \A i \in Keys : idempotency'[i].run = q <=> i = j
    <3>1. CASE q = r
      BY <2>5, <2>7, <2>8, <3>1
    <3>2. CASE q # r
      <4>1. PICK j \in Keys : \A i \in Keys : idempotency[i].run = q <=> i = j
        BY <2>4, <2>10, <3>2 DEF KeysInv
      <4>2. j # k
        BY <2>8, <4>1
      <4> QED
        BY <2>5, <2>8, <3>2, <4>1, <4>2
    <3> QED
      BY <3>1, <3>2
  <2> QED
    BY <2>5, <2>9, <2>10 DEF KeysInv
<1>3. ASSUME NEW r \in Runs, Delete(r) PROVE KeysInv'
  <2>1. /\ \A q \in Runs : q # r => runs'[q] = runs[q]
        /\ runs'[r] = Deleted
    BY <1>3 DEF Delete, RunsInv
  <2>2. ~ Stored(r)' /\ \A q \in Runs : q # r => (Stored(q)' <=> Stored(q))
    BY <2>1 DEF Stored
  <2>3. /\ \A j \in Keys : idempotency[j].run = r => idempotency'[j] = NoEntry
        /\ \A j \in Keys : idempotency[j].run # r => idempotency'[j] = idempotency[j]
        /\ idempotency' \in [Keys -> {NoEntry} \union [run : Runs, request : Requests]]
    BY <1>3 DEF Delete, Forgotten, KeysInv
  <2>4. ASSUME NEW j \in Keys, KeyInUse(j)' PROVE Stored(idempotency[j].run)'
    <3>1. idempotency[j].run # r /\ idempotency'[j] = idempotency[j]
      BY <2>3, <2>4 DEF KeyInUse
    <3>2. Stored(idempotency[j].run) /\ idempotency[j].run \in Runs
      BY <2>4, <3>1, Entries DEF KeysInv, KeyInUse
    <3> QED
      BY <2>1, <3>1, <3>2 DEF Stored
  <2>5. ASSUME NEW q \in Runs, Stored(q)'
        PROVE  \E j \in Keys : \A i \in Keys : idempotency'[i].run = q <=> i = j
    <3>1. q # r
      BY <2>2, <2>5
    <3>2. PICK j \in Keys : \A i \in Keys : idempotency[i].run = q <=> i = j
      BY <2>2, <2>5, <3>1 DEF KeysInv
    <3>3. NoEntry.run # q
      BY IdAssumption DEF IdAssumption, NoEntry
    <3> QED
      BY <2>3, <3>1, <3>2, <3>3
  <2> QED
    BY <2>3, <2>4, <2>5 DEF KeysInv
<1>4. ASSUME NEW r \in Runs, Change(r) PROVE KeysInv'
  <2>1. \A q \in Runs : Stored(q)' <=> Stored(q)
    BY <1>4, ChangeEffect, IdAssumption DEF Stored, Continues, IdAssumption
  <2>2. idempotency' = idempotency
    BY <1>4, ChangeEffect
  <2>3. \A j \in Keys : KeyInUse(j) => Stored(idempotency[j].run)'
    <3> SUFFICES ASSUME NEW j \in Keys, KeyInUse(j) PROVE Stored(idempotency[j].run)'
      OBVIOUS
    <3>1. Stored(idempotency[j].run) /\ idempotency[j].run \in Runs
      BY Entries DEF KeysInv
    <3> QED
      BY <2>1, <2>2, <3>1 DEF Stored
  <2> QED
    BY <2>1, <2>2, <2>3 DEF KeysInv, KeyInUse
<1> QED
  BY <1>1, <1>2, <1>3, <1>4 DEF ServiceNext

-----------------------------------------------------------------------------
\* A view of a version that its run has, if the run is there.
ViewOK(view) ==
  /\ view.run \in Runs /\ runs[view.run] # Unused
  /\ view.version \in 1..MaxVersions
  /\ view.bundle \in Seq(Instructions)
  /\ Stored(view.run) =>
       /\ view.version \in DOMAIN runs[view.run].versions
       /\ view.bundle = runs[view.run].versions[view.version]

TabOK(t) ==
  /\ tabs[t] = [session |-> tabs[t].session, shown |-> tabs[t].shown]
  /\ tabs[t].session # Nothing => tabs[t].session \in Runs
  /\ tabs[t].shown # Nothing => ViewOK(tabs[t].shown)

\* Only a tab with a session asks for more than a new run.
CallOK(call) ==
  /\ call.tab \in Tabs
  /\ call.op = "create" => call.key \in Keys /\ call.request \in Requests
  /\ call.op # "create" => call.run \in Runs /\ tabs[call.tab].session # Nothing
  /\ call.op = "replan" => ViewOK(call.seen) /\ call.instruction \in Instructions
  /\ call.op = "restore" => call.version \in 1..MaxVersions

AnswerOK(a) ==
  /\ CallOK(a.call)
  /\ a.view # Nothing =>
       /\ a.call.op = "create" => a.view.run \in Runs
       /\ a.call.op \in {"read", "replan", "restore"} => ViewOK(a.view)
       /\ a.call.op = "replan" =>
            /\ a.view.run = a.call.run
            /\ a.call.seen.run = a.call.run =>
                 a.view.bundle = Append(a.call.seen.bundle, a.call.instruction)

ClientInv ==
  /\ DOMAIN tabs = Tabs
  /\ \A t \in Tabs : TabOK(t)
  /\ \A call \in sent : CallOK(call)
  /\ \A a \in answers : AnswerOK(a)

AppInv == ServiceInv /\ ClientInv

\* Every step of the system is a step of the service or leaves it alone.
LEMMA ServiceSteps ==
  ASSUME ClientInv, AppNext \/ UNCHANGED appVars
  PROVE  ServiceNext \/ UNCHANGED serviceVars
<1>1. CASE UNCHANGED appVars
  BY <1>1 DEF appVars
<1>2. ASSUME NEW t \in Tabs, Submit(t) \/ SubmitInstruction(t) \/ PressRestore(t)
      PROVE  UNCHANGED serviceVars
  BY <1>2 DEF Submit, SubmitInstruction, PressRestore
<1>3. ASSUME NEW call \in sent, Serve(call) PROVE ServiceNext \/ UNCHANGED serviceVars
  <2>0. CallOK(call)
    BY DEF ClientInv
  <2>1. CASE ServeCreate(call)
    BY <2>0, <2>1 DEF ServeCreate, CallOK, ServiceNext
  <2>2. CASE ServeRead(call) \/ ServeRefresh(call)
    BY <2>2 DEF ServeRead, ServeRefresh
  <2>3. CASE ServeReplan(call)
    <3>1. call.run \in Runs /\ call.seen.version \in 0..MaxVersions /\ call.instruction \in Instructions
      BY <2>0, <2>3 DEF ServeReplan, CallOK, ViewOK, MaxVersions
    <3> QED
      BY <2>3, <3>1 DEF ServeReplan, ServiceNext, Change
  <2>4. CASE ServeRestore(call)
    BY <2>0, <2>4 DEF ServeRestore, CallOK, ServiceNext, Change
  <2> QED
    BY <1>3, <2>1, <2>2, <2>3, <2>4 DEF Serve
<1>4. ASSUME NEW call \in sent, LoseRequest(call) PROVE UNCHANGED serviceVars
  BY <1>4 DEF LoseRequest
<1>5. ASSUME NEW a \in answers, LoseAnswer(a) PROVE UNCHANGED serviceVars
  BY <1>5 DEF LoseAnswer
<1>6. ASSUME NEW t \in Tabs, NEW a \in answers, Take(t, a) PROVE UNCHANGED serviceVars
  BY <1>6 DEF Take
<1>7. CASE OtherCaller
  <2>1. CASE \E k \in Keys, request \in Requests, r \in Runs :
               Create(k, request, r) \/ (CreatedBefore(k, request, r) /\ UNCHANGED serviceVars)
    BY <2>1 DEF ServiceNext
  <2>2. CASE \E r \in Runs : Cancel(r) \/ Clarify(r) \/ Delete(r)
    BY <2>2 DEF ServiceNext, Change
  <2>3. CASE \E r \in Runs, base \in 0..MaxVersions, i \in Instructions : Replan(r, base, i)
    BY <2>3 DEF ServiceNext, Change
  <2>4. CASE \E r \in Runs, v \in 1..MaxVersions : Restore(r, v)
    BY <2>4 DEF ServiceNext, Change
  <2> QED
    BY <1>7, <2>1, <2>2, <2>3, <2>4 DEF OtherCaller
<1> QED
  BY <1>1, <1>2, <1>3, <1>4, <1>5, <1>6, <1>7 DEF AppNext

\* The service keeps a view true.
LEMMA ViewStays ==
  ASSUME RunsInv, ServiceNext \/ UNCHANGED serviceVars, NEW view, ViewOK(view)
  PROVE  ViewOK(view)'
<1> DEFINE r == view.run
<1>1. r \in Runs /\ runs[r] # Unused /\ RunEffect(r)
  BY ServiceEffect DEF ViewOK
<1>2. CASE runs'[r] = runs[r]
  BY <1>2 DEF ViewOK, Stored
<1>3. CASE Stored(r) /\ runs'[r] = Deleted
  BY <1>1, <1>3, IdAssumption DEF ViewOK, Stored, IdAssumption
<1>4. CASE Stored(r) /\ Continues(runs[r], runs'[r])
  <2>1. /\ view.version \in DOMAIN runs[r].versions
        /\ view.bundle = runs[r].versions[view.version]
    BY <1>4 DEF ViewOK
  <2>2. /\ runs[r].versions \in Seq(Seq(Instructions))
        /\ runs'[r].versions \in Seq(Seq(Instructions))
    BY <1>1, <1>4, StoredIsRecord DEF Continues, StoredRuns
  <2>3. view.version \in DOMAIN runs'[r].versions
    BY <1>4, <2>1, <2>2 DEF Continues
  <2>4. view.bundle = runs'[r].versions[view.version]
    BY <1>4, <2>1 DEF Continues
  <2>5. runs'[r] # Unused
    BY <1>4, IdAssumption DEF Continues, IdAssumption
  <2> QED
    BY <2>3, <2>4, <2>5 DEF ViewOK
<1> QED
  BY <1>1, <1>2, <1>3, <1>4 DEF RunEffect

\* A version that a run has makes a view.
LEMMA ViewOfVersion ==
  ASSUME RunsInv, NEW r \in Runs, Stored(r), NEW v \in DOMAIN runs[r].versions
  PROVE  ViewOK(View(r, v))
<1>1. runs[r] \in StoredRuns /\ History(runs[r])
  BY StoredIsRecord
<1>2. v \in 1..MaxVersions /\ runs[r].versions[v] \in Seq(Instructions)
  BY <1>1, VersionTyped
<1> QED
  BY <1>2 DEF View, ViewOK, Stored

\* Calls and answers stay as they are while no tab loses its session.
SessionsStay == \A t \in Tabs : tabs[t].session # Nothing => tabs'[t].session # Nothing

LEMMA CallStays ==
  ASSUME RunsInv, ServiceNext \/ UNCHANGED serviceVars, SessionsStay, NEW call, CallOK(call)
  PROVE  CallOK(call)'
<1>1. call.op = "replan" => ViewOK(call.seen)'
  BY ViewStays DEF CallOK
<1> QED
  BY <1>1 DEF CallOK, SessionsStay

LEMMA AnswerStays ==
  ASSUME RunsInv, ServiceNext \/ UNCHANGED serviceVars, SessionsStay, NEW a, AnswerOK(a)
  PROVE  AnswerOK(a)'
<1>1. CallOK(a.call)'
  BY CallStays DEF AnswerOK
<1>2. a.view # Nothing /\ a.call.op \in {"read", "replan", "restore"} => ViewOK(a.view)'
  BY ViewStays DEF AnswerOK
<1> QED
  BY <1>1, <1>2 DEF AnswerOK

LEMMA TabStays ==
  ASSUME RunsInv, ServiceNext \/ UNCHANGED serviceVars,
         NEW t \in Tabs, TabOK(t), tabs'[t] = tabs[t]
  PROVE  TabOK(t)'
<1>1. ASSUME NEW shown, shown = tabs[t].shown, shown # Nothing
      PROVE  ViewOK(shown)'
  BY <1>1, ViewStays DEF TabOK
<1> QED
  BY <1>1 DEF TabOK, ViewOK

LEMMA InitClientInv == ClientInit => ClientInv
  BY DEF ClientInit, ClientInv, TabOK

\* The tabs alone change, or nothing but a call or an answer is added.
LEMMA ClientFrame ==
  ASSUME ServiceInv, ClientInv, ServiceNext \/ UNCHANGED serviceVars, SessionsStay,
         DOMAIN tabs' = Tabs,
         \A t \in Tabs : tabs'[t] = tabs[t] \/ TabOK(t)',
         \A call \in sent' : call \in sent \/ CallOK(call)',
         \A a \in answers' : a \in answers \/ AnswerOK(a)'
  PROVE  ClientInv'
<1>1. ASSUME NEW t \in Tabs PROVE TabOK(t)'
  BY <1>1, TabStays DEF ClientInv, ServiceInv
<1>2. ASSUME NEW call \in sent' PROVE CallOK(call)'
  BY <1>2, CallStays DEF ClientInv, ServiceInv
<1>3. ASSUME NEW a \in answers' PROVE AnswerOK(a)'
  BY <1>3, AnswerStays DEF ClientInv, ServiceInv
<1> QED
  BY <1>1, <1>2, <1>3 DEF ClientInv

LEMMA SubmitStep ==
  ASSUME ServiceInv, ClientInv, NEW t \in Tabs,
         Submit(t) \/ SubmitInstruction(t) \/ PressRestore(t)
  PROVE  ClientInv'
<1>1. UNCHANGED <<serviceVars, tabs, answers>>
  BY DEF Submit, SubmitInstruction, PressRestore
<1>2. SessionsStay /\ DOMAIN tabs' = Tabs
  BY <1>1 DEF SessionsStay, ClientInv
<1>3. ASSUME NEW call \in sent', call \notin sent PROVE CallOK(call)'
  <2>1. CASE Submit(t)
    <3>1. PICK k \in Keys, request \in Requests : call = CreateCall(t, k, request)
      BY <1>3, <2>1 DEF Submit
    <3> QED
      BY <3>1 DEF CreateCall, CallOK
  <2>2. CASE SubmitInstruction(t)
    <3>1. PICK i \in Instructions : call = ReplanCall(t, tabs[t].session, tabs[t].shown, i)
      BY <1>3, <2>2 DEF SubmitInstruction
    <3>2. /\ tabs[t].session # Nothing /\ tabs[t].session \in Runs
          /\ ViewOK(tabs[t].shown)
      BY <2>2 DEF SubmitInstruction, PanelReady, ClientInv, TabOK
    <3>3. ViewOK(tabs[t].shown)'
      BY <1>1, <3>2 DEF ViewOK, Stored, serviceVars
    <3>4. ViewOK(call.seen)'
      BY <1>1, <3>1, <3>3 DEF ReplanCall, ViewOK, Stored
    <3> QED
      BY <1>1, <3>1, <3>2, <3>4 DEF ReplanCall, CallOK
  <2>3. CASE PressRestore(t)
    <3>1. PICK v \in 1..MaxVersions : call = RestoreCall(t, tabs[t].session, v)
      BY <1>3, <2>3 DEF PressRestore
    <3>2. tabs[t].session # Nothing /\ tabs[t].session \in Runs
      BY <2>3 DEF PressRestore, PanelReady, ClientInv, TabOK
    <3> QED
      BY <1>1, <3>1, <3>2 DEF RestoreCall, CallOK
  <2> QED
    BY <2>1, <2>2, <2>3
<1> QED
  BY <1>1, <1>2, <1>3, ClientFrame

\* What the service answers is a view of what it stores after the step.
LEMMA ServedIsOK ==
  ASSUME ServiceInv, ClientInv, NEW call \in sent, Serve(call) \/ LoseRequest(call)
  PROVE  \A a \in answers' : a \in answers \/ AnswerOK(a)'
<1>1. CallOK(call) /\ UNCHANGED tabs /\ RunsInv
  BY DEF ClientInv, Serve, ServeCreate, ServeRead, ServeRefresh, ServeReplan, ServeRestore,
         LoseRequest, Reply, ServiceInv
<1>2. ServiceNext \/ UNCHANGED serviceVars
  BY ServiceSteps DEF AppNext
<1>3. CallOK(call)'
  BY <1>1, <1>2, CallStays DEF SessionsStay
<1>4. RunsInv'
  BY <1>1, <1>2, RunsStep
<1>5. ASSUME NEW a, a \notin answers, Reply(call, Nothing), a \in answers'
      PROVE  AnswerOK(a)'
  BY <1>3, <1>5 DEF Reply, Answer, AnswerOK
<1>6. ASSUME ServeCreate(call), NEW a \in answers', a \notin answers PROVE AnswerOK(a)'
  <2>1. CASE Reply(call, Nothing)
    BY <1>5, <1>6, <2>1
  <2>2. ASSUME NEW r \in Runs, Reply(call, [run |-> r]) PROVE AnswerOK(a)'
    BY <1>3, <1>6, <2>2 DEF Reply, Answer, AnswerOK, ServeCreate
  <2> QED
    BY <1>6, <2>1, <2>2 DEF ServeCreate
<1>7. ASSUME ServeRead(call), NEW a \in answers', a \notin answers PROVE AnswerOK(a)'
  <2>1. CASE Reply(call, Nothing)
    BY <1>5, <1>7, <2>1
  <2>2. CASE ResultAvailable(call.run) /\ Reply(call, View(call.run, runs[call.run].current))
    <3>1. call.run \in Runs /\ Stored(call.run)
      BY <1>1, <1>7, <2>2 DEF ResultAvailable, CallOK, ServeRead
    <3>2. runs[call.run].current \in DOMAIN runs[call.run].versions
      BY <1>1, <3>1, StoredIsRecord DEF History
    <3>3. ViewOK(View(call.run, runs[call.run].current))
      BY <1>1, <3>1, <3>2, ViewOfVersion
    <3>4. a = Answer(call, View(call.run, runs[call.run].current))
      BY <1>7, <2>2 DEF Reply
    <3>5. ViewOK(a.view)
      BY <3>3, <3>4 DEF Answer
    <3>6. ViewOK(a.view)'
      BY <1>1, <1>2, <3>5, ViewStays
    <3> QED
      BY <1>3, <1>7, <3>4, <3>6 DEF Answer, AnswerOK, ServeRead
  <2> QED
    BY <1>7, <2>1, <2>2 DEF ServeRead
<1>8. ASSUME ServeReplan(call), NEW a \in answers', a \notin answers PROVE AnswerOK(a)'
  <2>1. CASE Reply(call, Nothing)
    BY <1>5, <1>8, <2>1
  <2>2. CASE /\ Replan(call.run, call.seen.version, call.instruction)
             /\ Reply(call, View(call.run, runs[call.run].current)')
    <3> DEFINE r == call.run
    <3>1. /\ r \in Runs /\ call.instruction \in Instructions
          /\ ViewOK(call.seen) /\ call.op = "replan"
      BY <1>1, <1>8 DEF CallOK, ServeReplan
    <3>2. Stored(r) /\ call.seen.version = runs[r].current
      BY <2>2, <3>1 DEF Replan, MayReplan, ViewOK, MaxVersions
    <3>3. Change(r)
      BY <2>2, <3>1 DEF Change, ViewOK, MaxVersions
    <3>4. Stored(r)'
      BY <1>1, <3>1, <3>3, ChangeEffect, IdAssumption DEF Continues, Stored, IdAssumption
    <3>5. runs[r] \in StoredRuns /\ History(runs[r])
      BY <1>1, <3>1, <3>2, StoredIsRecord
    <3>6. runs'[r].current \in DOMAIN runs'[r].versions /\ runs'[r].result = runs'[r].versions[runs'[r].current]
      BY <1>1, <3>1, <3>3, ChangeEffect DEF Continues, History
    <3>7. runs'[r] = Replanned(runs[r], call.instruction)
      BY <1>1, <2>2, <3>1 DEF Replan, RunsInv
    <3>8. runs'[r].result = Append(runs[r].result, call.instruction)
      BY <3>5, <3>7 DEF Replanned, StoredRuns
    <3>9. runs[r].result = runs[r].versions[runs[r].current]
      BY <3>5 DEF History
    <3>10. call.seen.run = r => call.seen.bundle = runs[r].result
      BY <3>1, <3>2, <3>9 DEF ViewOK
    <3>11. a = Answer(call, View(r, runs[r].current)')
      BY <1>8, <2>2 DEF Reply
    <3>12. a.view.run = r /\ a.view.version = runs'[r].current /\ a.view.bundle = runs'[r].result
           /\ a.call = call
      BY <3>6, <3>11 DEF Answer, View
    <3>13. ViewOK(a.view)'
      <4>1. /\ runs'[r].versions \in Seq(Seq(Instructions)) /\ Len(runs'[r].versions) <= MaxVersions
            /\ runs'[r] # Unused
        BY <1>4, <3>1, <3>4 DEF RunsInv, Stored, StoredRuns, History
      <4>2. runs'[r] \in StoredRuns /\ History(runs'[r])
        BY <1>4, <3>1, <3>4 DEF RunsInv, Stored
      <4>3. runs'[r].current \in 1..MaxVersions /\ runs'[r].result \in Seq(Instructions)
        BY <3>6, <4>2, VersionTyped
      <4> QED
        BY <3>1, <3>6, <3>12, <4>1, <4>3 DEF ViewOK
    <3>14. a.view.run = r /\ (call.seen.run = r =>
             a.view.bundle = Append(call.seen.bundle, call.instruction))
      BY <3>8, <3>10, <3>12
    <3> HIDE DEF r
    <3> QED
      BY <1>3, <3>1, <3>12, <3>13, <3>14 DEF AnswerOK, r
  <2> QED
    BY <1>8, <2>1, <2>2 DEF ServeReplan
<1>9. ASSUME ServeRestore(call), NEW a \in answers', a \notin answers PROVE AnswerOK(a)'
  <2>1. CASE Reply(call, Nothing)
    BY <1>5, <1>9, <2>1
  <2>2. CASE Restore(call.run, call.version) /\ Reply(call, View(call.run, call.version))
    <3>1. /\ call.run \in Runs /\ Stored(call.run)
          /\ call.version \in DOMAIN runs[call.run].versions
      BY <1>1, <1>9, <2>2 DEF CallOK, ServeRestore, Restore, MayRestore
    <3>2. ViewOK(View(call.run, call.version))
      BY <1>1, <3>1, ViewOfVersion
    <3>3. a = Answer(call, View(call.run, call.version))
      BY <1>9, <2>2 DEF Reply
    <3>4. ViewOK(a.view)
      BY <3>2, <3>3 DEF Answer
    <3>5. ViewOK(a.view)'
      BY <1>1, <1>2, <3>4, ViewStays
    <3> QED
      BY <1>3, <1>9, <3>3, <3>5 DEF Answer, AnswerOK, ServeRestore
  <2> QED
    BY <1>9, <2>1, <2>2 DEF ServeRestore
<1> QED
  BY <1>5, <1>6, <1>7, <1>8, <1>9 DEF Serve, LoseRequest, ServeRefresh

LEMMA ServeStep ==
  ASSUME ServiceInv, ClientInv, NEW call \in sent, Serve(call) \/ LoseRequest(call)
  PROVE  ClientInv'
<1>1. UNCHANGED tabs /\ sent' \subseteq sent
  BY DEF Serve, ServeCreate, ServeRead, ServeRefresh, ServeReplan, ServeRestore, LoseRequest, Reply
<1>2. ServiceNext \/ UNCHANGED serviceVars
  BY ServiceSteps DEF AppNext
<1>3. SessionsStay /\ DOMAIN tabs' = Tabs
  BY <1>1 DEF SessionsStay, ClientInv
<1> QED
  BY <1>1, <1>2, <1>3, ServedIsOK, ClientFrame

LEMMA LoseAnswerStep ==
  ASSUME ServiceInv, ClientInv, NEW a \in answers, LoseAnswer(a)
  PROVE  ClientInv'
<1>1. UNCHANGED <<serviceVars, tabs, sent>>
  BY DEF LoseAnswer
<1>2. SessionsStay /\ DOMAIN tabs' = Tabs
  BY <1>1 DEF SessionsStay, ClientInv
<1>3. CallOK(a.call)'
  <2>1. CallOK(a.call) /\ RunsInv
    BY DEF ClientInv, AnswerOK, ServiceInv
  <2> QED
    BY <1>1, <1>2, <2>1, CallStays
<1>4. \A b \in answers' : b \in answers \/ AnswerOK(b)'
  BY <1>3 DEF LoseAnswer, Failed, Answer, AnswerOK
<1> QED
  BY <1>1, <1>2, <1>4, ClientFrame

LEMMA TakeStep ==
  ASSUME ServiceInv, ClientInv, NEW t \in Tabs, NEW a \in answers, Take(t, a)
  PROVE  ClientInv'
<1>1. UNCHANGED serviceVars /\ answers' \subseteq answers /\ a.call.tab = t
  BY DEF Take
<1>2. AnswerOK(a) /\ CallOK(a.call) /\ TabOK(t) /\ DOMAIN tabs = Tabs
  BY DEF ClientInv, AnswerOK
<1>3. ASSUME a.view # Nothing, a.call.op \in {"read", "replan", "restore"} PROVE ViewOK(a.view)'
  <2>1. ViewOK(a.view)
    BY <1>2, <1>3 DEF AnswerOK
  <2> QED
    BY <1>1, <2>1, ViewStays DEF ServiceInv
<1>4. CASE UNCHANGED <<tabs, sent>>
  BY <1>1, <1>2, <1>4, ClientFrame DEF SessionsStay
<1>5. CASE /\ a.call.op = "create" /\ a.view # Nothing
           /\ tabs' = [tabs EXCEPT ![t] = [session |-> a.view.run, shown |-> Nothing]]
           /\ sent' = sent \union {ReadCall(t, a.view.run)}
  <2>1. a.view.run \in Runs /\ a.view.run # Nothing
    BY <1>2, <1>5, NothingAssumption DEF AnswerOK
  <2>2. /\ DOMAIN tabs' = Tabs
        /\ tabs'[t] = [session |-> a.view.run, shown |-> Nothing]
        /\ \A u \in Tabs : u # t => tabs'[u] = tabs[u]
    BY <1>2, <1>5
  <2>3. SessionsStay /\ TabOK(t)'
    BY <2>1, <2>2 DEF SessionsStay, TabOK
  <2>4. CallOK(ReadCall(t, a.view.run))'
    BY <2>1, <2>2 DEF CallOK, ReadCall
  <2> QED
    BY <1>1, <1>5, <2>2, <2>3, <2>4, ClientFrame
<1>6. a.call.op \in {"read", "replan", "restore"} /\ (a.view # Nothing => ViewOK(a.view)')
      /\ tabs' = [tabs EXCEPT ![t].shown = a.view]
      => TabOK(t)'
  BY <1>2 DEF TabOK
<1>7. ASSUME tabs' = [tabs EXCEPT ![t].shown = a.view]
      PROVE  /\ DOMAIN tabs' = Tabs /\ SessionsStay
             /\ tabs'[t].session = tabs[t].session
             /\ \A u \in Tabs : u # t => tabs'[u] = tabs[u]
  BY <1>2, <1>7 DEF SessionsStay, TabOK
<1>8. CASE /\ a.call.op = "read" /\ UNCHANGED sent
           /\ tabs' = [tabs EXCEPT ![t].shown = a.view]
  <2> QED
    BY <1>1, <1>3, <1>8, <1>6, <1>7, ClientFrame
<1>9. CASE /\ a.call.op \in {"replan", "restore"} /\ a.view # Nothing
           /\ tabs' = [tabs EXCEPT ![t].shown = a.view]
           /\ sent' = sent \union {ReadCall(t, tabs[t].session), RefreshCall(t, a.call.run)}
  <2>1. a.call.run \in Runs /\ tabs[t].session # Nothing /\ tabs[t].session \in Runs
    BY <1>1, <1>2, <1>9 DEF CallOK, TabOK
  <2>2. tabs'[t].session = tabs[t].session
    BY <1>9, <1>7
  <2>3. CallOK(ReadCall(t, tabs[t].session))' /\ CallOK(RefreshCall(t, a.call.run))'
    BY <2>1, <2>2 DEF CallOK, ReadCall, RefreshCall
  <2> QED
    BY <1>1, <1>3, <1>9, <1>6, <1>7, <2>3, ClientFrame
<1> QED
  BY <1>4, <1>5, <1>8, <1>9 DEF Take, TakeCreated, TakeRead, TakeRefresh, TakeResult

LEMMA OthersStep ==
  ASSUME ServiceInv, ClientInv, OtherCaller \/ UNCHANGED appVars
  PROVE  ClientInv'
<1>1. UNCHANGED clientVars
  BY DEF OtherCaller, appVars
<1>2. ServiceNext \/ UNCHANGED serviceVars
  BY ServiceSteps DEF AppNext
<1> QED
  BY <1>1, <1>2, ClientFrame DEF ClientInv, SessionsStay, clientVars

LEMMA ServiceInvStep ==
  ASSUME ServiceInv, ServiceNext \/ UNCHANGED serviceVars
  PROVE  ServiceInv'
  BY RunsStep, KeysStep DEF ServiceInv

LEMMA AppInvStep == AppInv /\ [AppNext]_appVars => AppInv'
<1> SUFFICES ASSUME AppInv, [AppNext]_appVars PROVE AppInv'
  OBVIOUS
<1>1. ServiceInv /\ ClientInv
  BY DEF AppInv
<1>2. ServiceInv'
  BY <1>1, ServiceSteps, ServiceInvStep
<1>3. ClientInv'
  BY <1>1, SubmitStep, ServeStep, LoseAnswerStep, TakeStep, OthersStep DEF AppNext
<1> QED
  BY <1>2, <1>3 DEF AppInv

\* The service's invariant and the clients' hold together in every state
\* (run_service.py; App.tsx and ReplanningPanel.tsx).
THEOREM AppInvariant == AppSpec => []AppInv
<1>1. ClientInit => AppInv
  BY InitServiceInv, InitClientInv DEF AppInv, ClientInit
<1> QED
  BY <1>1, AppInvStep, PTL DEF AppSpec

\* In every history of creates and deletes each stored run has one key and
\* each key a stored run (create, delete).
THEOREM KeysAreUnique == AppSpec => []OneKeyPerRun
<1>1. AppInv => OneKeyPerRun
  <2> SUFFICES ASSUME AppInv PROVE OneKeyPerRun
    OBVIOUS
  <2>1. KeysInv
    BY DEF AppInv, ServiceInv
  <2>2. ASSUME NEW r \in Runs, Stored(r)
        PROVE  Cardinality({k \in Keys : idempotency[k].run = r}) = 1
    <3>1. PICK k \in Keys : \A j \in Keys : idempotency[j].run = r <=> j = k
      BY <2>1, <2>2 DEF KeysInv
    <3>2. {j \in Keys : idempotency[j].run = r} = {k}
      BY <3>1
    <3> QED
      BY <3>2, FS_Singleton
  <2> QED
    BY <2>1, <2>2 DEF OneKeyPerRun, KeysInv
<1> QED
  BY <1>1, AppInvariant, PTL

\* However a run is replanned and restored, its result is that of its current
\* version, and its versions descend from one another (replan, restore).
THEOREM HistoriesAreConsistent == AppSpec => []HistoryIsConsistent
<1>1. AppInv => HistoryIsConsistent
  <2> SUFFICES ASSUME AppInv, NEW r \in Runs, Stored(r)
               PROVE  LET record == runs[r] IN
                        /\ record.marked = {record.current}
                        /\ record.current \in DOMAIN record.versions
                        /\ record.result = record.versions[record.current]
                        /\ record.versions[1] = <<>>
                        /\ \A v \in 2..Len(record.versions) :
                             /\ Len(record.versions[v]) <= 2
                             /\ \E u \in 1..(v - 1), i \in Instructions :
                                  record.versions[v] = Append(record.versions[u], i)
    BY DEF HistoryIsConsistent
  <2>1. runs[r] \in StoredRuns /\ History(runs[r])
    BY StoredIsRecord DEF AppInv, ServiceInv
  <2>2. runs[r].versions \in Seq(Seq(Instructions))
    BY <2>1 DEF StoredRuns
  <2>3. ASSUME NEW v \in 2..Len(runs[r].versions) PROVE Len(runs[r].versions[v]) <= 2
    <3>1. v \in 1..Len(runs[r].versions) /\ v <= 3 /\ runs[r].versions[v] \in Seq(Instructions)
      BY <2>1, <2>2 DEF History, MaxVersions
    <3>2. Len(runs[r].versions[v]) <= v - 1 /\ Len(runs[r].versions[v]) \in Nat
      BY <2>1, <3>1 DEF History
    <3> QED
      BY <3>1, <3>2
  <2> QED
    BY <2>1, <2>3 DEF History
<1> QED
  BY <1>1, AppInvariant, PTL

\* No version of a run that stays is changed or dropped, and a cancelled run
\* is without a result and without new versions for good (cancel, replan,
\* restore).
THEOREM VersionsStay == AppSpec => VersionsArePermanent
<1> DEFINE Permanent ==
      \A r \in Runs : Stored(r) /\ Stored(r)' =>
        /\ Len(runs[r].versions) <= Len(runs[r].versions)'
        /\ \A v \in DOMAIN runs[r].versions : runs[r].versions[v] = runs[r].versions[v]'
        /\ Cancelled(r) =>
             Cancelled(r)' /\ ~ runs[r].available' /\ runs[r].versions = runs[r].versions'
<1>1. AppInv /\ AppInv' /\ [AppNext]_appVars => [Permanent]_serviceVars
  <2> SUFFICES ASSUME AppInv, AppInv', [AppNext]_appVars, NEW r \in Runs, Stored(r), Stored(r)'
               PROVE  /\ Len(runs[r].versions) <= Len(runs[r].versions)'
                      /\ \A v \in DOMAIN runs[r].versions :
                           runs[r].versions[v] = runs[r].versions[v]'
                      /\ Cancelled(r) =>
                           /\ Cancelled(r)' /\ ~ runs[r].available'
                           /\ runs[r].versions = runs[r].versions'
    OBVIOUS
  <2>1. ServiceNext \/ UNCHANGED serviceVars
    BY ServiceSteps DEF AppInv
  <2>2. RunsInv /\ RunsInv'
    BY DEF AppInv, ServiceInv
  <2>3. runs[r] \in StoredRuns /\ runs'[r] \in StoredRuns /\ History(runs'[r])
    BY <2>2 DEF RunsInv, Stored
  <2>4. runs'[r] = runs[r] \/ Continues(runs[r], runs'[r])
    BY <2>1, <2>2, ServiceEffect DEF RunEffect, Stored
  <2>5. runs[r].versions \in Seq(Seq(Instructions)) /\ Len(runs[r].versions) \in Nat
    BY <2>3 DEF StoredRuns
  <2>6. /\ Len(runs[r].versions) <= Len(runs'[r].versions)
        /\ \A v \in DOMAIN runs[r].versions : runs[r].versions[v] = runs'[r].versions[v]
    BY <2>4, <2>5 DEF Continues
  <2>7. ASSUME Cancelled(r)
        PROVE  Cancelled(r)' /\ ~ runs'[r].available /\ runs[r].versions = runs'[r].versions
    BY <2>3, <2>4, <2>7 DEF Continues, Cancelled, History
  <2> QED
    BY <2>6, <2>7
<1> QED
  BY <1>1, AppInvariant, PTL DEF AppSpec, VersionsArePermanent

\* The new version of an answered replan was made from the version that the
\* tab displayed when the instruction was submitted, and the difference names
\* the change (MayReplan's base_version; submit in ReplanningPanel.tsx).
THEOREM ReplansBuildOnDisplay == AppSpec => []ReplanBuildsOnDisplay
<1>1. AppInv => ReplanBuildsOnDisplay
  <2> SUFFICES ASSUME AppInv, NEW a \in answers, a.call.op = "replan", a.view # Nothing,
                      a.call.seen.run = a.call.run
               PROVE  /\ a.view.bundle = Append(a.call.seen.bundle, a.call.instruction)
                      /\ Stored(a.call.run) =>
                           {"assumptions", "collaboration_summary"} \subseteq
                             Diff(a.call.run, a.call.seen.version, a.view.version)
    BY DEF ReplanBuildsOnDisplay
  <2>1. /\ a.view.bundle = Append(a.call.seen.bundle, a.call.instruction)
        /\ a.view.run = a.call.run /\ ViewOK(a.view) /\ ViewOK(a.call.seen)
    BY DEF AppInv, ClientInv, AnswerOK, CallOK
  <2>2. Len(a.view.bundle) = Len(a.call.seen.bundle) + 1 /\ Len(a.call.seen.bundle) \in Nat
    BY <2>1 DEF ViewOK
  <2>3. a.view.bundle # a.call.seen.bundle /\ Len(a.view.bundle) # Len(a.call.seen.bundle)
    <3>1. Len(a.view.bundle) # Len(a.call.seen.bundle)
      BY <2>2
    <3> QED
      BY <3>1
  <2>4. ASSUME Stored(a.call.run)
        PROVE  /\ runs[a.call.run].versions[a.call.seen.version] = a.call.seen.bundle
               /\ runs[a.call.run].versions[a.view.version] = a.view.bundle
    BY <2>1, <2>4 DEF ViewOK
  <2> QED
    BY <2>1, <2>3, <2>4 DEF Diff
<1> QED
  BY <1>1, AppInvariant, PTL

-----------------------------------------------------------------------------
(* The outbox *)

Drains == [todo : SUBSET Events, item : Events \union {NoEvent},
           sent : BOOLEAN, left : -1..LeaseSeconds]

\* The rows a publisher still has to mark.
Held(p) == drain[p].todo \union ({drain[p].item} \ {NoEvent})

\* What a publisher holds is in the outbox, the row in the handler is not in
\* the rest of the batch, a handler that returned has delivered, and while the
\* lease lasts every row still to be marked is its own and counts the same time.
DrainInv ==
  \A p \in Publishers :
    /\ Held(p) \subseteq rows
    /\ drain[p].item \notin drain[p].todo
    /\ Handled(p) => drain[p].item \in delivered
    /\ drain[p].left >= 0 =>
         \A e \in Held(p) : OwnsRow(p, e) /\ leaseLeft[e] = drain[p].left

OutboxInv ==
  /\ TypeOK
  /\ DrainInv
  /\ PublishedWasDelivered
  /\ \A e \in published : leaseOwner[e] = NoPublisher

-----------------------------------------------------------------------------
\* The initial state satisfies the invariant.
LEMMA InitOutboxInv == Init => OutboxInv
  BY OutboxAssumption
  DEF OutboxAssumption, Init, OutboxInv, TypeOK, DrainInv, Held, Handled, Idle,
      PublishedWasDelivered

\* Committing an event takes no row from a publisher.
LEMMA CommitInv ==
  ASSUME OutboxInv, NEW e \in Events, AppendEvent(e) \/ CommitWithOutbox(e)
  PROVE  OutboxInv'
<1>1. stored' = stored \union {e} /\ rows \subseteq rows' /\ rows' \subseteq rows \union {e}
  BY DEF AppendEvent, CommitWithOutbox
<1>2. UNCHANGED <<leaseOwner, leaseLeft, published, wait, drain, delivered, faults>>
  BY DEF AppendEvent, CommitWithOutbox, lease
<1>3. TypeOK'
  BY <1>1, <1>2 DEF OutboxInv, TypeOK
<1>4. DrainInv'
  BY <1>1, <1>2 DEF OutboxInv, DrainInv, Held, Handled, OwnsRow
<1> QED BY <1>1, <1>2, <1>3, <1>4 DEF OutboxInv, PublishedWasDelivered

\* A batch holds rows whose lease is over: no other publisher counts on them.
LEMMA LeaseBatchInv ==
  ASSUME OutboxInv, NEW p \in Publishers, NEW batch \in SUBSET Events, LeaseBatch(p, batch)
  PROVE  OutboxInv'
<1> USE DEF OutboxInv
<1>1. \A e \in batch : e \in rows /\ e \notin published
                       /\ (leaseOwner[e] # NoPublisher => leaseLeft[e] < 0)
  BY DEF LeaseBatch, IsBatch, Leasable
<1>2. UNCHANGED <<stored, rows, wait, published, delivered, faults>>
  BY DEF LeaseBatch, log
<1>3. /\ \A e \in batch : leaseOwner'[e] = p /\ leaseLeft'[e] = LeaseSeconds
      /\ \A e \in Events \ batch : leaseOwner'[e] = leaseOwner[e] /\ leaseLeft'[e] = leaseLeft[e]
  BY DEF LeaseBatch
<1>4. /\ drain'[p].todo = batch /\ drain'[p].item = NoEvent /\ drain'[p].sent = FALSE
      /\ drain'[p].left = LeaseSeconds
      /\ \A q \in Publishers : q # p => drain'[q] = drain[q]
  BY DEF LeaseBatch, TypeOK, Idle
<1>5. LeaseSeconds \in -1..LeaseSeconds
  BY OutboxAssumption DEF OutboxAssumption
<1>6. TypeOK'
  <2>1. leaseOwner' \in [Events -> Publishers \union {NoPublisher}]
    BY DEF LeaseBatch, TypeOK
  <2>2. leaseLeft' \in [Events -> -1..LeaseSeconds]
    BY <1>5, Zenon DEF LeaseBatch, TypeOK
  <2>3. drain' \in [Publishers -> Drains]
    <3>1. [Idle EXCEPT !.todo = batch, !.left = LeaseSeconds] \in Drains
      BY <1>5 DEF Drains, Idle
    <3> QED BY <3>1 DEF LeaseBatch, TypeOK, Drains
  <2> QED BY <1>2, <2>1, <2>2, <2>3 DEF TypeOK, Drains
<1>7. DrainInv'
  <2> SUFFICES ASSUME NEW q \in Publishers
               PROVE  /\ Held(q)' \subseteq rows'
                      /\ drain'[q].item \notin drain'[q].todo
                      /\ Handled(q)' => drain'[q].item \in delivered'
                      /\ drain'[q].left >= 0 =>
                           \A e \in Held(q)' : OwnsRow(q, e)' /\ leaseLeft'[e] = drain'[q].left
    BY DEF DrainInv
  <2>1. CASE q = p
    BY <1>1, <1>2, <1>3, <1>4, <2>1, OutboxAssumption
    DEF OutboxAssumption, Held, Handled, OwnsRow
  <2>2. CASE q # p
    <3>1. Held(q)' = Held(q) /\ Held(q) \subseteq Events
      BY <1>4, <2>2 DEF Held, TypeOK
    <3>2. drain[q].left >= 0 => \A e \in Held(q) : e \notin batch
      BY <1>1, <3>1, <2>2, OutboxAssumption
      DEF OutboxAssumption, DrainInv, OwnsRow, TypeOK
    <3> QED BY <1>2, <1>3, <1>4, <2>2, <3>1, <3>2 DEF DrainInv, Handled, OwnsRow
  <2> QED BY <2>1, <2>2
<1> QED BY <1>1, <1>2, <1>3, <1>6, <1>7 DEF PublishedWasDelivered, TypeOK

\* Steps of one publisher that leave all rows alone: what it holds shrinks, its
\* lease stays or is forgotten, and only handled events count as delivered.
LEMMA PublisherInv ==
  ASSUME OutboxInv, NEW p \in Publishers, NEW d \in Drains,
         drain' = [drain EXCEPT ![p] = d], faults' \in 0..MaxFaults,
         UNCHANGED <<log, lease, wait>>,
         delivered \subseteq delivered', delivered' \subseteq Events,
         d.todo \subseteq drain[p].todo,
         d.item = NoEvent \/ d.item \in Held(p),
         d.item \notin d.todo,
         d.left >= 0 => d.left = drain[p].left,
         d.item # NoEvent /\ d.sent => d.item \in delivered'
  PROVE  OutboxInv'
<1> USE DEF OutboxInv, log, lease
<1>1. drain'[p] = d /\ \A q \in Publishers : q # p => drain'[q] = drain[q]
  BY DEF TypeOK
<1>2. TypeOK'
  BY DEF TypeOK, Drains
<1>3. DrainInv'
  <2> SUFFICES ASSUME NEW q \in Publishers
               PROVE  /\ Held(q)' \subseteq rows
                      /\ drain'[q].item \notin drain'[q].todo
                      /\ Handled(q)' => drain'[q].item \in delivered'
                      /\ drain'[q].left >= 0 =>
                           \A e \in Held(q)' : OwnsRow(q, e)' /\ leaseLeft[e] = drain'[q].left
    BY DEF DrainInv
  <2>1. CASE q = p
    <3>1. Held(q)' \subseteq Held(p)
      BY <1>1, <2>1 DEF Held
    <3> QED BY <1>1, <2>1, <3>1 DEF DrainInv, Handled, OwnsRow
  <2>2. CASE q # p
    BY <1>1, <2>2 DEF DrainInv, Held, Handled, OwnsRow
  <2> QED BY <2>1, <2>2
<1> QED BY <1>2, <1>3 DEF PublishedWasDelivered

\* Idle is where a publisher that gave up its batch is.
LEMMA IdleDrain == Idle \in Drains /\ Idle.todo = {} /\ Idle.item = NoEvent
                   /\ ~ (Idle.left >= 0) /\ Idle.sent = FALSE
  BY OutboxAssumption DEF OutboxAssumption, Idle, Drains

\* Calling the handler, its return, a refused mark and an abort keep the
\* invariant.
LEMMA DeliveryInv ==
  ASSUME OutboxInv, NEW p \in Publishers,
         \/ \E e \in Events : StartDelivery(p, e)
         \/ EndDelivery(p) \/ MarkRefused(p) \/ Abort(p)
  PROVE  OutboxInv'
<1>1. drain[p] \in Drains /\ drain[p].item \notin drain[p].todo
      /\ drain[p].todo \subseteq Events /\ faults \in 0..MaxFaults /\ delivered \subseteq Events
  BY DEF OutboxInv, TypeOK, Drains, DrainInv
<1>2. ASSUME NEW e \in Events, StartDelivery(p, e) PROVE OutboxInv'
  <2> DEFINE d == [drain[p] EXCEPT !.todo = @ \ {e}, !.item = e, !.sent = FALSE]
  <2>1. d \in Drains /\ d.todo = drain[p].todo \ {e} /\ d.item = e /\ d.sent = FALSE
        /\ d.left = drain[p].left
    BY <1>1 DEF Drains
  <2>2. drain' = [drain EXCEPT ![p] = d] /\ e \in Held(p) /\ e # NoEvent
    BY <1>2, OutboxAssumption DEF OutboxAssumption, StartDelivery, Held
  <2>3. UNCHANGED <<log, lease, wait, delivered, faults>>
    BY <1>2 DEF StartDelivery
  <2> HIDE DEF d
  <2> QED BY <1>1, <2>1, <2>2, <2>3, PublisherInv
<1>3. ASSUME EndDelivery(p) PROVE OutboxInv'
  <2> DEFINE d == [drain[p] EXCEPT !.sent = TRUE]
  <2>1. d \in Drains /\ d.todo = drain[p].todo /\ d.item = drain[p].item
        /\ d.left = drain[p].left
    BY <1>1 DEF Drains
  <2>2. drain' = [drain EXCEPT ![p] = d] /\ d.item \in Held(p)
    BY <1>3, <2>1 DEF EndDelivery, Held
  <2>3. /\ UNCHANGED <<log, lease, wait, faults>>
        /\ delivered' = delivered \union {d.item} /\ d.item \in Events
    BY <1>1, <1>3, <2>1 DEF EndDelivery, Drains
  <2> HIDE DEF d
  <2> QED BY <1>1, <2>1, <2>2, <2>3, PublisherInv
<1>4. ASSUME MarkRefused(p) PROVE OutboxInv'
  <2>1. drain' = [drain EXCEPT ![p] = Idle] /\ UNCHANGED <<log, lease, wait, delivered, faults>>
    BY <1>4 DEF MarkRefused
  <2> QED BY <1>1, <2>1, IdleDrain, PublisherInv
<1>5. ASSUME Abort(p) PROVE OutboxInv'
  <2>1. drain' = [drain EXCEPT ![p] = Idle] /\ UNCHANGED <<log, lease, wait>>
    BY <1>5 DEF Abort
  <2>2. faults' \in 0..MaxFaults
    BY <1>1, <1>5, OutboxAssumption DEF OutboxAssumption, Abort
  <2>3. delivered \subseteq delivered' /\ delivered' \subseteq Events
    BY <1>1, <1>5 DEF Abort, Drains
  <2> QED BY <1>1, <2>1, <2>2, <2>3, IdleDrain, PublisherInv
<1> QED BY <1>2, <1>3, <1>4, <1>5

\* A marked row was delivered, and leaves the rows its publisher still holds.
LEMMA MarkPublishedInv ==
  ASSUME OutboxInv, NEW p \in Publishers, MarkPublished(p)
  PROVE  OutboxInv'
<1> USE DEF OutboxInv
<1> DEFINE e == drain[p].item
           d == IF drain[p].todo = {} THEN Idle
                ELSE [drain[p] EXCEPT !.item = NoEvent, !.sent = FALSE]
<1>1. /\ drain[p] \in Drains /\ e \in Events /\ e # NoEvent /\ e \in rows
      /\ e \in delivered /\ e \notin drain[p].todo /\ OwnsRow(p, e)
  BY DEF MarkPublished, Handled, TypeOK, Drains, DrainInv, Held
<1>2. /\ d \in Drains /\ d.todo = drain[p].todo /\ d.item = NoEvent
      /\ d.left >= 0 => d.left = drain[p].left
  <2>1. CASE drain[p].todo = {}
    BY <1>1, <2>1, IdleDrain
  <2>2. CASE drain[p].todo # {}
    BY <1>1, <2>2 DEF Drains
  <2> QED BY <2>1, <2>2
<1>3. /\ drain' = [drain EXCEPT ![p] = d]
      /\ published' = published \union {e}
      /\ leaseOwner' = [leaseOwner EXCEPT ![e] = NoPublisher]
      /\ leaseLeft' = [leaseLeft EXCEPT ![e] = 0]
      /\ UNCHANGED <<stored, rows, wait, delivered, faults>>
  BY DEF MarkPublished, log
<1> HIDE DEF e, d
<1>4. drain'[p] = d /\ \A q \in Publishers : q # p => drain'[q] = drain[q]
  BY <1>3 DEF TypeOK
<1>5. /\ leaseOwner'[e] = NoPublisher
      /\ \A f \in Events : f # e => leaseOwner'[f] = leaseOwner[f] /\ leaseLeft'[f] = leaseLeft[f]
  BY <1>1, <1>3 DEF TypeOK
<1>6. TypeOK'
  <2>1. leaseLeft' \in [Events -> -1..LeaseSeconds]
    <3>1. 0 \in -1..LeaseSeconds
      BY OutboxAssumption DEF OutboxAssumption
    <3> QED BY <1>3, <3>1, Zenon DEF TypeOK
  <2>2. drain' \in [Publishers -> Drains]
    BY <1>2, <1>3 DEF TypeOK, Drains
  <2> QED BY <1>1, <1>3, <2>1, <2>2 DEF TypeOK, Drains
<1>7. DrainInv'
  <2> SUFFICES ASSUME NEW q \in Publishers
               PROVE  /\ Held(q)' \subseteq rows'
                      /\ drain'[q].item \notin drain'[q].todo
                      /\ Handled(q)' => drain'[q].item \in delivered'
                      /\ drain'[q].left >= 0 =>
                           \A f \in Held(q)' : OwnsRow(q, f)' /\ leaseLeft'[f] = drain'[q].left
    BY DEF DrainInv
  <2>1. CASE q = p
    <3>1. Held(q)' \subseteq Held(p) /\ e \notin Held(q)'
      BY <1>1, <1>2, <1>4, <2>1 DEF Held
    <3>2. Held(q)' \subseteq Events /\ drain[p].todo \subseteq Events
      BY <1>1, <1>2, <1>4, <2>1 DEF Held, Drains
    <3>3. Handled(q)' = FALSE /\ drain'[q].item \notin drain'[q].todo
      BY <1>1, <1>2, <1>4, <2>1, <3>2, OutboxAssumption DEF OutboxAssumption, Handled
    <3> QED BY <1>2, <1>3, <1>4, <1>5, <2>1, <3>1, <3>2, <3>3 DEF DrainInv, OwnsRow
  <2>2. CASE q # p
    <3>1. Held(q)' = Held(q) /\ Held(q) \subseteq Events
      BY <1>4, <2>2 DEF Held, TypeOK, Drains
    <3>2. drain[q].left >= 0 => e \notin Held(q)
      BY <1>1, <2>2 DEF DrainInv, OwnsRow
    <3> QED BY <1>3, <1>4, <1>5, <2>2, <3>1, <3>2 DEF DrainInv, Handled, OwnsRow
  <2> QED BY <2>1, <2>2
<1> QED BY <1>1, <1>3, <1>5, <1>6, <1>7 DEF PublishedWasDelivered, TypeOK

\* Time runs equally fast for the rows and for the publisher that leased them.
LEMMA TickInv == ASSUME OutboxInv, Tick PROVE OutboxInv'
<1> USE DEF OutboxInv
<1>1. UNCHANGED <<stored, rows, leaseOwner, published, delivered>>
  BY DEF Tick, log
<1>2. \A p \in Publishers :
        /\ drain[p] \in Drains /\ drain'[p] \in Drains
        /\ drain'[p].todo = drain[p].todo /\ drain'[p].item = drain[p].item
        /\ drain'[p].sent = drain[p].sent /\ drain'[p].left = Left(drain[p].left)
  <2> SUFFICES ASSUME NEW p \in Publishers
               PROVE  /\ drain[p] \in Drains /\ drain'[p] \in Drains
                      /\ drain'[p].todo = drain[p].todo /\ drain'[p].item = drain[p].item
                      /\ drain'[p].sent = drain[p].sent /\ drain'[p].left = Left(drain[p].left)
    OBVIOUS
  <2>1. drain[p] \in Drains
    BY DEF TypeOK, Drains
  <2>2. Left(drain[p].left) \in -1..LeaseSeconds
    BY <2>1, OutboxAssumption DEF OutboxAssumption, Drains, Left
  <2>3. drain'[p] = [drain[p] EXCEPT !.left = Left(@)]
    BY DEF Tick
  <2> QED BY <2>1, <2>2, <2>3 DEF Drains
<1>3. \A p \in Publishers : Held(p)' = Held(p) /\ Held(p) \subseteq Events
  BY <1>2 DEF Held, Drains
<1>4. TypeOK'
  <2>1. leaseLeft' \in [Events -> -1..LeaseSeconds]
    BY OutboxAssumption DEF OutboxAssumption, TypeOK, Tick, Left
  <2>2. drain' \in [Publishers -> Drains]
    BY <1>2 DEF Tick
  <2>3. wait' \in [Events -> Nat]
    BY DEF TypeOK, Tick
  <2>4. faults' \in 0..MaxFaults
    BY OutboxAssumption DEF OutboxAssumption, TypeOK, Tick
  <2> QED BY <1>1, <2>1, <2>2, <2>3, <2>4 DEF TypeOK, Drains
<1>5. DrainInv'
  <2> SUFFICES ASSUME NEW p \in Publishers
               PROVE  /\ Held(p)' \subseteq rows'
                      /\ drain'[p].item \notin drain'[p].todo
                      /\ Handled(p)' => drain'[p].item \in delivered'
                      /\ drain'[p].left >= 0 =>
                           \A e \in Held(p)' : OwnsRow(p, e)' /\ leaseLeft'[e] = drain'[p].left
    BY DEF DrainInv
  <2>1. ASSUME drain'[p].left >= 0, NEW e \in Held(p)
        PROVE  OwnsRow(p, e)' /\ leaseLeft'[e] = drain'[p].left
    <3>1. drain[p].left >= 0 /\ drain'[p].left = drain[p].left - 1
      BY <1>2, <2>1 DEF Left, Drains
    <3>2. OwnsRow(p, e) /\ leaseLeft[e] = drain[p].left /\ e \in Events
      BY <1>3, <3>1 DEF DrainInv
    <3>3. leaseLeft'[e] = Left(leaseLeft[e])
      BY <3>2, OutboxAssumption DEF OutboxAssumption, Tick, OwnsRow
    <3>4. Left(leaseLeft[e]) = drain[p].left - 1
      BY <3>1, <3>2 DEF Left, TypeOK
    <3> QED BY <1>1, <3>1, <3>2, <3>3, <3>4 DEF OwnsRow
  <2> QED BY <1>1, <1>2, <1>3, <2>1 DEF DrainInv, Handled
<1> QED BY <1>1, <1>4, <1>5 DEF PublishedWasDelivered

\* Every step of events, publishers and time keeps the invariant.
LEMMA NextOutboxInv == OutboxInv /\ [Next]_vars => OutboxInv'
<1> SUFFICES ASSUME OutboxInv, [Next]_vars PROVE OutboxInv'
  OBVIOUS
<1>1. CASE UNCHANGED vars
  BY <1>1 DEF vars, log, lease, OutboxInv, TypeOK, DrainInv, Held, Handled, OwnsRow,
     PublishedWasDelivered
<1> QED
  BY <1>1, CommitInv, LeaseBatchInv, DeliveryInv, MarkPublishedInv, TickInv
  DEF Next, Publish, Lease, Deliver, Mark

\* The invariant holds in every reachable state.
THEOREM OutboxInvariance == Spec => []OutboxInv
  BY InitOutboxInv, NextOutboxInv, PTL DEF Spec

-----------------------------------------------------------------------------
\* No row is marked as published unless its event was delivered.
THEOREM PublishedWasDeliveredHolds == Spec => []PublishedWasDelivered
<1>1. OutboxInv => PublishedWasDelivered
  BY DEF OutboxInv
<1> QED BY <1>1, OutboxInvariance, PTL

\* While its lease lasts a publisher owns every row it still has to mark.
THEOREM BatchUndisturbedHolds == Spec => []BatchUndisturbed
<1>1. OutboxInv => BatchUndisturbed
  BY DEF OutboxInv, DrainInv, Held, BatchUndisturbed
<1> QED BY <1>1, OutboxInvariance, PTL

\* Two publishers deliver the same event at once only if one has overrun.
THEOREM ExclusiveWithinLeaseHolds == Spec => []ExclusiveWithinLease
<1>1. ASSUME OutboxInv PROVE ExclusiveWithinLease
  <2> SUFFICES ASSUME NEW p \in Publishers, NEW q \in Publishers, p # q,
                      drain[p].item = drain[q].item, drain[p].item # NoEvent,
                      drain[p].left >= 0, drain[q].left >= 0
               PROVE  FALSE
    BY <1>1 DEF ExclusiveWithinLease, OutboxInv, TypeOK
  <2>1. OwnsRow(p, drain[p].item) /\ OwnsRow(q, drain[p].item)
    BY <1>1 DEF OutboxInv, DrainInv, Held
  <2> QED BY <2>1 DEF OwnsRow
<1> QED BY <1>1, OutboxInvariance, PTL

\* A published row stays published and is never leased again.
THEOREM PublishedIsFinalHolds == Spec => PublishedIsFinal
<1>1. ASSUME OutboxInv, [Next]_vars
      PROVE  published \subseteq published' /\ \A e \in published : leaseOwner'[e] = NoPublisher
  <2>1. published \subseteq published'
    BY <1>1 DEF Next, Publish, Lease, Deliver, Mark, AppendEvent, CommitWithOutbox,
       LeaseBatch, StartDelivery, EndDelivery, MarkPublished, MarkRefused, Abort, Tick,
       vars, lease
  <2>2. OutboxInv'
    BY <1>1, NextOutboxInv
  <2> QED BY <2>1, <2>2 DEF OutboxInv
<1>2. OutboxInv /\ [Next]_vars =>
        [published \subseteq published' /\ \A e \in published : leaseOwner'[e] = NoPublisher]_vars
  BY <1>1
<1> QED BY <1>2, OutboxInvariance, PTL DEF Spec, PublishedIsFinal
=============================================================================
