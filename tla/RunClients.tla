----------------------------- MODULE RunClients -----------------------------
(***************************************************************************)
(* Tabs of the web client (apps/web/src) and other callers of the service. *)
(* A tab keeps a session and the result it displays; its requests are      *)
(* served and its answers arrive in any order, or are lost on the way.  A  *)
(* tab starts a request whenever its session changes, besides those that   *)
(* its user asks for, and takes every answer as the newest.                *)
(***************************************************************************)
EXTENDS TripRuns

CONSTANTS
  Tabs,
  Nothing,            \* no session, no result
  MaxOpen             \* bound on the calls that a tab has open when its user acts

ASSUME NothingAssumption == Nothing \notin Runs

VARIABLES
  tabs,               \* the session and the result on display in each tab
  sent,               \* requests on their way
  answers             \* answers on their way

clientVars == <<tabs, sent, answers>>
appVars == <<serviceVars, clientVars>>

View(r, v) == [run |-> r, version |-> v, bundle |-> runs[r].versions[v]]

CreateCall(t, k, request) == [tab |-> t, op |-> "create", key |-> k, request |-> request]
ReadCall(t, r) == [tab |-> t, op |-> "read", run |-> r]
RefreshCall(t, r) == [tab |-> t, op |-> "refresh", run |-> r]
ReplanCall(t, r, seen, i) ==
  [tab |-> t, op |-> "replan", run |-> r, seen |-> seen, instruction |-> i]
RestoreCall(t, r, v) == [tab |-> t, op |-> "restore", run |-> r, version |-> v]

Answer(call, view) == [call |-> call, view |-> view]
Failed(call) == Answer(call, Nothing)

ClientInit ==
  /\ ServiceInit
  /\ tabs = [t \in Tabs |-> [session |-> Nothing, shown |-> Nothing]]
  /\ sent = {}
  /\ answers = {}

-----------------------------------------------------------------------------
\* The form is disabled while it is submitted, the panel while it is busy.  A
\* panel that is mounted anew has forgotten that it was; open calls of a tab that
\* are alike are one.
OpenCalls(t) == {c \in sent \union {a.call : a \in answers} : c.tab = t}
Submitting(t) == \E c \in OpenCalls(t) : c.op = "create"
Busy(t) ==
  \E c \in OpenCalls(t) : c.op \in {"replan", "restore", "refresh"} /\ c.run = tabs[t].session
PanelReady(t) ==
  /\ tabs[t].session # Nothing /\ tabs[t].shown # Nothing /\ ~ Busy(t)
  /\ Cardinality(OpenCalls(t)) < MaxOpen

\* createRun makes a key of its own for every call, used by nobody else.
SentWith(k) == \E c \in sent : c.op = "create" /\ c.key = k
FreshKey(k) == ~ KeyInUse(k) /\ ~ SentWith(k)

Submit(t) ==
  /\ ~ Submitting(t)
  /\ Cardinality(OpenCalls(t)) < MaxOpen
  /\ \E k \in Keys, request \in Requests :
       FreshKey(k) /\ sent' = sent \union {CreateCall(t, k, request)}
  /\ UNCHANGED <<serviceVars, tabs, answers>>

\* The instruction goes to the run of the session, with the version on display.
SubmitInstruction(t) ==
  /\ PanelReady(t)
  /\ \E i \in Instructions :
       sent' = sent \union {ReplanCall(t, tabs[t].session, tabs[t].shown, i)}
  /\ UNCHANGED <<serviceVars, tabs, answers>>

\* The buttons of the versions that the panel has listed.
PressRestore(t) ==
  /\ PanelReady(t)
  /\ \E v \in 1..MaxVersions :
       /\ MayRestore(tabs[t].session, v)
       /\ sent' = sent \union {RestoreCall(t, tabs[t].session, v)}
  /\ UNCHANGED <<serviceVars, tabs, answers>>

-----------------------------------------------------------------------------
\* A request is served in one step; every refusal reaches the tab as an error.
Reply(call, view) ==
  /\ sent' = sent \ {call}
  /\ answers' = answers \union {Answer(call, view)}
  /\ UNCHANGED tabs

ServeCreate(call) ==
  /\ call.op = "create"
  /\ \/ \E r \in Runs : Create(call.key, call.request, r) /\ Reply(call, [run |-> r])
     \/ CreateRefused(call.key, call.request) /\ UNCHANGED serviceVars /\ Reply(call, Nothing)

ServeRead(call) ==
  /\ call.op = "read"
  /\ Reply(call, IF ResultAvailable(call.run) THEN View(call.run, runs[call.run].current)
                 ELSE Nothing)
  /\ UNCHANGED serviceVars

ServeRefresh(call) ==
  /\ call.op = "refresh"
  /\ Reply(call, Nothing)
  /\ UNCHANGED serviceVars

ServeReplan(call) ==
  /\ call.op = "replan"
  /\ \/ /\ Replan(call.run, call.seen.version, call.instruction)
        /\ Reply(call, View(call.run, runs[call.run].current)')
     \/ ~ MayReplan(call.run, call.seen.version) /\ UNCHANGED serviceVars /\ Reply(call, Nothing)

ServeRestore(call) ==
  /\ call.op = "restore"
  /\ \/ Restore(call.run, call.version) /\ Reply(call, View(call.run, call.version))
     \/ ~ MayRestore(call.run, call.version) /\ UNCHANGED serviceVars /\ Reply(call, Nothing)

Serve(call) ==
  \/ ServeCreate(call) \/ ServeRead(call) \/ ServeRefresh(call)
  \/ ServeReplan(call) \/ ServeRestore(call)

LoseRequest(call) ==
  /\ Reply(call, Nothing)
  /\ UNCHANGED serviceVars

LoseAnswer(a) ==
  /\ a.view # Nothing
  /\ answers' = (answers \ {a}) \union {Failed(a.call)}
  /\ UNCHANGED <<serviceVars, tabs, sent>>

-----------------------------------------------------------------------------
\* The run that was created becomes the session, and the session is read.
TakeCreated(t, a) ==
  /\ a.call.op = "create"
  /\ IF a.view = Nothing
     THEN UNCHANGED <<tabs, sent>>
     ELSE /\ tabs' = [tabs EXCEPT ![t] = [session |-> a.view.run, shown |-> Nothing]]
          /\ sent' = sent \union {ReadCall(t, a.view.run)}

TakeRead(t, a) ==
  /\ a.call.op = "read"
  /\ tabs' = [tabs EXCEPT ![t].shown = a.view]
  /\ UNCHANGED sent

TakeRefresh(t, a) ==
  /\ a.call.op = "refresh"
  /\ UNCHANGED <<tabs, sent>>

\* acceptResult: the result is displayed, the session becomes a new object and
\* is read again; the panel reads the history of its own session.
TakeResult(t, a) ==
  /\ a.call.op \in {"replan", "restore"}
  /\ IF a.view = Nothing
     THEN UNCHANGED <<tabs, sent>>
     ELSE /\ tabs' = [tabs EXCEPT ![t].shown = a.view]
          /\ sent' = sent \union {ReadCall(t, tabs[t].session), RefreshCall(t, a.call.run)}

Take(t, a) ==
  /\ a.call.tab = t
  /\ answers' = answers \ {a}
  /\ TakeCreated(t, a) \/ TakeRead(t, a) \/ TakeRefresh(t, a) \/ TakeResult(t, a)
  /\ UNCHANGED serviceVars

-----------------------------------------------------------------------------
\* Other callers use the rest of the interface, and may repeat a create.
OtherCaller ==
  /\ \/ \E k \in Keys, request \in Requests, r \in Runs :
          /\ ~ SentWith(k)
          /\ Create(k, request, r) \/ (CreatedBefore(k, request, r) /\ UNCHANGED serviceVars)
     \/ \E r \in Runs : Cancel(r) \/ Clarify(r) \/ Delete(r)
     \/ \E r \in Runs, base \in 0..MaxVersions, i \in Instructions :
          Replan(r, base, i)
     \/ \E r \in Runs, v \in 1..MaxVersions : Restore(r, v)
  /\ UNCHANGED clientVars

AppNext ==
  \/ \E t \in Tabs : Submit(t) \/ SubmitInstruction(t) \/ PressRestore(t)
  \/ \E call \in sent : Serve(call) \/ LoseRequest(call)
  \/ \E a \in answers : LoseAnswer(a)
  \/ \E t \in Tabs, a \in answers : Take(t, a)
  \/ OtherCaller

AppSpec == ClientInit /\ [][AppNext]_appVars

-----------------------------------------------------------------------------
\* A plan that a user asked to change is the plan the user had on display:
\* when a replan is answered, the new version was made from the version that
\* the tab displayed when the instruction was submitted, although other tabs
\* and callers replan and restore meanwhile.  (A tab that has begun another
\* run may display a late result of the run before; such answers are left out.)
\* The difference that the panel then reads names the change.
ReplanBuildsOnDisplay ==
  \A a \in answers :
    (a.call.op = "replan" /\ a.view # Nothing /\ a.call.seen.run = a.call.run) =>
      /\ a.view.bundle = Append(a.call.seen.bundle, a.call.instruction)
      /\ Stored(a.call.run) =>
           {"assumptions", "collaboration_summary"} \subseteq
             Diff(a.call.run, a.call.seen.version, a.view.version)
=============================================================================
