---------------------------- MODULE TripWorkflow ----------------------------
(***************************************************************************)
(* The life of a trip on the Blackboard: calls of the 1+4 workflow publish *)
(* the first version of its artifacts, sessions of targeted repair publish *)
(* the later ones.  They meet only on the Blackboard.                      *)
(***************************************************************************)
EXTENDS OnePlusFour, TargetedRepair

TripInit == Init /\ CallInit /\ RepairInit

TripNext ==
  \/ CallStep /\ UNCHANGED repairVars
  \/ RepairStep /\ UNCHANGED callVars

tripVars == <<vars, callVars, repairVars>>

\* The event loop runs a coroutine that can go on, and services and handlers
\* return or raise.  Nobody has to ask for a plan or to answer a question.
TripFairness ==
  /\ \A c \in Calls, t \in Tasks : WF_tripVars(TaskEnds(c, t) /\ UNCHANGED repairVars)
  /\ \A x \in Sessions : WF_tripVars(ExecuteStep(x) /\ UNCHANGED callVars)

TripSpec == TripInit /\ [][TripNext]_tripVars /\ TripFairness

-----------------------------------------------------------------------------
\* Every variable stays in its type.
TripTypeOK == TypeOK /\ CallTypeOK /\ RepairTypeOK

\* Somebody is at work on the run.
AtWork ==
  \/ \E c \in Calls : result[c] = "running" \/ \E t \in Tasks : progress[c][t] = "working"
  \/ \E x \in Sessions : Executing(x)

\* Whatever slots calls and sessions take from each other, the work on a run comes
\* to an end: every call returns or raises, the research tasks that gather left
\* behind end as well, and so does every round of repair.
WorkSettles == <>[] ~ AtWork
=============================================================================
