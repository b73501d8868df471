--------------------------- MODULE TargetedRepair ---------------------------
(***************************************************************************)
(* The TargetedRepairController of packages/workflow/repair.py and the     *)
(* sessions that use it: a review asks for patches, plan computes the      *)
(* tasks they invalidate, or waits for the user, and execute republishes   *)
(* these tasks in dependency order, one handler after the other.           *)
(*                                                                         *)
(* The controller keeps no state of its own; a session carries the number  *)
(* of completed rounds from one plan to the next, as its signature asks.   *)
(* Sessions of one run may overlap.  Handlers are given from outside: one  *)
(* builds its artifact from the upstream references of its context and     *)
(* numbers it after the version it knows, which it learned when its        *)
(* session made the plan or, with HandlerLooks, when it was called.        *)
(***************************************************************************)
EXTENDS Blackboard, FiniteSets

CONSTANTS
  Sessions,     \* users of the controller
  RepairRun,    \* the run they repair
  MaxRounds,    \* TargetedRepairController.max_revision_rounds
  Reviews,      \* the sets of target agents that the patches of a review have, those
                \* that are registered; plan raises a ValueError when none is
  HandlerLooks  \* whether handlers look up the version themselves

\* TASK_ORDER and TASK_DEPENDENCIES.
TaskOrder == [destination |-> 1, mobility |-> 2, routes |-> 3, planning |-> 4, critic |-> 5]
RepairTasks == {"destination", "mobility", "routes", "planning", "critic"}
TaskDeps ==
  [destination |-> {}, mobility |-> {}, routes |-> {"destination", "mobility"},
   planning |-> {"routes"}, critic |-> {"planning"}]

\* The tasks of AGENT_TASKS; the coordinator stands for the user.
AgentTasks == {"destination", "mobility", "planning", "critic"}
Targets == AgentTasks \union {"coordinator"}

RepairId(x, k, t) == <<x, k, t>>
RepairSlot(t) == <<RepairRun, t>>

ASSUME RepairAssumption ==
  /\ \A t \in RepairTasks : RepairSlot(t) \in Slots /\ RunOf[RepairSlot(t)] = RepairRun
  /\ MaxRounds \in Nat
  /\ \A x \in Sessions, k \in 1..MaxRounds, t \in RepairTasks : RepairId(x, k, t) \in Artifacts
  /\ Reviews \subseteq (SUBSET Targets) \ {{}}
  /\ HandlerLooks \in BOOLEAN

VARIABLES
  place,    \* where a session is
  rounds,   \* completed_revision_rounds
  seeds,    \* the tasks the patches or the answers name
  todo,     \* the invalidated tasks that execute has not published yet
  mine,     \* latest_by_task: the tasks it has published in this round
  known,    \* the versions the handlers number their artifacts after
  context   \* the version read before a write, and the upstream references

repairVars == <<place, rounds, seeds, todo, mine, known, context>>

NoContext == [expected |-> 0, upstream |-> {}]

RepairInit ==
  /\ place = [x \in Sessions |-> "review"]
  /\ rounds = [x \in Sessions |-> 0]
  /\ seeds = [x \in Sessions |-> {}]
  /\ todo = [x \in Sessions |-> {}]
  /\ mine = [x \in Sessions |-> {}]
  /\ known = [x \in Sessions |-> [t \in RepairTasks |-> 0]]
  /\ context = [x \in Sessions |-> NoContext]

Grow(S) == S \union {t \in RepairTasks : TaskDeps[t] \intersect S # {}}

\* Mutant of Closure: the tasks that depend on a seed directly.
DirectClosure(S) == Grow(S)

\* _dependency_closure: tasks are added until no dependency is left out, which
\* is the case after as many passes as a chain of dependencies has links.
Closure(S) == Grow(Grow(Grow(S)))

Versions0 == [t \in RepairTasks |-> head[RepairSlot(t)]]

MayRevise(x) == rounds[x] < MaxRounds

Ready(x, S) ==
  /\ place' = [place EXCEPT ![x] = "ready"]
  /\ seeds' = [seeds EXCEPT ![x] = S]
  /\ todo' = [todo EXCEPT ![x] = Closure(S)]
  /\ mine' = [mine EXCEPT ![x] = {}]
  /\ known' = [known EXCEPT ![x] = Versions0]
  /\ UNCHANGED <<vars, rounds, context>>

\* The run has a review to look at.
Reviewed == head[RepairSlot("critic")] > 0

\* plan for a review that wants the given patches.
Plan(x, targets) ==
  /\ place[x] = "review" /\ Reviewed
  /\ MayRevise(x)
  /\ "coordinator" \notin targets
  /\ Ready(x, targets)

Move(x, p) ==
  /\ place' = [place EXCEPT ![x] = p]
  /\ UNCHANGED <<vars, rounds, seeds, todo, mine, known, context>>

PlanWaits(x, targets) ==
  /\ place[x] = "review" /\ Reviewed
  /\ MayRevise(x)
  /\ "coordinator" \in targets
  /\ Move(x, "waiting_user")

\* RevisionLimitExceededError.
PlanRefused(x) ==
  /\ place[x] = "review" /\ Reviewed
  /\ ~ MayRevise(x)
  /\ Move(x, "limit")

Passed(x) ==
  /\ place[x] = "review" /\ Reviewed
  /\ Move(x, "passed")

\* resume_after_clarification: the answers concern one branch or both.
ResumeAfterClarification(x) ==
  /\ place[x] = "waiting_user"
  /\ MayRevise(x)
  /\ \E S \in {{"mobility"}, {"destination"}, {"destination", "mobility"}} : Ready(x, S)

-----------------------------------------------------------------------------
(* execute *)

\* The task whose turn it is.
Current(x) == CHOOSE t \in todo[x] : \A u \in todo[x] : TaskOrder[t] <= TaskOrder[u]

LastTask(x) == todo[x] = {Current(x)}

\* What a dependency of the current task is taken from.
Upstream(x, d) ==
  IF d \in mine[x] THEN RepairId(x, rounds[x] + 1, d) ELSE Latest(RepairSlot(d))

Available(x, d) == d \in mine[x] \/ head[RepairSlot(d)] > 0

\* The context is put together and the handler called.
CallHandler(x) ==
  /\ place[x] = "ready"
  /\ \A d \in TaskDeps[Current(x)] : Available(x, d)
  /\ place' = [place EXCEPT ![x] = "handling"]
  /\ context' = [context EXCEPT ![x].upstream = {Upstream(x, d) : d \in TaskDeps[Current(x)]}]
  /\ known' = IF HandlerLooks THEN [known EXCEPT ![x] = Versions0] ELSE known
  /\ UNCHANGED <<vars, rounds, seeds, todo, mine>>

\* The artifact has the number after the latest version.
Follows(x) == known[x][Current(x)] = head[RepairSlot(Current(x))]

\* The handler has returned and the latest version is read.
HandlerReturns(x) ==
  /\ place[x] = "handling"
  /\ Follows(x)
  /\ place' = [place EXCEPT ![x] = "writing"]
  /\ context' = [context EXCEPT ![x].expected = head[RepairSlot(Current(x))]]
  /\ UNCHANGED <<vars, rounds, seeds, todo, mine, known>>

\* There is no handler or no upstream artifact, the handler raises or brings an artifact of
\* another run or task, or "repair Artifact version must follow the Blackboard
\* head".
RepairFails(x) ==
  /\ place[x] \in {"ready", "handling"}
  /\ Move(x, "failed")

\* The version the artifact was given by its handler.
Numbered(x) == known[x][Current(x)] + 1

WriteVersion(x) ==
  /\ place[x] = "writing"
  /\ Numbered(x) \in Versions
  /\ Write(RepairId(x, rounds[x] + 1, Current(x)), RepairSlot(Current(x)), Numbered(x),
           context[x].upstream, context[x].expected)
  /\ mine' = [mine EXCEPT ![x] = @ \union {Current(x)}]
  /\ todo' = [todo EXCEPT ![x] = @ \ {Current(x)}]
  /\ context' = [context EXCEPT ![x] = NoContext]
  /\ place' = [place EXCEPT ![x] = IF LastTask(x) THEN "review" ELSE "ready"]
  /\ rounds' = [rounds EXCEPT ![x] = IF LastTask(x) THEN @ + 1 ELSE @]
  /\ UNCHANGED <<seeds, known>>

Writable(a, s, version, expected) == FollowsHead(s, version, expected) /\ NewId(a, s)

\* ArtifactVersionConflictError.
WriteRefused(x) ==
  /\ place[x] = "writing"
  /\ ~ Writable(RepairId(x, rounds[x] + 1, Current(x)), RepairSlot(Current(x)),
                Numbered(x), context[x].expected)
  /\ Move(x, "failed")

PlanStep(x) ==
  \/ \E targets \in Reviews : Plan(x, targets) \/ PlanWaits(x, targets)
  \/ PlanRefused(x)
  \/ Passed(x)
  \/ ResumeAfterClarification(x)

ExecuteStep(x) ==
  CallHandler(x) \/ HandlerReturns(x) \/ RepairFails(x) \/ WriteVersion(x) \/ WriteRefused(x)

RepairStep == \E x \in Sessions : PlanStep(x) \/ ExecuteStep(x)

-----------------------------------------------------------------------------
Executing(x) == place[x] \in {"ready", "handling", "writing"}

\* Every variable of the sessions stays in its type.
RepairTypeOK ==
  /\ place \in [Sessions -> {"review", "waiting_user", "limit", "passed", "ready",
                             "handling", "writing", "failed"}]
  /\ rounds \in [Sessions -> 0..MaxRounds]
  /\ seeds \in [Sessions -> SUBSET AgentTasks]
  /\ todo \in [Sessions -> SUBSET RepairTasks]
  /\ mine \in [Sessions -> SUBSET RepairTasks]
  /\ known \in [Sessions -> [RepairTasks -> 0..MaxVersion]]
  /\ context \in [Sessions -> [expected : 0..MaxVersion, upstream : SUBSET Artifacts]]
  /\ \A x \in Sessions : Executing(x) => todo[x] # {} /\ rounds[x] < MaxRounds

\* The tasks that depend on a seed, directly or not: those that no set can leave
\* out which holds the seeds and every task one of its members feeds.
Downstream(S) ==
  {t \in RepairTasks :
     \A U \in SUBSET RepairTasks :
       (S \subseteq U /\ \A u \in RepairTasks : TaskDeps[u] \intersect U # {} => u \in U)
       => t \in U}

\* A session touches what its patches or answers invalidate and nothing else, in
\* an order in which nothing is rebuilt before what it is built from; and a round
\* that ends without a failure has rebuilt all of it.
RepairsExactlyDownstream ==
  \A x \in Sessions :
    /\ \A t \in RepairTasks :
         MayRevise(x) /\ Stored(RepairId(x, rounds[x] + 1, t)) => t \in Downstream(seeds[x])
    /\ place[x] \in {"review", "passed", "limit"} /\ rounds[x] > 0 =>
         /\ mine[x] = Downstream(seeds[x])
         /\ \A t, d \in mine[x] :
              d \in TaskDeps[t] =>
                RepairId(x, rounds[x], d) \in record[RepairId(x, rounds[x], t)].parents

\* No update is lost unnoticed: when nobody is at work on the run and no session
\* was told of a failure, the latest artifact of every task is built from the
\* latest artifacts of the tasks it depends on, so the review in force is about
\* what all sessions have changed.
StaleOnlyIfReported ==
  Reviewed /\ (\A x \in Sessions : ~ Executing(x) /\ place[x] # "failed") =>
    \A t \in RepairTasks : \A d \in TaskDeps[t] :
      Latest(RepairSlot(d)) \in record[Latest(RepairSlot(t))].parents
=============================================================================
