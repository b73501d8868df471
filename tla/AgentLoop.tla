----------------------------- MODULE AgentLoop -----------------------------
(***************************************************************************)
(* Executions of BaseAgent.run (packages/harness/agent.py) over the chain  *)
(* of gateways that docs/11 describes: the agent calls a routed gateway,   *)
(* whose candidates are budgeted gateways on one ledger, each on top of an *)
(* adapter.  Between two awaits an execution runs alone; the awaits are    *)
(* the answer of a provider and the handler of a tool.                     *)
(***************************************************************************)
EXTENDS ModelAdapters, UsageLedger, ModelRouting

CONSTANTS
  Executions,
  RunOf, AgentOf,     \* the run and the agent of an execution
  GatewayOf,          \* [execution -> [candidate -> budgeted gateway]]
  KeyOf,              \* [candidate -> "given", "missing" or "optional"]
  MaxSteps, MaxToolCalls,
  Allowlist, Registry,  \* the tools of the agents, and those that are registered
  Replies,            \* what providers may answer
  LastDay             \* bound on today

ASSUME AgentAssumption ==
  /\ IsFiniteSet(Executions)
  /\ MaxSteps \in 1..50 /\ MaxToolCalls \in 0..100
  /\ \A x \in Executions : DOMAIN GatewayOf[x] = Candidates

\* What can come back over HTTP, and the lists and counters that an adapter
\* reads from a body.
ASSUME RepliesAssumption ==
  \A reply \in Replies :
    /\ reply.post \in {"body", "timeout", "status", "broken", "undecodable", "not_json",
                       "not_object"}
    /\ reply.post = "body" =>
         /\ reply.body.listed \in BOOLEAN
         /\ reply.body.calls \in Seq({reply.body.calls[i] : i \in DOMAIN reply.body.calls})
         /\ reply.body.usage \in [input : Int, cached : Int, output : Int]

VARIABLES
  sequence,           \* the counter of each budgeted gateway
  exec                \* the local variables of each execution

agentVars == <<ledgerVars, sequence, exec>>

Gateways == UNION {{GatewayOf[x][c] : c \in Candidates} : x \in Executions}

\* at: where the execution waits, or how it ended; pending: the calls of the
\* turn that are not answered yet; context: the tool results in the messages;
\* mark: the length of the ledger at the last turn that reached the agent.
NewExecution ==
  [at |-> "new", step |-> 0, called |-> 0, usage |-> 0, scopes |-> {}, mark |-> 0,
   context |-> 0, pending |-> <<>>, route |-> NewRoute, error |-> "none"]

Waiting(e) == e.at \in {"model", "tool"}

AgentInit ==
  /\ LedgerInit
  /\ sequence = [g \in Gateways |-> 0]
  /\ exec = [x \in Executions |-> NewExecution]

-----------------------------------------------------------------------------
\* An exception takes the local variables with it; a ModelRoutingError keeps
\* the attempts.
Fails(error) == [NewExecution EXCEPT !.at = "failed", !.error = error]

\* The next round of the loop over the steps, or its end.
NextStep(e) ==
  IF e.step < MaxSteps
  THEN [e EXCEPT !.at = "model", !.step = @ + 1, !.route = NewRoute]
  ELSE Fails("max_steps_exceeded")

\* What ToolGateway.execute tests before it calls the handler.
Refused(call) ==
  \/ call.tool \notin Allowlist
  \/ call.tool \notin Registry
  \/ ~ call.accepted

\* A mutant of NextCall: a call that is refused is passed over.
NextCallPassing(e) ==
  LET allowed == SelectSeq(e.pending, LAMBDA call : ~ Refused(call)) IN
  IF allowed = <<>> THEN NextStep([e EXCEPT !.pending = <<>>])
  ELSE [e EXCEPT !.at = "tool", !.pending = allowed]

\* The loop over the calls of a turn, up to the next handler.
NextCall(e) ==
  IF e.pending = <<>> THEN NextStep(e)
  ELSE IF Refused(Head(e.pending)) THEN Fails("tool_policy_error")
  ELSE [e EXCEPT !.at = "tool"]

Request(e, calls) ==
  IF e.called + Len(calls) > MaxToolCalls
  THEN Fails("tool_call_limit_exceeded")
  ELSE NextCall([e EXCEPT !.called = @ + Len(calls), !.pending = calls])

\* A turn that the router returns: its cost and its budget decision are added
\* up, then it asks for tools or it is the output.
Receive(e, turn, cost, decision, length) ==
  LET known == [e EXCEPT !.usage = @ + cost, !.scopes = @ \union decision, !.mark = length,
                         !.route = Ended(@, "success")]
  IN IF turn.calls # <<>> THEN Request(known, turn.calls)
     ELSE IF turn.output = "valid" THEN [known EXCEPT !.at = "returned"]
     ELSE Fails("output_validation_error")

\* A mutant of TryAgain: after the last candidate the first one has its turn.
TryAgainFromTheTop(e, kind) ==
  LET ended == Ended(e.route, kind) IN
  IF MayRetry(e.route, kind) THEN [e EXCEPT !.route = RetryOf(ended)]
  ELSE IF MayFallBack(e.route) THEN [e EXCEPT !.route = FallbackOf(ended)]
  ELSE [e EXCEPT !.route = NewRoute]

\* A ModelProviderError in the router: another attempt, another candidate, or
\* a ModelRoutingError.
TryAgain(e, kind) ==
  LET ended == Ended(e.route, kind) IN
  IF MayRetry(e.route, kind) THEN [e EXCEPT !.route = RetryOf(ended)]
  ELSE IF MayFallBack(e.route) THEN [e EXCEPT !.route = FallbackOf(ended)]
  ELSE [Fails("candidates_failed") EXCEPT !.route = ended]

-----------------------------------------------------------------------------
Start(x) ==
  /\ exec[x].at = "new"
  /\ exec' = [exec EXCEPT ![x] = NextStep(@)]
  /\ UNCHANGED <<ledgerVars, sequence>>

Gateway(x) == GatewayOf[x][exec[x].route.candidate]
Answers(x, reply) == Outcome(KeyOf[exec[x].route.candidate], reply)

\* The usage entry is named after the run, the agent and the number of the
\* turn among those of this gateway.
EntryId(x) == <<RunOf[x], AgentOf[x], sequence[Gateway(x)] + 1>>

EntryOf(x, turn) ==
  Entry(EntryId(x), RunOf[x], AgentOf[x], Estimate(Price[turn.model], turn.usage), today)

\* A mutant of Decision: the budgets are looked at before the append.
DecisionBefore(x, log) == Exceeded(Front(log), RunOf[x], AgentOf[x], today)

Decision(x, log) == Exceeded(log, RunOf[x], AgentOf[x], today)

\* A mutant of TurnCost: the running total of the agent.
TurnCostSoFar(x, log) == AgentTotal(log, RunOf[x], AgentOf[x])

\* The cost that the budgeted gateway writes into the turn.
TurnCost(x, log) == Last(log).cost

ProviderFails(x, reply) ==
  /\ exec[x].at = "model"
  /\ Answers(x, reply).is = "failure"
  /\ exec' = [exec EXCEPT ![x] = TryAgain(@, Answers(x, reply).kind)]
  /\ UNCHANGED <<ledgerVars, sequence>>

\* An exception of the adapter that is no ModelProviderError passes the router.
AnswerEscapes(x, reply) ==
  /\ exec[x].at = "model"
  /\ Answers(x, reply).is = "escape"
  /\ exec' = [exec EXCEPT ![x] = Fails("model_error")]
  /\ UNCHANGED <<ledgerVars, sequence>>

Recordable(x, turn) == Priced(turn.model) /\ ~ IdTaken(EntryId(x))

\* So does the KeyError of an unknown model, and the ValueError of an entry
\* that exists: the tokens are spent, and nothing is recorded.
TurnNotRecorded(x, reply) ==
  /\ exec[x].at = "model"
  /\ Answers(x, reply).is = "turn"
  /\ ~ Recordable(x, Answers(x, reply))
  /\ sequence' = [sequence EXCEPT ![Gateway(x)] = @ + 1]
  /\ exec' = [exec EXCEPT ![x] = Fails("model_error")]
  /\ UNCHANGED ledgerVars

\* The budgeted gateway records the turn, then the router looks at its output.
TurnRecorded(x, reply) ==
  LET turn == Answers(x, reply) IN
  /\ exec[x].at = "model"
  /\ turn.is = "turn"
  /\ Recordable(x, turn)
  /\ sequence' = [sequence EXCEPT ![Gateway(x)] = @ + 1]
  /\ Append1(EntryOf(x, turn))
  /\ exec' = [exec EXCEPT ![x] =
       IF Conforms(turn)
       THEN Receive(@, turn, TurnCost(x, entries'), Decision(x, entries'), Len(entries'))
       ELSE TryAgain(@, "schema")]
  /\ UNCHANGED today

\* The result of the call becomes a message.
Answered(e) == [e EXCEPT !.context = @ + 1, !.pending = Tail(@)]

\* The handler returns what the output model of the tool accepts.
ToolReturns(x) ==
  /\ exec[x].at = "tool"
  /\ exec' = [exec EXCEPT ![x] = NextCall(Answered(@))]
  /\ UNCHANGED <<ledgerVars, sequence>>

\* The handler returns something else, or it raises.
ToolFails(x) ==
  /\ exec[x].at = "tool"
  /\ \E error \in {"tool_policy_error", "tool_execution_error"} :
       exec' = [exec EXCEPT ![x] = Fails(error)]
  /\ UNCHANGED <<ledgerVars, sequence>>

\* asyncio.timeout cancels the await; an answer under way is lost.
TimesOut(x) ==
  /\ Waiting(exec[x])
  /\ exec' = [exec EXCEPT ![x] = Fails("timed_out")]
  /\ UNCHANGED <<ledgerVars, sequence>>

Midnight ==
  /\ today < LastDay
  /\ today' = today + 1
  /\ UNCHANGED <<entries, sequence, exec>>

AwaitEnds(x) ==
  \/ \E reply \in Replies :
       ProviderFails(x, reply) \/ AnswerEscapes(x, reply)
         \/ TurnNotRecorded(x, reply) \/ TurnRecorded(x, reply)
  \/ ToolReturns(x) \/ ToolFails(x) \/ TimesOut(x)

AgentNext == Midnight \/ \E x \in Executions : Start(x) \/ AwaitEnds(x)

\* A provider or a handler answers or fails, and if it does not the deadline
\* of the execution ends the wait.
AgentSpec ==
  AgentInit /\ [][AgentNext]_agentVars /\ \A x \in Executions : WF_agentVars(AwaitEnds(x))

-----------------------------------------------------------------------------
\* A limit that the ledger exceeds when an agent receives a turn is in the
\* scopes that its result reports, be it exceeded by this agent or by another,
\* or by a turn that the router threw away; and no scope is reported that the
\* ledger never exceeded (record_model and the partial flag of BaseAgent).
OverrunIsReported ==
  \A x \in Executions :
    LET e == exec[x]
        At(n) == Exceeded(SubSeq(entries, 1, n), RunOf[x], AgentOf[x], entries[n].day)
    IN e.mark > 0 =>
         /\ At(e.mark) \subseteq e.scopes
         /\ e.scopes \subseteq UNION {At(n) : n \in 1..e.mark}

\* What the executions of an agent in a run report as their cost is covered by
\* the entries of this agent and run, whoever else uses the ledger meanwhile.
UsageIsPaidFor ==
  \A x \in Executions :
    LET same == {y \in Executions : RunOf[y] = RunOf[x] /\ AgentOf[y] = AgentOf[x]}
    IN SumFunctionOnSet([y \in Executions |-> exec[y].usage], same)
         <= AgentTotal(entries, RunOf[x], AgentOf[x])

\* The attempts of a routed call are those the policy allows: at most
\* max_total_attempts, the candidates one after another in their order, each
\* retried only after a failure that is retryable and left only after one that
\* is not or after its last attempt; and the call is given up only when no
\* candidate or no attempt is left.
RouteFollowsPolicy ==
  \A x \in Executions :
    LET a == exec[x].route.attempts
        Of(c) == {i \in DOMAIN a : a[i].candidate = c}
        UsedUp(i) ==
          \/ a[i].outcome \notin Retryable
          \/ Cardinality(Of(a[i].candidate)) = MaxAttempts[a[i].candidate]
    IN /\ Len(a) <= MaxTotal
       /\ \A c \in Candidates : Cardinality(Of(c)) <= MaxAttempts[c]
       /\ a # <<>> => a[1].candidate = 1
       /\ \A i \in 1..(Len(a) - 1) :
            \/ a[i + 1].candidate = a[i].candidate /\ a[i].outcome \in Retryable
            \/ a[i + 1].candidate = a[i].candidate + 1 /\ UsedUp(i)
       /\ exec[x].error = "candidates_failed" =>
            \/ Len(a) = MaxTotal
            \/ Last(a).candidate = Len(MaxAttempts) /\ UsedUp(Len(a))

\* A model is asked only with every tool call of the turns before answered in
\* the messages, and a turn whose calls would exceed the budget has none of
\* them executed.
CallsAnswered ==
  \A x \in Executions :
    LET e == exec[x] IN
    /\ e.context + Len(e.pending) = e.called
    /\ e.at \in {"model", "returned"} => e.pending = <<>>
    /\ e.called <= MaxToolCalls

\* An execution that was started returns or raises, whatever the models ask
\* for and however they fail.
ExecutionsEnd ==
  \A x \in Executions : exec[x].at # "new" ~> exec[x].at \in {"returned", "failed"}

=============================================================================
