---------------------------- MODULE UsageLedger ----------------------------
(***************************************************************************)
(* The ledger of packages/models/ledger.py: an append-only list of priced  *)
(* turns and tool fees, and the decision about three budgets that every    *)
(* append comes with.  The lock is never waited for: nothing inside it     *)
(* suspends, so that an append with its decision is one step.              *)
(***************************************************************************)
EXTENDS Integers, Sequences, SequencesExt

CONSTANTS
  Price,        \* [model -> [input, cached, output]] in microunits per million
  NoLimit,      \* a limit that is not configured
  RunLimit, AgentLimit, DayLimit

ASSUME PriceAssumption ==
  Price \in [DOMAIN Price -> [input : Nat, cached : Nat, output : Nat]]

ASSUME LimitsAssumption ==
  \A limit \in {RunLimit, AgentLimit, DayLimit} : limit = NoLimit \/ limit \in Nat

VARIABLES
  entries,      \* the entries of the ledger, in the order of their appends
  today         \* the day of datetime.now

ledgerVars == <<entries, today>>

-----------------------------------------------------------------------------
Million == 1000000

\* ModelPrice.estimate, rounded up to the next microunit.
Estimate(price, usage) ==
  LET cached == IF usage.cached < usage.input THEN usage.cached ELSE usage.input
  IN ((usage.input - cached) * price.input + cached * price.cached
        + usage.output * price.output + Million - 1) \div Million

Entry(id, run, agent, cost, day) ==
  [id |-> id, run |-> run, agent |-> agent, cost |-> cost, day |-> day]

\* The sum over the entries with these positions.
CostOf(log, which) == SumFunctionOnSet([i \in DOMAIN log |-> log[i].cost], which)

RunTotal(log, run) == CostOf(log, {i \in DOMAIN log : log[i].run = run})
AgentTotal(log, run, agent) ==
  CostOf(log, {i \in DOMAIN log : log[i].run = run /\ log[i].agent = agent})
DayTotal(log, day) == CostOf(log, {i \in DOMAIN log : log[i].day = day})

Over(total, limit) == limit # NoLimit /\ total > limit

\* _decision: the scopes whose limit the entries exceed.
Exceeded(log, run, agent, day) ==
  {scope \in {"run", "agent", "day"} :
     CASE scope = "run" -> Over(RunTotal(log, run), RunLimit)
       [] scope = "agent" -> Over(AgentTotal(log, run, agent), AgentLimit)
       [] scope = "day" -> Over(DayTotal(log, day), DayLimit)}

IdTaken(id) == \E i \in DOMAIN entries : entries[i].id = id
Priced(model) == model \in DOMAIN Price

LedgerInit == entries = <<>> /\ today = 0

Append1(entry) == entries' = Append(entries, entry)
=============================================================================
