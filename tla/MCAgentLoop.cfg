SPECIFICATION AgentSpec
CONSTANTS
  run = run
  first = first
  second = second
  Executions <- MCExecutions
  RunOf <- MCRunOf
  AgentOf <- MCAgentOf
  GatewayOf <- MCGatewayOf
  KeyOf <- MCKeyOf
  Price <- MCPrice
  NoLimit = NoLimit
  RunLimit = 12
  AgentLimit = 6
  DayLimit = 18
  MaxAttempts <- MCMaxAttempts
  MaxTotal = 3
  MaxSteps = 2
  MaxToolCalls = 2
  Allowlist = {"search"}
  Registry = {"search"}
  Replies <- MCReplies
  LastDay = 1
INVARIANTS
  OverrunIsReported
  UsageIsPaidFor
  RouteFollowsPolicy
  CallsAnswered
PROPERTIES
  ExecutionsEnd
CHECK_DEADLOCK FALSE
