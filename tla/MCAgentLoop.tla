---------------------------- MODULE MCAgentLoop ----------------------------
(***************************************************************************)
(* Two agents of one run share a ledger; each has a router with the        *)
(* candidates of three tiers, the last one without its key.  Their models  *)
(* answer with the output, with one or two tool calls, with something      *)
(* unusable, or not at all.                                                *)
(***************************************************************************)
EXTENDS AgentLoop

CONSTANTS run, first, second

MCExecutions == {first, second}
MCRunOf == [x \in MCExecutions |-> run]
MCAgentOf == [x \in MCExecutions |-> x]
MCGatewayOf == [x \in MCExecutions |-> <<<<x, 1>>, <<x, 2>>, <<x, 3>>>>]
MCMaxAttempts == ChainAttempts({"default", "advanced", "flagship"}, ProfileTiers)
MCKeyOf == <<"given", "optional", "missing">>
MCPrice ==
  [small |-> [input |-> 300000, cached |-> 100000, output |-> 1000000]]

Spent == [input |-> 10, cached |-> 4, output |-> 3]

Body(calls, texts, usage, model) ==
  [post |-> "body",
   body |-> [listed |-> TRUE, calls |-> calls, texts |-> texts, usage |-> usage, model |-> model]]

Call(tool) == WireCall(TRUE, TRUE, TRUE, tool, TRUE)
Search == Call("search")
Status(code) == [post |-> "status", code |-> code]

Final == Body(<<>>, <<"valid">>, Spent, "small")
Misshapen == Body(<<>>, <<"other">>, Spent, "small")
OneCall == Body(<<Search>>, <<>>, Spent, "small")

MCReplies ==
  {Final, Misshapen, OneCall,
   Body(<<Search, Call("write")>>, <<>>, Spent, "small"),
   Body(<<WireCall(TRUE, TRUE, FALSE, "search", TRUE)>>, <<>>, Spent, "small"),
   [post |-> "undecodable"], Status(429)}

=============================================================================
