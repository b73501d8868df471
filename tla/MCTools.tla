------------------------------ MODULE MCTools ------------------------------
(***************************************************************************)
(* Tools with one of two profiles: two callers of one HTTP provider, or    *)
(* the clients of one MCP server.  The profiles share no state.            *)
(***************************************************************************)
EXTENDS TravelTools, McpStdio

CONSTANTS a, b
MCMatrices == {<<a, b>>}
MCPairs == {<<a, b>>, <<b, a>>}
MCUrls == MCPairs \union {Forecast}
MCSingles == {<<a, b>>}
MCPages == <<{"a", "b"}, {"c"}>>

VARIABLE profile
MCInit == ToolsInit /\ McpInit /\ profile \in {"http", "mcp"}
MCNext ==
  \/ profile = "http" /\ ToolsNext /\ UNCHANGED <<mcpVars, profile>>
  \/ profile = "mcp" /\ McpNext /\ UNCHANGED <<toolVars, profile>>
MCSpec == MCInit /\ [][MCNext]_<<toolVars, mcpVars, profile>> /\ ToolsFairness
=============================================================================
