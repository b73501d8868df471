---------------------------- MODULE TravelTools ----------------------------
(***************************************************************************)
(* The live travel tools of packages/tools (amap, routes, weather), which  *)
(* share one provider.  A caller runs one tool at a time: geocoding, the     *)
(* search for places and one route are single requests, a forecast is one  *)
(* that falls back to fixture data, a route matrix is a sequence of them.  *)
(***************************************************************************)
EXTENDS HttpProvider, Sequences

CONSTANTS
  Matrices,          \* the endpoints of a route matrix, in order
  MaxPairs,          \* max_pairs of a route matrix
  Singles,           \* the requests of tools that make just one
  Forecast,          \* the request of the forecast
  Accepted,          \* the bodies in which the provider reports success
  NoWork

ASSUME AcceptedAssumption == Accepted \subseteq Bodies

\* RouteMatrixInput: two endpoints or more, no two of them the same.
ASSUME RequestAssumption ==
  /\ Singles \union {Forecast} \subseteq Urls
  /\ MaxPairs \in Nat \ {0}
  /\ \A endpoints \in Matrices :
       /\ Len(endpoints) \in Nat /\ Len(endpoints) >= 2
       /\ \A i, j \in 1..Len(endpoints) : i # j =>
            endpoints[i] # endpoints[j] /\ <<endpoints[i], endpoints[j]>> \in Urls

VARIABLE work        \* the tool that each caller runs, or what it returned

toolVars == <<httpVars, work>>

\* The pairs of a matrix for one mode: each endpoint with every other one, in
\* their order, cut to max_pairs.
Pairs(endpoints) ==
  LET others == Len(endpoints) - 1
      from(k) == ((k - 1) \div others) + 1
      to(k) == ((k - 1) % others) + 1
  IN [k \in 1..(Len(endpoints) * others) |->
        <<endpoints[from(k)], endpoints[IF to(k) < from(k) THEN to(k) ELSE to(k) + 1]>>]
Selected(endpoints) ==
  LET pairs == Pairs(endpoints)
  IN SubSeq(pairs, 1, IF Len(pairs) < MaxPairs THEN Len(pairs) ELSE MaxPairs)

Running(c) == work[c] # NoWork /\ work[c].mode = "running"
Tool(kind, requests) ==
  [kind |-> kind, mode |-> "running", todo |-> requests, asked |-> requests, got |-> <<>>]

ToolsInit == HttpInit /\ work = [c \in Callers |-> NoWork]

\* Code without an await goes on before anything else runs.
Due(c) == Running(c) /\ ~ Waiting(c)
NobodyDue == \A c \in Callers : ~ Due(c)

StartTool(c) ==
  /\ ~ Running(c)
  /\ calls' = [calls EXCEPT ![c] = Idle]
  /\ \/ \E u \in Singles : work' = [work EXCEPT ![c] = Tool("single", <<u>>)]
     \/ work' = [work EXCEPT ![c] = Tool("forecast", <<Forecast>>)]
     \/ \E endpoints \in Matrices :
          work' = [work EXCEPT ![c] = Tool("matrix", Selected(endpoints))]
  /\ UNCHANGED <<slot, failures, circuit, cache, seen>>

NextRequest(c) ==
  /\ Due(c) /\ calls[c].pc = "idle"
  /\ work[c].todo # <<>>
  /\ Begin(c, Head(work[c].todo))
  /\ UNCHANGED work

\* A mutant of AfterFailure: a matrix goes on without the pair.
SkipFailure(w) == [w EXCEPT !.todo = Tail(@), !.mode = IF Len(w.todo) = 1 THEN "live" ELSE @]

\* A forecast falls back to fixture data, the other tools fail as a whole.
AfterFailure(w) ==
  [w EXCEPT !.mode = IF w.kind = "forecast" THEN "fixture" ELSE "error", !.got = <<>>]

\* An answer that reports a failure is an error of every tool.
AfterAnswer(w, answer) ==
  IF answer.body \in Accepted
  THEN [w EXCEPT !.got = Append(@, answer.url), !.todo = Tail(@),
                 !.mode = IF Len(w.todo) = 1 THEN "live" ELSE @]
  ELSE [w EXCEPT !.mode = "error", !.got = <<>>]

TakeAnswer(c) ==
  /\ Due(c) /\ calls[c].pc \in {"returned", "failed"}
  /\ work' = [work EXCEPT ![c] = IF calls[c].pc = "failed" THEN AfterFailure(@)
                                 ELSE AfterAnswer(@, calls[c])]
  /\ calls' = [calls EXCEPT ![c] = Idle]
  /\ UNCHANGED <<slot, failures, circuit, cache, seen>>

\* The agent that called the tool ran out of time.
CancelTool(c) ==
  /\ Running(c) /\ CancelCall(c)
  /\ work' = [work EXCEPT ![c] = NoWork]

ToolsNext ==
  \/ \E c \in Callers : NextRequest(c) \/ TakeAnswer(c)
  \/ /\ NobodyDue
     /\ \/ \E c \in Callers : StartTool(c) \/ CancelTool(c)
        \/ \E c \in Callers : Proceed(c) /\ UNCHANGED work
        \/ Tick /\ UNCHANGED work

\* Timers run out, and a request that is under way ends (timeout_seconds).  The
\* code of other callers may come first, but the event loop serves what is ready
\* in turn, and the clock does not wait for it.
ToolsFairness ==
  /\ SF_toolVars(NobodyDue /\ Tick /\ UNCHANGED work)
  /\ \A c \in Callers :
       /\ WF_toolVars(NextRequest(c) \/ TakeAnswer(c))
       /\ SF_toolVars(NobodyDue /\ Proceed(c) /\ UNCHANGED work)

ToolsSpec == ToolsInit /\ [][ToolsNext]_toolVars /\ ToolsFairness

-----------------------------------------------------------------------------
\* A matrix that is returned has the routes of exactly its pairs, in their
\* order, although other callers trip and close the circuit and fill the cache
\* between its requests (AmapRouteAdapter.matrix).
MatrixIsWhole ==
  \A c \in Callers :
    (work[c] # NoWork /\ work[c].kind = "matrix" /\ work[c].mode = "live") =>
      work[c].got = work[c].asked

\* Every tool that is started ends, also when the provider fails for ever.
ToolsEnd == \A c \in Callers : Running(c) ~> ~ Running(c)
=============================================================================
