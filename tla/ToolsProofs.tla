---------------------------- MODULE ToolsProofs ----------------------------
(***************************************************************************)
(* Theorems about the travel tools, the HTTP provider they share and the   *)
(* MCP transport, for any callers, requests, matrices and policy.          *)
(*                                                                         *)
(* The parts of the provider that keep one another right have an invariant *)
(* each: CircuitInv compares the code's count of failures with what was    *)
(* seen, CacheInv adds the age of an answer to the time it is kept, and    *)
(* SpacingInv orders the slots that callers wait for, the last request     *)
(* and the next free slot on one line.  MatrixInv splits what a tool was   *)
(* asked for into what it got and what is left.  McpInv says what is in    *)
(* the pipe while no line is stray: the answer to the one reader, if any.  *)
(***************************************************************************)
EXTENDS TravelTools, McpStdio, SequenceTheorems, TLAPS

-----------------------------------------------------------------------------
\* The MCP transport.

OneHolder == \A c, d \in Clients : Holds(c) /\ Holds(d) => c = d

Reading(c) == clients[c].pc = "reading"

\* While no line is stray, the process and its pipe hold nothing but the one
\* request, or the one answer, of the client that reads.
PipeInv ==
  stray = 0 =>
    /\ (\A c \in Clients : ~ Reading(c)) => server = <<>> /\ pipe = <<>>
    /\ \A c \in Clients : Reading(c) =>
         \/ server = <<>> /\ pipe = <<>>
         \/ (\E line : server = <<line>> /\ line.id = clients[c].id) /\ pipe = <<>>
         \/ server = <<>> /\ (\E line : pipe = <<line>> /\ line.id = clients[c].id)

ReaderInv ==
  /\ DOMAIN clients = Clients
  /\ stray \in {0, 1}
  /\ process # "running" => server = <<>>
  /\ \A c \in Clients : Holds(c) =>
       clients[c] = [pc |-> clients[c].pc, what |-> clients[c].what, id |-> clients[c].id]

McpInv == ReaderInv /\ OneHolder /\ PipeInv /\ AnswerIsOwn

\* What a client does to the others: nothing.
OthersStay(c) == \A d \in Clients : d # c => clients'[d] = clients[d]

\* Nobody but the client at the head of the queue takes the lock, nobody but
\* the one that has it gives it back, and the lines go with the lock.
Releases(c) == DOMAIN clients' = Clients /\ OthersStay(c) /\ ~ Holds(c)'

LEMMA InitMcpInv == McpInit => McpInv
<1> SUFFICES ASSUME McpInit PROVE McpInv
  OBVIOUS
<1>1. \A c \in Clients : clients[c] = [pc |-> "rest"]
  BY DEF McpInit, Rest
<1> QED
  BY <1>1 DEF McpInit, McpInv, ReaderInv, OneHolder, PipeInv, AnswerIsOwn, Holds, Reading

LEMMA AcquireStep ==
  ASSUME McpInv, NEW c \in Clients, Acquire(c)
  PROVE  McpInv'
<1> USE DEF McpInv
<1>1. \A d \in Clients : ~ Holds(d) /\ ~ Reading(d)
  BY DEF Acquire, Locked, Holds, Reading
<1>2. DOMAIN clients' = Clients /\ OthersStay(c)
  BY DEF Acquire, ReaderInv, OthersStay
<1>3. \A d \in Clients : d # c => ~ Holds(d)' /\ ~ Reading(d)'
  BY <1>1, <1>2 DEF OthersStay, Holds, Reading
<1>4. /\ pipe' = pipe /\ stray' = stray
      /\ stray = 0 => server = <<>> /\ pipe = <<>>
      /\ process' # "running" => server' = <<>>
  BY <1>1 DEF Acquire, PipeInv, ReaderInv
<1>5. OneHolder'
  BY <1>3 DEF OneHolder
<1>6. CASE /\ clients'[c] = Numbered(c) /\ server' = server
  <2>1. clients'[c] = [pc |-> "starting", what |-> clients[c].what, id |-> nextId]
    BY <1>6 DEF Numbered
  <2>2. ReaderInv'
    BY <1>2, <1>3, <1>4, <2>1 DEF ReaderInv
  <2>3. PipeInv'
    BY <1>3, <1>4, <1>6, <2>1 DEF PipeInv, Reading
  <2>4. AnswerIsOwn'
    BY <1>2, <2>1 DEF AnswerIsOwn, OthersStay
  <2> QED
    BY <1>5, <2>2, <2>3, <2>4
<1>7. CASE /\ clients'[c] = [Numbered(c) EXCEPT !.pc = "reading"]
           /\ server' = Append(server, Line(clients'[c])) \/ server' = server
  <2>1. clients'[c] = [pc |-> "reading", what |-> clients[c].what, id |-> nextId]
    BY <1>7 DEF Numbered
  <2>2. ReaderInv'
    BY <1>2, <1>3, <1>4, <2>1 DEF ReaderInv
  <2>3. Line(clients'[c]).id = clients'[c].id
    BY DEF Line
  <2>4. stray = 0 => server' = <<Line(clients'[c])>> \/ server' = <<>>
    BY <1>4, <1>7
  <2>5. PipeInv'
    BY <1>3, <1>4, <2>1, <2>3, <2>4 DEF PipeInv, Reading
  <2>6. AnswerIsOwn'
    BY <1>2, <2>1 DEF AnswerIsOwn, OthersStay
  <2> QED
    BY <1>5, <2>2, <2>5, <2>6
<1>8. CASE /\ clients'[c] = [pc |-> "failed", why |-> "broken_pipe"] /\ server' = server
  <2>1. ReaderInv'
    BY <1>2, <1>3, <1>4, <1>8 DEF ReaderInv, Holds
  <2>2. PipeInv'
    BY <1>3, <1>4, <1>8 DEF PipeInv, Reading
  <2>3. AnswerIsOwn'
    BY <1>2, <1>8 DEF AnswerIsOwn, OthersStay
  <2> QED
    BY <1>5, <2>1, <2>2, <2>3
<1> QED
  BY <1>6, <1>7, <1>8 DEF Acquire, ReaderInv

LEMMA StartStep ==
  ASSUME McpInv, NEW c \in Clients, Start(c)
  PROVE  McpInv'
<1> USE DEF McpInv
<1>1. Holds(c) /\ \A d \in Clients : d # c => ~ Holds(d)
  BY DEF Start, Holds, OneHolder
<1>2. /\ DOMAIN clients' = Clients /\ OthersStay(c)
      /\ clients'[c] = [pc |-> "reading", what |-> clients[c].what, id |-> clients[c].id]
  BY <1>1 DEF Start, ReaderInv, OthersStay
<1>3. \A d \in Clients : d # c => ~ Holds(d)' /\ ~ Reading(d)'
  BY <1>1, <1>2 DEF OthersStay, Holds, Reading
<1>4. ReaderInv' /\ OneHolder' /\ AnswerIsOwn'
  BY <1>2, <1>3 DEF Start, ReaderInv, OneHolder, AnswerIsOwn, OthersStay
<1>5. server' = <<Line(clients[c])>> /\ pipe' = <<>> /\ Line(clients[c]).id = clients'[c].id
  BY <1>2 DEF Start, Line
<1>6. PipeInv'
  BY <1>2, <1>3, <1>5 DEF PipeInv, Reading
<1> QED
  BY <1>4, <1>6

\* Those who read, fail or ask leave the lock and nothing of theirs behind.
LEMMA LeaveStep ==
  ASSUME McpInv, NEW c \in Clients, Releases(c),
         stray' \in {0, 1}, process' # "running" => server' = <<>>,
         clients'[c].pc = "returned" => clients'[c].got = clients'[c].asked,
         stray' = 0 => /\ stray = 0
                       /\ \/ ~ Reading(c) /\ UNCHANGED <<server, pipe>>
                          \/ Reading(c) /\ server' = <<>> /\ pipe' = <<>>
  PROVE  McpInv'
<1> USE DEF McpInv, Releases
<1>1. ReaderInv' /\ OneHolder' /\ AnswerIsOwn'
  BY DEF ReaderInv, OneHolder, AnswerIsOwn, OthersStay, Holds
<1>2. PipeInv'
  <2> SUFFICES ASSUME stray' = 0 PROVE PipeInv'
    BY DEF PipeInv
  <2>1. ~ Reading(c)'
    BY DEF Holds, Reading
  <2>2. CASE ~ Reading(c) /\ UNCHANGED <<server, pipe>>
    BY <2>1, <2>2 DEF PipeInv, OthersStay, Reading
  <2>3. CASE Reading(c) /\ server' = <<>> /\ pipe' = <<>>
    <3>1. \A d \in Clients : d # c => ~ Reading(d)
      BY <2>3 DEF OneHolder, Holds, Reading
    <3> QED
      BY <2>1, <2>3, <3>1 DEF PipeInv, OthersStay, Reading
  <2> QED
    BY <2>2, <2>3
<1> QED
  BY <1>1, <1>2

LEMMA OtherEnds ==
  \A why \in {"error", "version", "pagination"} :
    [pc |-> "failed", why |-> why] # [pc |-> "failed", why |-> "mismatch"]
<1> SUFFICES ASSUME NEW why \in {"error", "version", "pagination"},
                    [pc |-> "failed", why |-> why] = [pc |-> "failed", why |-> "mismatch"]
             PROVE  FALSE
  OBVIOUS
<1>1. [pc |-> "failed", why |-> why].why = [pc |-> "failed", why |-> "mismatch"].why
  OBVIOUS
<1> QED
  BY <1>1

\* What reading a line does to the clients: the reader stops reading, and only
\* an answer to its own request is returned.
LEMMA ReadEffect ==
  ASSUME McpInv, NEW c \in Clients, ReadLine(c)
  PROVE  /\ Releases(c)
         /\ clients'[c].pc = "returned" => clients'[c].got = clients'[c].asked
         /\ clients'[c] = [pc |-> "failed", why |-> "mismatch"] => ~ IsOwn(c, Head(pipe))
<1>0. DOMAIN clients = Clients /\ clients[c].pc = "reading"
  BY DEF McpInv, ReaderInv, ReadLine
<1>1. ASSUME NEW what, Request(c, what)
      PROVE  Releases(c) /\ clients'[c].pc = "queued"
  BY <1>0, <1>1 DEF Request, Releases, OthersStay, Holds
<1>2. ASSUME NEW why, clients' = Ended(c, why)
      PROVE  Releases(c) /\ clients'[c] = [pc |-> "failed", why |-> why]
  BY <1>0, <1>2 DEF Ended, Releases, OthersStay, Holds
<1>3. ASSUME NEW what, NEW line, IsOwn(c, line), UseAnswer(c, what, line)
      PROVE  /\ Releases(c)
             /\ clients'[c].pc = "returned" => clients'[c].got = clients'[c].asked
             /\ clients'[c] # [pc |-> "failed", why |-> "mismatch"]
  <2>1. CASE clients' = [clients EXCEPT ![c] =
               [pc |-> "returned", asked |-> clients[c].id, got |-> line.id]]
    <3>1. clients'[c] = [pc |-> "returned", asked |-> clients[c].id, got |-> line.id]
      BY <1>0, <2>1
    <3>2. Releases(c)
      BY <1>0, <2>1, <3>1 DEF Releases, OthersStay, Holds
    <3> QED
      BY <1>3, <3>1, <3>2 DEF IsOwn
  <2>2. CASE Request(c, ListPage(1, {}))
    BY <1>1, <2>2
  <2>3. CASE clients' = Ended(c, "version") \/ clients' = Ended(c, "pagination")
    <3>1. PICK why \in {"version", "pagination"} : clients' = Ended(c, why)
      BY <2>3
    <3>2. Releases(c) /\ clients'[c] = [pc |-> "failed", why |-> why]
      BY <1>2, <3>1
    <3>3. clients'[c].pc # "returned" /\ clients'[c] # [pc |-> "failed", why |-> "mismatch"]
      BY <3>2, OtherEnds
    <3> QED
      BY <3>2, <3>3
  <2>4. CASE clients' = [clients EXCEPT ![c] = Rest]
    BY <1>0, <2>4 DEF Rest, Releases, OthersStay, Holds
  <2>5. CASE Request(c, ListPage(what.page + 1, Found(what)))
    BY <1>1, <2>5
  <2> QED
    BY <1>3, <2>1, <2>2, <2>3, <2>4, <2>5 DEF UseAnswer
<1> DEFINE line == Head(pipe)
<1>4. CASE IsOwn(c, line) /\ UseAnswer(c, clients[c].what, line)
  BY <1>3, <1>4
<1>5. CASE clients' = Ended(c, "error")
  <2>1. Releases(c) /\ clients'[c] = [pc |-> "failed", why |-> "error"]
    BY <1>2, <1>5
  <2>2. clients'[c].pc # "returned" /\ clients'[c] # [pc |-> "failed", why |-> "mismatch"]
    BY <2>1, OtherEnds
  <2> QED
    BY <2>1, <2>2
<1>6. CASE ~ IsOwn(c, line) /\ clients' = Ended(c, "mismatch")
  BY <1>2, <1>6
<1> QED
  BY <1>4, <1>5, <1>6 DEF ReadLine

\* While no line is stray the first line is the reader's own, and the last.
LEMMA OwnLine ==
  ASSUME McpInv, NEW c \in Clients, Reading(c), stray = 0, pipe # <<>>
  PROVE  IsOwn(c, Head(pipe)) /\ Tail(pipe) = <<>> /\ server = <<>>
<1>1. PICK line : pipe = <<line>> /\ line.id = clients[c].id /\ server = <<>>
  BY DEF McpInv, PipeInv
<1>2. Head(pipe) = line /\ Tail(pipe) = <<>>
  BY <1>1
<1> QED
  BY <1>1, <1>2 DEF IsOwn

LEMMA ReadStep ==
  ASSUME McpInv, NEW c \in Clients, ReadLine(c) \/ ReadEnd(c)
  PROVE  McpInv'
<1>1. CASE ReadLine(c)
  <2>1. Reading(c) /\ pipe # <<>> /\ pipe' = Tail(pipe) /\ server' = server /\ stray' = stray
    BY <1>1 DEF ReadLine, Reading
  <2>2. stray' \in {0, 1} /\ (process' # "running" => server' = <<>>)
    BY <2>1, <1>1 DEF McpInv, ReaderInv, ReadLine, ReadEnd
  <2>3. stray' = 0 => server' = <<>> /\ pipe' = <<>>
    BY <2>1, OwnLine
  <2> QED
    BY <1>1, <2>1, <2>2, <2>3, ReadEffect, LeaveStep
<1>2. CASE ReadEnd(c)
  <2>1. /\ Releases(c) /\ clients'[c].pc = "failed"
        /\ Reading(c) /\ UNCHANGED <<server, pipe, stray>> /\ pipe = <<>>
    BY <1>2 DEF ReadEnd, Ended, Releases, OthersStay, Holds, Reading, McpInv, ReaderInv
  <2>2. stray' \in {0, 1} /\ (process' # "running" => server' = <<>>)
    BY <2>1, <1>2 DEF McpInv, ReaderInv, ReadLine, ReadEnd
  <2>3. server' = <<>> /\ pipe' = <<>>
    BY <1>2, <2>1, <2>2 DEF ReadEnd
  <2> QED
    BY <2>1, <2>2, <2>3, LeaveStep
<1> QED
  BY <1>1, <1>2

LEMMA AbandonStep ==
  ASSUME McpInv, NEW c \in Clients, Abandon(c)
  PROVE  McpInv'
<1>1. /\ Releases(c) /\ clients'[c].pc = "failed"
      /\ UNCHANGED <<server, pipe, process>>
  BY DEF Abandon, Ended, Releases, OthersStay, Holds, McpInv, ReaderInv
<1>2. stray' \in {0, 1} /\ (stray' = 0 => stray = 0 /\ ~ Reading(c))
  BY DEF Abandon, Reading, McpInv, ReaderInv
<1>3. process' # "running" => server' = <<>>
  BY <1>1 DEF McpInv, ReaderInv
<1> QED
  BY <1>1, <1>2, <1>3, LeaveStep

LEMMA AskStep ==
  ASSUME McpInv, AdapterAssumption, Discover \/ \E c \in Clients : CallTool(c)
  PROVE  McpInv'
<1>1. ASSUME NEW c \in Clients, NEW what, ~ Active(c), Request(c, what),
             UNCHANGED <<nextId, process, server, pipe, tools, stray>>
      PROVE  McpInv'
  <2>1. Releases(c) /\ clients'[c].pc = "queued" /\ ~ Reading(c)
    BY <1>1 DEF Request, Active, Releases, OthersStay, Holds, Reading, McpInv, ReaderInv
  <2>2. stray' \in {0, 1} /\ (process' # "running" => server' = <<>>)
    BY <1>1 DEF McpInv, ReaderInv
  <2> QED
    BY <1>1, <2>1, <2>2, LeaveStep
<1> QED
  BY <1>1 DEF Discover, CallTool, AdapterAssumption

LEMMA ServerStep ==
  ASSUME McpInv, ServerAnswers \/ ServerNotifies \/ ServerDies \/ Close
  PROVE  McpInv'
<1>1. clients' = clients
  BY DEF ServerAnswers, ServerNotifies, ServerDies, Close
<1>2. ReaderInv' /\ OneHolder' /\ AnswerIsOwn'
  BY <1>1 DEF McpInv, ReaderInv, OneHolder, AnswerIsOwn, Holds,
              ServerAnswers, ServerNotifies, ServerDies, Close
<1>3. PipeInv'
  <2>1. CASE ServerAnswers
    <3> SUFFICES ASSUME stray' = 0 PROVE PipeInv'
      BY DEF PipeInv
    <3>1. stray = 0 /\ server # <<>>
      BY <2>1 DEF ServerAnswers
    <3>2. PICK c \in Clients : Reading(c)
      BY <3>1 DEF McpInv, PipeInv
    <3>3. PICK line : server = <<line>> /\ line.id = clients[c].id /\ pipe = <<>>
      BY <3>1, <3>2 DEF McpInv, PipeInv
    <3>4. Head(server) = line /\ Tail(server) = <<>>
      BY <3>3
    <3>5. PICK answer : pipe' = <<answer>> /\ answer.id = clients[c].id
      BY <2>1, <3>3, <3>4 DEF ServerAnswers, Ok, Error
    <3>6. server' = <<>>
      BY <2>1, <3>4 DEF ServerAnswers
    <3>7. \A d \in Clients : Reading(d) => d = c
      BY <3>2 DEF McpInv, OneHolder, Holds, Reading
    <3> QED
      BY <1>1, <3>2, <3>5, <3>6, <3>7 DEF PipeInv, Reading
  <2>2. CASE ServerNotifies
    BY <2>2 DEF ServerNotifies, PipeInv
  <2>3. CASE ServerDies \/ Close
    BY <1>1, <2>3 DEF ServerDies, Close, McpInv, PipeInv, Reading
  <2> QED
    BY <2>1, <2>2, <2>3
<1> QED
  BY <1>2, <1>3 DEF McpInv

LEMMA McpInvStep == McpInv /\ [McpNext]_mcpVars => McpInv'
<1> SUFFICES ASSUME McpInv, [McpNext]_mcpVars PROVE McpInv'
  OBVIOUS
<1>1. CASE UNCHANGED mcpVars
  BY <1>1 DEF mcpVars, McpInv, ReaderInv, OneHolder, PipeInv, AnswerIsOwn, Holds, Reading
<1> QED
  BY <1>1, AdapterAssumption, AcquireStep, StartStep, ReadStep, AbandonStep, AskStep, ServerStep
     DEF McpNext

\* At most one client has the lock, and the pipe and the process have no line
\* but that of the one that reads, while none is stray (request).
THEOREM McpInvariant == McpSpec => []McpInv
  BY InitMcpInv, McpInvStep, PTL DEF McpSpec

\* A tool call returns the answer to its own request, also when the answers to
\* requests that were given up are still in the pipe (request).
THEOREM AnswersAreOwn == McpSpec => []AnswerIsOwn
<1>1. McpInv => AnswerIsOwn
  BY DEF McpInv
<1> QED
  BY <1>1, McpInvariant, PTL

\* An answer is refused for its id only after a line went stray: clients that
\* take turns with the lock never see one another's answers (request, _read).
THEOREM MismatchesHaveACause == McpSpec => MismatchOnlyAfterStray
<1> DEFINE Caused == \A c \in Clients :
      (clients[c]' = [pc |-> "failed", why |-> "mismatch"] /\ clients[c]' # clients[c])
        => stray = 1
<1>1. McpInv /\ [McpNext]_mcpVars => [Caused]_mcpVars
  <2> SUFFICES ASSUME McpInv, McpNext, NEW c \in Clients, clients'[c] # clients[c],
                      clients'[c] = [pc |-> "failed", why |-> "mismatch"], stray # 1
               PROVE  FALSE
    OBVIOUS
  <2>0. clients'[c].pc = "failed" /\ clients'[c].why = "mismatch"
    OBVIOUS
  <2>1. stray = 0 /\ DOMAIN clients = Clients
    BY DEF McpInv, ReaderInv
  <2>2. ASSUME NEW d \in Clients, ReadLine(d) PROVE FALSE
    <3>1. c = d
      BY <2>2, ReadEffect DEF Releases, OthersStay
    <3>2. ~ IsOwn(c, Head(pipe))
      BY <2>2, <3>1, ReadEffect
    <3> QED
      BY <2>1, <2>2, <3>1, <3>2, OwnLine DEF ReadLine, Reading
  <2>3. ASSUME NEW d \in Clients, Acquire(d) PROVE FALSE
    BY <2>0, <2>1, <2>3 DEF Acquire, Numbered
  <2>4. ASSUME NEW d \in Clients, Start(d) PROVE FALSE
    BY <2>0, <2>1, <2>4 DEF Start
  <2>5. ASSUME NEW d \in Clients, ReadEnd(d) \/ Abandon(d) PROVE FALSE
    BY <2>0, <2>1, <2>5 DEF ReadEnd, Abandon, Ended
  <2>6. ASSUME NEW d \in Clients, CallTool(d) PROVE FALSE
    BY <2>0, <2>1, <2>6 DEF CallTool, Request
  <2>7. CASE Discover
    BY <2>0, <2>1, <2>7 DEF Discover, Request
  <2>8. CASE ServerAnswers \/ ServerNotifies \/ ServerDies \/ Close
    BY <2>8 DEF ServerAnswers, ServerNotifies, ServerDies, Close
  <2> QED
    BY <2>2, <2>3, <2>4, <2>5, <2>6, <2>7, <2>8 DEF McpNext
<1> QED
  BY <1>1, McpInvariant, PTL DEF McpSpec, MismatchOnlyAfterStray

-----------------------------------------------------------------------------
\* The HTTP provider, and a caller that forgets how its request ended or is
\* cancelled: what the tools do with it.
Drop(c) ==
  /\ calls' = [calls EXCEPT ![c] = Idle]
  /\ UNCHANGED <<slot, failures, circuit, cache, seen>>

HttpNext ==
  \/ \E c \in Callers, u \in Urls : Begin(c, u)
  \/ \E c \in Callers : Proceed(c) \/ Drop(c)
  \/ Tick

\* The ages of answers when they arrive.
Ages == 0..Flight

Queued(c) == calls[c].pc = "slot"

CallsOK ==
  /\ DOMAIN calls = Callers
  /\ DOMAIN cache = Urls
  /\ slot \in Nat /\ failures \in Nat
  /\ seen = [failed |-> seen.failed, gap |-> seen.gap] /\ seen.failed \in Nat /\ seen.gap \in Nat
  /\ \A c \in Callers : Waiting(c) =>
       /\ calls[c] = [pc |-> calls[c].pc, url |-> calls[c].url,
                      attempt |-> calls[c].attempt, left |-> calls[c].left]
       /\ calls[c].url \in Urls

CircuitInv ==
  /\ failures <= seen.failed \/ Threshold <= seen.failed
  /\ OpensAfterFailuresInARow

CacheInv ==
  /\ \A u \in Urls : cache[u].left \in Nat
  /\ \A u \in Urls : Cached(u) =>
       /\ cache[u] = [body |-> cache[u].body, age |-> cache[u].age, left |-> cache[u].left]
       /\ cache[u].age \in Nat /\ cache[u].age + cache[u].left <= Flight + CacheTtl
  /\ \A c \in Callers : calls[c].pc = "sent" => calls[c].left \in 0..Flight
  /\ AnswersAreFresh

\* The slots that callers wait for are Interval apart from one another, from
\* the next one that is free and from the last request.
SpacingInv ==
  /\ Interval <= seen.gap + slot
  /\ \A c \in Callers : Queued(c) =>
       /\ calls[c].left \in Nat
       /\ calls[c].left + Interval <= slot
       /\ Interval <= seen.gap + calls[c].left
  /\ \A c, d \in Callers : c # d /\ Queued(c) /\ Queued(d) =>
       \/ calls[c].left + Interval <= calls[d].left
       \/ calls[d].left + Interval <= calls[c].left

HttpInv == CallsOK /\ CircuitInv /\ CacheInv /\ SpacingInv

\* Nothing becomes of the other callers.
Alone(c) == DOMAIN calls' = Callers /\ \A d \in Callers : d # c => calls'[d] = calls[d]

\* c neither sends a request nor waits for a slot.
Quiet(c) ==
  /\ Alone(c)
  /\ calls'[c].pc \notin {"slot", "sent"}
  /\ slot' = slot /\ seen'.gap = seen.gap

LEMMA InitHttpInv == HttpInit => HttpInv
<1> SUFFICES ASSUME HttpInit PROVE HttpInv
  OBVIOUS
<1>1. \A c \in Callers : calls[c].pc = "idle"
  BY DEF HttpInit, Idle
<1>2. CallsOK /\ SpacingInv
  BY <1>1, PolicyAssumption DEF HttpInit, CallsOK, SpacingInv, Waiting, Queued
<1>3. CircuitInv
  BY <1>1 DEF HttpInit, CircuitInv, OpensAfterFailuresInARow
<1>4. CacheInv
  BY <1>1 DEF HttpInit, CacheInv, Cached, NoEntry, AnswersAreFresh
<1> QED
  BY <1>2, <1>3, <1>4 DEF HttpInv

LEMMA AttemptEffect ==
  ASSUME CallsOK, NEW c \in Callers, NEW u, NEW n, Attempt(c, u, n)
  PROVE  /\ Alone(c)
         /\ slot' = slot + Interval
         /\ seen'.failed = seen.failed /\ seen' = [failed |-> seen'.failed, gap |-> seen'.gap]
         /\ slot = 0 =>
              /\ calls'[c] = [pc |-> "sent", url |-> u, attempt |-> n, left |-> Flight]
              /\ seen'.gap = 0
         /\ slot # 0 =>
              /\ calls'[c] = [pc |-> "slot", url |-> u, attempt |-> n, left |-> slot]
              /\ seen'.gap = seen.gap
  BY DEF CallsOK, Attempt, SlotAfter, Alone

LEMMA SlotComesEffect ==
  ASSUME CallsOK, NEW c \in Callers, SlotComes(c)
  PROVE  /\ Alone(c)
         /\ calls'[c] = [pc |-> "sent", url |-> calls[c].url,
                         attempt |-> calls[c].attempt, left |-> Flight]
         /\ Queued(c) /\ calls[c].left = 0 /\ calls[c].url \in Urls
         /\ seen' = [failed |-> seen.failed, gap |-> 0]
         /\ UNCHANGED <<slot, failures, circuit, cache>>
<1>1. /\ DOMAIN calls = Callers /\ calls[c].url \in Urls
      /\ calls[c] = [pc |-> calls[c].pc, url |-> calls[c].url,
                     attempt |-> calls[c].attempt, left |-> calls[c].left]
  BY DEF CallsOK, SlotComes, Waiting
<1>2. calls'[c] = [pc |-> "sent", url |-> calls[c].url,
                   attempt |-> calls[c].attempt, left |-> Flight]
  <2>1. calls'[c] = [calls[c] EXCEPT !.pc = "sent", !.left = Flight]
    BY <1>1 DEF SlotComes
  <2> QED
    BY <1>1, <2>1
<1>3. Alone(c)
  BY <1>1 DEF SlotComes, Alone
<1>4. seen' = [failed |-> seen.failed, gap |-> 0]
  BY DEF SlotComes, CallsOK
<1> QED
  BY <1>1, <1>2, <1>3, <1>4 DEF SlotComes, Queued

LEMMA GiveUpEffect ==
  ASSUME CallsOK, NEW c \in Callers, GiveUp(c)
  PROVE  /\ Quiet(c)
         /\ calls'[c].pc = "failed"
         /\ failures' = failures + 1
         /\ circuit' = IF failures' >= Threshold THEN Recovery ELSE circuit
         /\ seen' = [failed |-> IF seen.failed < Threshold THEN seen.failed + 1 ELSE seen.failed,
                     gap |-> seen.gap]
         /\ UNCHANGED <<slot, cache>>
  BY DEF CallsOK, GiveUp, Quiet, Alone, FailuresAfter, Failed

LEMMA BackoffEffect ==
  ASSUME CallsOK, NEW c \in Callers, TryLater(c), ~ GiveUp(c)
  PROVE  /\ Quiet(c)
        /\ calls'[c].pc = "backoff" /\ calls'[c].url = calls[c].url /\ calls[c].url \in Urls
         /\ calls'[c] = [pc |-> calls'[c].pc, url |-> calls'[c].url,
                         attempt |-> calls'[c].attempt, left |-> calls'[c].left]
         /\ UNCHANGED <<slot, failures, circuit, cache, seen>>
<1> DEFINE wait == Backoff * 2 ^ (calls[c].attempt - 1)
<1>1. /\ calls' = [calls EXCEPT ![c].pc = "backoff", ![c].left = wait]
      /\ UNCHANGED <<slot, failures, circuit, cache, seen>>
      /\ Waiting(c)
  BY DEF TryLater, Waiting
<1> HIDE DEF wait
<1>2. /\ DOMAIN calls = Callers /\ calls[c].url \in Urls
      /\ calls[c] = [pc |-> calls[c].pc, url |-> calls[c].url,
                     attempt |-> calls[c].attempt, left |-> calls[c].left]
  BY <1>1 DEF CallsOK
<1>3. calls'[c] = [pc |-> "backoff", url |-> calls[c].url,
                   attempt |-> calls[c].attempt, left |-> wait]
  <2>1. calls'[c] = [calls[c] EXCEPT !.pc = "backoff", !.left = wait]
    BY <1>1, <1>2
  <2> QED
    BY <1>2, <2>1
<1>4. Alone(c)
  BY <1>1, <1>2 DEF Alone
<1> QED
  BY <1>1, <1>2, <1>3, <1>4 DEF Quiet

LEMMA AnsweredEffect ==
  ASSUME CallsOK, NEW c \in Callers, NEW body, NEW age, Answered(c, body, age)
  PROVE  /\ Quiet(c)
         /\ calls'[c] = Returned(calls[c].url, body, age)
         /\ calls[c].url \in Urls
         /\ failures' = 0 /\ circuit' = Closed /\ slot' = slot
         /\ DOMAIN cache' = Urls
         /\ cache'[calls[c].url] = Kept(body, age)
         /\ \A u \in Urls : u # calls[c].url => cache'[u] = cache[u]
         /\ seen' = [failed |-> 0, gap |-> seen.gap]
<1>1. Waiting(c) /\ calls[c].url \in Urls
  BY DEF CallsOK, Answered, Waiting
<1> QED
  BY <1>1 DEF CallsOK, Answered, Quiet, Alone, FailuresAfter, Returned

LEMMA TickEffect ==
  ASSUME CallsOK, Tick
  PROVE  /\ DOMAIN calls' = Callers
         /\ \A c \in Callers : Waiting(c) =>
              /\ calls'[c] = [pc |-> calls[c].pc, url |-> calls[c].url,
                              attempt |-> calls[c].attempt, left |-> calls[c].left - 1]
              /\ calls[c].left > 0
         /\ \A c \in Callers : ~ Waiting(c) => calls'[c] = calls[c]
         /\ seen' = [failed |-> seen.failed,
                     gap |-> IF seen.gap < Interval THEN seen.gap + 1 ELSE seen.gap]
<1>1. ASSUME NEW c \in Callers, Waiting(c)
      PROVE  /\ calls'[c] = [pc |-> calls[c].pc, url |-> calls[c].url,
                             attempt |-> calls[c].attempt, left |-> calls[c].left - 1]
             /\ calls[c].left > 0
  <2>1. calls'[c] = [calls[c] EXCEPT !.left = calls[c].left - 1] /\ calls[c].left > 0
    BY <1>1 DEF Tick
  <2>2. calls[c] = [pc |-> calls[c].pc, url |-> calls[c].url,
                    attempt |-> calls[c].attempt, left |-> calls[c].left]
    BY <1>1 DEF CallsOK
  <2> QED
    BY <2>1, <2>2
<1> QED
  BY <1>1 DEF Tick, CallsOK

LEMMA DropEffect ==
  ASSUME CallsOK, NEW c \in Callers, Drop(c)
  PROVE  /\ Quiet(c) /\ calls'[c] = [pc |-> "idle"]
         /\ UNCHANGED <<slot, failures, circuit, cache, seen>>
  BY DEF CallsOK, Drop, Idle, Quiet, Alone

\* A request that the cache or the open circuit answers.
LEMMA AnsweredAtOnce ==
  ASSUME CallsOK, NEW c \in Callers, NEW u \in Urls, HitCache(c, u) \/ CircuitRefuses(c, u)
  PROVE  /\ Quiet(c)
         /\ \/ Cached(u) /\ calls'[c] = Returned(u, cache[u].body, cache[u].age)
            \/ calls'[c].pc = "failed"
         /\ UNCHANGED <<slot, failures, circuit, cache, seen>>
  BY DEF CallsOK, HitCache, CircuitRefuses, Returned, Failed, Quiet, Alone

\* Every step is one of four for those who wait for a slot.
LEMMA Steps ==
  ASSUME CallsOK, HttpNext
  PROVE  \/ \E c \in Callers : Quiet(c)
         \/ \E n : \E c \in Callers, u \in Urls : Attempt(c, u, n)
         \/ \E c \in Callers : SlotComes(c)
         \/ Tick
<1>1. ASSUME NEW c \in Callers, NEW u \in Urls, Begin(c, u)
      PROVE  Quiet(c) \/ Attempt(c, u, 1)
  BY <1>1, AnsweredAtOnce DEF Begin, Ask
<1>2. ASSUME NEW c \in Callers, Proceed(c)
      PROVE  Quiet(c) \/ SlotComes(c) \/ \E n : \E u \in Urls : Attempt(c, u, n)
  <2>1. CASE BackoffEnds(c)
    <3>1. calls[c].url \in Urls
      BY <2>1 DEF BackoffEnds, CallsOK, Waiting
    <3> QED
      BY <2>1, <3>1 DEF BackoffEnds
  <2>2. CASE TryLater(c) \/ Rejected(c)
    BY <2>2, GiveUpEffect, BackoffEffect DEF Rejected
  <2>3. ASSUME NEW body, NEW age \in Ages, Answered(c, body, age) PROVE Quiet(c)
    BY <2>3, AnsweredEffect
  <2> QED
    BY <1>2, <2>1, <2>2, <2>3 DEF Proceed, Ages
<1>3. ASSUME NEW c \in Callers, Drop(c) PROVE Quiet(c)
  BY <1>3, DropEffect
<1> QED
  BY <1>1, <1>2, <1>3 DEF HttpNext

LEMMA SpacingStep ==
  ASSUME CallsOK, SpacingInv, HttpNext \/ UNCHANGED httpVars
  PROVE  SpacingInv'
<1>0. Interval \in Nat /\ Interval > 0 /\ slot \in Nat /\ seen.gap \in Nat
  BY PolicyAssumption DEF CallsOK
<1>1. CASE UNCHANGED httpVars
  BY <1>1 DEF httpVars, SpacingInv, Queued
<1>2. ASSUME NEW c \in Callers, Quiet(c) PROVE SpacingInv'
  <2>1. ~ Queued(c)' /\ \A d \in Callers : d # c => calls'[d] = calls[d]
    BY <1>2 DEF Quiet, Alone, Queued
  <2> QED
    BY <1>2, <2>1 DEF Quiet, SpacingInv, Queued
<1>3. ASSUME NEW c \in Callers, NEW u, NEW n, Attempt(c, u, n) PROVE SpacingInv'
  <2>1. slot' = slot + Interval /\ \A d \in Callers : d # c => calls'[d] = calls[d]
    BY <1>3, AttemptEffect DEF Alone
  <2>2. CASE slot = 0
    <3>1. ~ Queued(c)' /\ seen'.gap = 0
      <4>1. calls'[c] = [pc |-> "sent", url |-> u, attempt |-> n, left |-> Flight] /\ seen'.gap = 0
        BY <1>3, <2>2, AttemptEffect
      <4> QED
        BY <4>1 DEF Queued
    <3>2. \A d \in Callers : ~ Queued(d)
      BY <1>0, <2>2 DEF SpacingInv
    <3>3. \A d \in Callers : ~ Queued(d)'
      BY <2>1, <3>1, <3>2 DEF Queued
    <3> QED
      BY <1>0, <2>1, <2>2, <3>1, <3>3 DEF SpacingInv
  <2>3. CASE slot # 0
    <3>1. Queued(c)' /\ calls'[c].left = slot /\ seen'.gap = seen.gap
      <4>1. /\ calls'[c] = [pc |-> "slot", url |-> u, attempt |-> n, left |-> slot]
            /\ seen'.gap = seen.gap
        BY <1>3, <2>3, AttemptEffect
      <4> QED
        BY <4>1 DEF Queued
    <3>2. \A d \in Callers : d # c => (Queued(d)' <=> Queued(d))
      BY <2>1 DEF Queued
    <3>3. ASSUME NEW d \in Callers, Queued(d)'
          PROVE  /\ calls'[d].left \in Nat
                 /\ calls'[d].left + Interval <= slot'
                 /\ Interval <= seen'.gap + calls'[d].left
      BY <1>0, <2>1, <3>1, <3>2, <3>3 DEF SpacingInv
    <3>4. ASSUME NEW d \in Callers, NEW e \in Callers, d # e, Queued(d)', Queued(e)'
          PROVE  \/ calls'[d].left + Interval <= calls'[e].left
                 \/ calls'[e].left + Interval <= calls'[d].left
      BY <1>0, <2>1, <3>1, <3>2, <3>4 DEF SpacingInv
    <3>5. Interval <= seen'.gap + slot'
      BY <1>0, <2>1, <3>1
    <3> QED
      BY <3>3, <3>4, <3>5 DEF SpacingInv
  <2> QED
    BY <2>2, <2>3
<1>4. ASSUME NEW c \in Callers, SlotComes(c) PROVE SpacingInv'
  <2>1. /\ Queued(c) /\ calls[c].left = 0 /\ ~ Queued(c)'
        /\ seen'.gap = 0 /\ slot' = slot
        /\ \A d \in Callers : d # c => calls'[d] = calls[d]
    <3>1. /\ calls'[c] = [pc |-> "sent", url |-> calls[c].url,
                          attempt |-> calls[c].attempt, left |-> Flight]
          /\ Queued(c) /\ calls[c].left = 0 /\ slot' = slot
          /\ seen' = [failed |-> seen.failed, gap |-> 0] /\ Alone(c)
      BY <1>4, SlotComesEffect
    <3> QED
      BY <3>1 DEF Queued, Alone
  <2>2. \A d \in Callers : Queued(d)' => d # c /\ Queued(d)
    BY <2>1 DEF Queued
  <2>3. ASSUME NEW d \in Callers, Queued(d)' PROVE Interval <= calls[d].left
    BY <1>0, <2>1, <2>2, <2>3 DEF SpacingInv
  <2>4. Interval <= slot
    BY <1>0, <2>1 DEF SpacingInv
  <2> QED
    BY <1>0, <2>1, <2>2, <2>3, <2>4 DEF SpacingInv
<1>5. CASE Tick
  <2>1. \A d \in Callers : Queued(d)' =>
          Queued(d) /\ calls[d].left > 0 /\ calls'[d].left = calls[d].left - 1
    BY <1>5, TickEffect DEF Queued, Waiting
  <2>2. /\ slot' = IF slot > 0 THEN slot - 1 ELSE slot
        /\ seen'.gap = IF seen.gap < Interval THEN seen.gap + 1 ELSE seen.gap
    BY <1>5, TickEffect DEF Tick, Less
  <2>3. ASSUME NEW d \in Callers, Queued(d)'
        PROVE  /\ calls'[d].left \in Nat
               /\ calls'[d].left + Interval <= slot'
               /\ Interval <= seen'.gap + calls'[d].left
    BY <1>0, <2>1, <2>2, <2>3 DEF SpacingInv
  <2>4. ASSUME NEW d \in Callers, NEW e \in Callers, d # e, Queued(d)', Queued(e)'
        PROVE  \/ calls'[d].left + Interval <= calls'[e].left
               \/ calls'[e].left + Interval <= calls'[d].left
    BY <1>0, <2>1, <2>4 DEF SpacingInv
  <2>5. Interval <= seen'.gap + slot'
    BY <1>0, <2>2 DEF SpacingInv
  <2> QED
    BY <2>3, <2>4, <2>5 DEF SpacingInv
<1> QED
  BY <1>1, <1>2, <1>3, <1>4, <1>5, Steps

\* A caller that waits no more.
LEMMA Leaves ==
  ASSUME NEW c, NEW pc, calls'[c].pc = pc, pc \in {"idle", "returned", "failed"}
  PROVE  ~ Waiting(c)'
  BY DEF Waiting

\* The other callers' part of CallsOK.
LEMMA CallsFrame ==
  ASSUME CallsOK, NEW c \in Callers, Alone(c),
         Waiting(c)' => /\ calls'[c] = [pc |-> calls'[c].pc, url |-> calls'[c].url,
                                       attempt |-> calls'[c].attempt, left |-> calls'[c].left]
                        /\ calls'[c].url \in Urls,
         DOMAIN cache' = Urls, slot' \in Nat, failures' \in Nat,
         seen' = [failed |-> seen'.failed, gap |-> seen'.gap],
         seen'.failed \in Nat, seen'.gap \in Nat
  PROVE  CallsOK'
<1>1. ASSUME NEW d \in Callers, Waiting(d)'
      PROVE  /\ calls'[d] = [pc |-> calls'[d].pc, url |-> calls'[d].url,
                             attempt |-> calls'[d].attempt, left |-> calls'[d].left]
             /\ calls'[d].url \in Urls
  <2>1. CASE d = c
    BY <1>1, <2>1
  <2>2. CASE d # c
    BY <1>1, <2>2 DEF Alone, CallsOK, Waiting
  <2> QED
    BY <2>1, <2>2
<1> QED
  BY <1>1 DEF CallsOK, Alone

LEMMA CallsStep ==
  ASSUME CallsOK, HttpNext \/ UNCHANGED httpVars
  PROVE  CallsOK'
<1>0. /\ Interval \in Nat /\ slot \in Nat /\ failures \in Nat /\ DOMAIN cache = Urls
      /\ seen = [failed |-> seen.failed, gap |-> seen.gap] /\ seen.failed \in Nat /\ seen.gap \in Nat
  BY PolicyAssumption DEF CallsOK
<1>1. CASE UNCHANGED httpVars
  BY <1>1 DEF httpVars, CallsOK, Waiting
<1>2. ASSUME NEW c \in Callers, NEW u \in Urls, HitCache(c, u) \/ CircuitRefuses(c, u)
      PROVE  CallsOK'
  <2>1. Alone(c) /\ UNCHANGED <<slot, failures, circuit, cache, seen>>
    BY <1>2, AnsweredAtOnce DEF Quiet
  <2>2. ~ Waiting(c)'
    <3>1. calls'[c].pc = "returned" \/ calls'[c].pc = "failed"
      <4>1. calls'[c] = Returned(u, cache[u].body, cache[u].age) \/ calls'[c].pc = "failed"
        BY <1>2, AnsweredAtOnce
      <4> QED
        BY <4>1 DEF Returned
    <3> QED
      BY <3>1, Leaves
  <2> QED
    BY <1>0, <2>1, <2>2, CallsFrame
<1>3. ASSUME NEW c \in Callers, NEW u \in Urls, NEW n, Attempt(c, u, n),
             UNCHANGED cache, failures' \in Nat
      PROVE  CallsOK'
  <2>1. /\ Alone(c) /\ slot' = slot + Interval
        /\ seen'.failed = seen.failed /\ seen' = [failed |-> seen'.failed, gap |-> seen'.gap]
        /\ seen'.gap = 0 \/ seen'.gap = seen.gap
    BY <1>3, AttemptEffect
  <2>2. /\ calls'[c] = [pc |-> calls'[c].pc, url |-> calls'[c].url,
                        attempt |-> calls'[c].attempt, left |-> calls'[c].left]
        /\ calls'[c].url = u
    <3>1. \/ calls'[c] = [pc |-> "sent", url |-> u, attempt |-> n, left |-> Flight]
          \/ calls'[c] = [pc |-> "slot", url |-> u, attempt |-> n, left |-> slot]
      BY <1>3, AttemptEffect
    <3> QED
      BY <3>1
  <2> QED
    BY <1>0, <1>3, <2>1, <2>2, CallsFrame
<1>4. ASSUME NEW c \in Callers, NEW u \in Urls, Ask(c, u) PROVE CallsOK'
  BY <1>0, <1>3, <1>4 DEF Ask
<1>5. ASSUME NEW c \in Callers, BackoffEnds(c) PROVE CallsOK'
  <2>1. calls[c].url \in Urls
    BY <1>5 DEF BackoffEnds, CallsOK, Waiting
  <2> QED
    BY <1>0, <1>3, <1>5, <2>1 DEF BackoffEnds
<1>6. ASSUME NEW c \in Callers, SlotComes(c) PROVE CallsOK'
  <2>1. /\ calls'[c] = [pc |-> "sent", url |-> calls[c].url,
                        attempt |-> calls[c].attempt, left |-> Flight]
        /\ calls[c].url \in Urls /\ Alone(c)
        /\ seen' = [failed |-> seen.failed, gap |-> 0]
        /\ UNCHANGED <<slot, failures, circuit, cache>>
    BY <1>6, SlotComesEffect
  <2> QED
    BY <1>0, <2>1, CallsFrame
<1>7. ASSUME NEW c \in Callers, TryLater(c), ~ GiveUp(c) PROVE CallsOK'
  BY <1>0, <1>7, BackoffEffect, CallsFrame DEF Quiet
<1>8. ASSUME NEW c \in Callers, GiveUp(c) PROVE CallsOK'
  <2>1. /\ Alone(c) /\ calls'[c].pc = "failed" /\ failures' = failures + 1
        /\ seen' = [failed |-> IF seen.failed < Threshold THEN seen.failed + 1 ELSE seen.failed,
                    gap |-> seen.gap]
        /\ UNCHANGED <<slot, cache>>
    BY <1>8, GiveUpEffect DEF Quiet
  <2>2. /\ seen'.failed \in Nat /\ seen'.gap \in Nat
        /\ seen' = [failed |-> seen'.failed, gap |-> seen'.gap]
    BY <1>0, <2>1
  <2>3. ~ Waiting(c)'
    BY <2>1, Leaves
  <2>4. slot' \in Nat /\ failures' \in Nat /\ DOMAIN cache' = Urls
    BY <1>0, <2>1
  <2> QED
    BY <2>1, <2>2, <2>3, <2>4, CallsFrame
<1>9. ASSUME NEW c \in Callers, NEW body, NEW age \in Ages, Answered(c, body, age)
      PROVE  CallsOK'
  <2>1. /\ Quiet(c) /\ failures' = 0 /\ slot' = slot /\ DOMAIN cache' = Urls
        /\ calls'[c] = Returned(calls[c].url, body, age)
        /\ seen' = [failed |-> 0, gap |-> seen.gap]
    BY <1>9, AnsweredEffect
  <2>2. calls'[c].pc = "returned" /\ seen'.failed = 0 /\ seen'.gap = seen.gap
    BY <2>1 DEF Returned
  <2>3. ~ Waiting(c)' /\ Alone(c)
    BY <2>1, <2>2, Leaves DEF Quiet
  <2> QED
    BY <1>0, <2>1, <2>2, <2>3, CallsFrame
<1>10. ASSUME NEW c \in Callers, Drop(c) PROVE CallsOK'
  <2>1. /\ Alone(c) /\ calls'[c] = [pc |-> "idle"]
        /\ UNCHANGED <<slot, failures, circuit, cache, seen>>
    BY <1>10, DropEffect DEF Quiet
  <2>2. ~ Waiting(c)'
    BY <2>1, Leaves
  <2> QED
    BY <1>0, <2>1, <2>2, CallsFrame
<1>11. CASE Tick
  <2>1. /\ slot' \in Nat /\ failures' = failures /\ DOMAIN cache' = Urls
        /\ seen' = [failed |-> seen.failed,
                    gap |-> IF seen.gap < Interval THEN seen.gap + 1 ELSE seen.gap]
    <3>1. /\ slot' = Less(slot) /\ failures' = failures /\ DOMAIN cache' = Urls
      BY <1>11 DEF Tick
    <3>2. Less(slot) \in Nat
      BY <1>0 DEF Less
    <3> QED
      BY <1>11, <3>1, <3>2, TickEffect
  <2>2. ASSUME NEW c \in Callers, Waiting(c)'
        PROVE  /\ calls'[c] = [pc |-> calls'[c].pc, url |-> calls'[c].url,
                               attempt |-> calls'[c].attempt, left |-> calls'[c].left]
               /\ calls'[c].url \in Urls
    <3>1. Waiting(c)
      BY <1>11, <2>2, TickEffect DEF Waiting
    <3>2. /\ calls'[c] = [pc |-> calls[c].pc, url |-> calls[c].url,
                          attempt |-> calls[c].attempt, left |-> calls[c].left - 1]
          /\ calls[c].url \in Urls
      BY <1>11, <3>1, TickEffect DEF CallsOK
    <3> QED
      BY <3>2
  <2>3. DOMAIN calls' = Callers
    BY <1>11, TickEffect
  <2> QED
    BY <1>0, <2>1, <2>2, <2>3 DEF CallsOK
<1> QED
  BY <1>1, <1>2, <1>4, <1>5, <1>6, <1>7, <1>8, <1>9, <1>10, <1>11
     DEF HttpNext, Begin, Proceed, Rejected, Ages

LEMMA CircuitStep ==
  ASSUME CallsOK, CircuitInv, HttpNext \/ UNCHANGED httpVars
  PROVE  CircuitInv'
<1> USE DEF CircuitInv, OpensAfterFailuresInARow
<1>0. /\ Threshold \in Nat /\ Recovery \in Nat /\ failures \in Nat /\ seen.failed \in Nat
      /\ Threshold > 0
  BY PolicyAssumption DEF CallsOK
<1>1. CASE UNCHANGED httpVars
  BY <1>1 DEF httpVars
<1>2. ASSUME NEW c \in Callers, NEW u \in Urls, HitCache(c, u) \/ CircuitRefuses(c, u)
      PROVE  CircuitInv'
  BY <1>2, AnsweredAtOnce
<1>3. ASSUME NEW c \in Callers, NEW u \in Urls, Ask(c, u) PROVE CircuitInv'
  <2>1. seen'.failed = seen.failed
    BY <1>3, AttemptEffect DEF Ask
  <2> QED
    BY <1>0, <1>3, <2>1 DEF Ask
<1>4. ASSUME NEW c \in Callers, BackoffEnds(c) PROVE CircuitInv'
  <2>1. seen'.failed = seen.failed
    BY <1>4, AttemptEffect DEF BackoffEnds
  <2> QED
    BY <1>4, <2>1 DEF BackoffEnds
<1>5. ASSUME NEW c \in Callers, SlotComes(c) PROVE CircuitInv'
  <2>1. seen' = [failed |-> seen.failed, gap |-> 0] /\ UNCHANGED <<failures, circuit>>
    BY <1>5, SlotComesEffect
  <2> QED
    BY <2>1
<1>6. ASSUME NEW c \in Callers, TryLater(c), ~ GiveUp(c) PROVE CircuitInv'
  BY <1>6, BackoffEffect
<1>7. ASSUME NEW c \in Callers, GiveUp(c) PROVE CircuitInv'
  <2>1. /\ failures' = failures + 1
        /\ circuit' = IF failures' >= Threshold THEN Recovery ELSE circuit
        /\ seen'.failed = IF seen.failed < Threshold THEN seen.failed + 1 ELSE seen.failed
    BY <1>7, GiveUpEffect
  <2>2. failures' <= seen'.failed \/ Threshold <= seen'.failed
    BY <1>0, <2>1
  <2>3. circuit' # Closed => seen'.failed >= Threshold
    BY <1>0, <2>1, <2>2
  <2> QED
    BY <2>2, <2>3
<1>8. ASSUME NEW c \in Callers, NEW body, NEW age \in Ages, Answered(c, body, age)
      PROVE  CircuitInv'
  <2>1. failures' = 0 /\ circuit' = Closed /\ seen' = [failed |-> 0, gap |-> seen.gap]
    BY <1>8, AnsweredEffect
  <2> QED
    BY <2>1
<1>9. ASSUME NEW c \in Callers, Drop(c) PROVE CircuitInv'
  BY <1>9, DropEffect
<1>10. CASE Tick
  <2>1. failures' = failures /\ seen'.failed = seen.failed
    BY <1>10, TickEffect DEF Tick
  <2>2. circuit' # Closed => circuit # Closed
    <3> SUFFICES ASSUME circuit = Closed PROVE circuit' = Closed
      OBVIOUS
    <3>1. circuit' = Less(-1)
      BY <1>10 DEF Tick, Closed
    <3> QED
      BY <3>1 DEF Less, Closed
  <2> QED
    BY <2>1, <2>2
<1> QED
  BY <1>1, <1>2, <1>3, <1>4, <1>5, <1>6, <1>7, <1>8, <1>9, <1>10
     DEF HttpNext, Begin, Proceed, Rejected, Ages

\* The part of CacheInv that is about callers, for a step of one of them that
\* leaves the cache alone.
LEMMA CacheFrame ==
  ASSUME CacheInv, NEW c \in Callers, Alone(c), UNCHANGED cache,
         calls'[c].pc = "sent" => calls'[c].left \in 0..Flight,
         calls'[c].pc = "returned" => calls'[c].age <= Flight + CacheTtl - 1
  PROVE  CacheInv'
  BY DEF CacheInv, Alone, Cached, AnswersAreFresh

LEMMA CacheStep ==
  ASSUME CallsOK, CacheInv, HttpNext \/ UNCHANGED httpVars
  PROVE  CacheInv'
<1>0. Flight \in Nat /\ CacheTtl \in Nat /\ CacheTtl > 0 /\ Flight \in 0..Flight
  BY PolicyAssumption
<1>1. CASE UNCHANGED httpVars
  BY <1>1 DEF httpVars, CacheInv, Cached, AnswersAreFresh
<1>2. ASSUME NEW c \in Callers, NEW u \in Urls, HitCache(c, u) \/ CircuitRefuses(c, u)
      PROVE  CacheInv'
  <2>1. Alone(c) /\ UNCHANGED cache
    BY <1>2, AnsweredAtOnce DEF Quiet
  <2>2. \/ Cached(u) /\ calls'[c] = Returned(u, cache[u].body, cache[u].age)
        \/ calls'[c].pc = "failed"
    BY <1>2, AnsweredAtOnce
  <2>3. Cached(u) => cache[u].age <= Flight + CacheTtl - 1
    <3> SUFFICES ASSUME Cached(u) PROVE cache[u].age <= Flight + CacheTtl - 1
      OBVIOUS
    <3>1. /\ cache[u].left \in Nat /\ cache[u].left > 0
          /\ cache[u].age \in Nat /\ cache[u].age + cache[u].left <= Flight + CacheTtl
      BY DEF CacheInv, Cached
    <3> QED
      BY <1>0, <3>1
  <2>4. CASE Cached(u) /\ calls'[c] = Returned(u, cache[u].body, cache[u].age)
    <3>1. calls'[c].pc = "returned" /\ calls'[c].age = cache[u].age
      BY <2>4 DEF Returned
    <3> QED
      BY <2>1, <2>3, <2>4, <3>1, CacheFrame
  <2>5. CASE calls'[c].pc = "failed"
    BY <2>1, <2>5, CacheFrame
  <2> QED
    BY <2>2, <2>4, <2>5
<1>3. ASSUME NEW c \in Callers, NEW u \in Urls, NEW n, Attempt(c, u, n), UNCHANGED cache
      PROVE  CacheInv'
  <2>1. Alone(c)
    BY <1>3, AttemptEffect
  <2>2. \/ calls'[c] = [pc |-> "sent", url |-> u, attempt |-> n, left |-> Flight]
        \/ calls'[c] = [pc |-> "slot", url |-> u, attempt |-> n, left |-> slot]
    BY <1>3, AttemptEffect
  <2>3. \/ calls'[c].pc = "sent" /\ calls'[c].left = Flight
        \/ calls'[c].pc = "slot"
    BY <2>2
  <2> QED
    BY <1>0, <1>3, <2>1, <2>3, CacheFrame
<1>4. ASSUME NEW c \in Callers, NEW u \in Urls, Ask(c, u) PROVE CacheInv'
  BY <1>3, <1>4 DEF Ask
<1>5. ASSUME NEW c \in Callers, BackoffEnds(c) PROVE CacheInv'
  <2>1. calls[c].url \in Urls
    BY <1>5 DEF BackoffEnds, CallsOK, Waiting
  <2> QED
    BY <1>3, <1>5, <2>1 DEF BackoffEnds
<1>6. ASSUME NEW c \in Callers, SlotComes(c) PROVE CacheInv'
  <2>1. Alone(c) /\ UNCHANGED cache
    BY <1>6, SlotComesEffect
  <2>2. calls'[c] = [pc |-> "sent", url |-> calls[c].url,
                     attempt |-> calls[c].attempt, left |-> Flight]
    BY <1>6, SlotComesEffect
  <2>3. calls'[c].pc = "sent" /\ calls'[c].left = Flight
    BY <2>2
  <2> QED
    BY <1>0, <2>1, <2>3, CacheFrame
<1>7. ASSUME NEW c \in Callers, TryLater(c), ~ GiveUp(c) PROVE CacheInv'
  <2>1. Alone(c) /\ UNCHANGED cache /\ calls'[c].pc = "backoff"
    BY <1>7, BackoffEffect DEF Quiet
  <2> QED
    BY <2>1, CacheFrame
<1>8. ASSUME NEW c \in Callers, GiveUp(c) PROVE CacheInv'
  <2>1. Alone(c) /\ UNCHANGED cache /\ calls'[c].pc = "failed"
    BY <1>8, GiveUpEffect DEF Quiet
  <2> QED
    BY <2>1, CacheFrame
<1>9. ASSUME NEW c \in Callers, NEW body, NEW age \in Ages, Answered(c, body, age)
      PROVE  CacheInv'
  <2> DEFINE url == calls[c].url
  <2>1. Quiet(c) /\ url \in Urls
    BY <1>9, AnsweredEffect
  <2>2. /\ cache'[url] = Kept(body, age)
        /\ \A u \in Urls : u # url => cache'[u] = cache[u]
    BY <1>9, AnsweredEffect
  <2>3. calls'[c] = Returned(url, body, age)
    BY <1>9, AnsweredEffect
  <2>4. calls'[c].pc = "returned" /\ calls'[c].age = age
    BY <2>3 DEF Returned
  <2>5. age \in Nat /\ age <= Flight /\ age <= Flight + CacheTtl - 1
    BY <1>0 DEF Ages
  <2>6. /\ cache'[url].left = CacheTtl /\ cache'[url].age = age
        /\ cache'[url] = [body |-> cache'[url].body, age |-> cache'[url].age,
                          left |-> cache'[url].left]
    BY <2>2 DEF Kept
  <2>7. ASSUME NEW u \in Urls
        PROVE  /\ cache'[u].left \in Nat
               /\ cache'[u].left > 0 =>
                    /\ cache'[u] = [body |-> cache'[u].body, age |-> cache'[u].age,
                                    left |-> cache'[u].left]
                    /\ cache'[u].age \in Nat
                    /\ cache'[u].age + cache'[u].left <= Flight + CacheTtl
    <3>1. CASE u = url
      BY <1>0, <2>2, <2>5, <2>6, <3>1
    <3>2. CASE u # url
      BY <2>2, <3>2 DEF CacheInv, Cached
    <3> QED
      BY <3>1, <3>2
  <2>8. /\ \A d \in Callers : calls'[d].pc = "sent" => calls'[d].left \in 0..Flight
        /\ AnswersAreFresh'
    BY <2>1, <2>4, <2>5 DEF CacheInv, AnswersAreFresh, Quiet, Alone
  <2> QED
    BY <2>7, <2>8 DEF CacheInv, Cached
<1>10. ASSUME NEW c \in Callers, Drop(c) PROVE CacheInv'
  <2>1. Alone(c) /\ UNCHANGED cache /\ calls'[c] = [pc |-> "idle"]
    BY <1>10, DropEffect DEF Quiet
  <2>2. calls'[c].pc = "idle"
    BY <2>1
  <2> QED
    BY <2>1, <2>2, CacheFrame
<1>11. CASE Tick
  <2>1. ASSUME NEW u \in Urls
        PROVE  /\ cache'[u].left \in Nat
               /\ cache'[u].left > 0 =>
                    /\ cache'[u] = [body |-> cache'[u].body, age |-> cache'[u].age,
                                    left |-> cache'[u].left]
                    /\ cache'[u].age \in Nat
                    /\ cache'[u].age + cache'[u].left <= Flight + CacheTtl
    <3>1. CASE cache[u].left > 1
      <4>1. /\ cache[u] = [body |-> cache[u].body, age |-> cache[u].age, left |-> cache[u].left]
            /\ cache[u].age \in Nat /\ cache[u].left \in Nat
            /\ cache[u].age + cache[u].left <= Flight + CacheTtl
        BY <3>1 DEF CacheInv, Cached
      <4>2. cache'[u] = [cache[u] EXCEPT !.age = cache[u].age + 1, !.left = cache[u].left - 1]
        BY <1>11, <3>1 DEF Tick
      <4>3. cache'[u] = [body |-> cache[u].body, age |-> cache[u].age + 1,
                         left |-> cache[u].left - 1]
        BY <4>1, <4>2
      <4>4. /\ cache'[u].body = cache[u].body /\ cache'[u].age = cache[u].age + 1
            /\ cache'[u].left = cache[u].left - 1
        BY <4>3
      <4> QED
        BY <1>0, <3>1, <4>1, <4>3, <4>4
    <3>2. CASE ~ (cache[u].left > 1)
      <4>1. cache'[u] = [left |-> 0]
        BY <1>11, <3>2 DEF Tick, NoEntry
      <4> QED
        BY <4>1
    <3> QED
      BY <3>1, <3>2
  <2>2. ASSUME NEW c \in Callers, calls'[c].pc = "sent" PROVE calls'[c].left \in 0..Flight
    <3>1. Waiting(c)
      BY <1>11, <2>2, TickEffect DEF Waiting
    <3>2. /\ calls'[c] = [pc |-> calls[c].pc, url |-> calls[c].url,
                          attempt |-> calls[c].attempt, left |-> calls[c].left - 1]
          /\ calls[c].left > 0
      BY <1>11, <3>1, TickEffect
    <3>3. calls[c].pc = "sent" /\ calls'[c].left = calls[c].left - 1
      BY <2>2, <3>2
    <3>4. calls[c].left \in 0..Flight
      BY <3>3 DEF CacheInv
    <3> QED
      BY <1>0, <3>2, <3>3, <3>4
  <2>3. ASSUME NEW c \in Callers, calls'[c].pc = "returned"
        PROVE  calls'[c].age <= Flight + CacheTtl - 1
    <3>1. ~ Waiting(c)
      <4> SUFFICES ASSUME Waiting(c) PROVE FALSE
        OBVIOUS
      <4>1. calls'[c].pc = calls[c].pc
        BY <1>11, TickEffect
      <4> QED
        BY <2>3, <4>1 DEF Waiting
    <3> QED
      BY <1>11, <2>3, <3>1, TickEffect DEF CacheInv, AnswersAreFresh
  <2> QED
    BY <2>1, <2>2, <2>3 DEF CacheInv, Cached, AnswersAreFresh
<1> QED
  BY <1>1, <1>2, <1>4, <1>5, <1>6, <1>7, <1>8, <1>9, <1>10, <1>11
     DEF HttpNext, Begin, Proceed, Rejected, Ages

LEMMA HttpInvStep ==
  ASSUME HttpInv, HttpNext \/ UNCHANGED httpVars
  PROVE  HttpInv'
  BY CallsStep, CircuitStep, CacheStep, SpacingStep DEF HttpInv

-----------------------------------------------------------------------------
\* The pairs of a matrix.

LEMMA Product ==
  ASSUME NEW n \in Nat, n > 0
  PROVE  (n + 1) * n \in Nat /\ (n + 1) * n >= 1
<1>1. (n + 1) * n = n * n + n
  OBVIOUS
<1>2. n * n \in Nat
  OBVIOUS
<1> QED
  BY <1>1, <1>2

LEMMA Quotient ==
  ASSUME NEW n \in Nat, n > 0, NEW x \in Nat, x < (n + 1) * n
  PROVE  x \div n \in 0..n
<1>1. /\ x \div n \in Int /\ (x % n) \in 0..(n - 1)
      /\ x = n * (x \div n) + (x % n)
  OBVIOUS
<1>2. ASSUME NEW q \in Int, q > n PROVE n * q >= (n + 1) * n
  <2>1. q - (n + 1) \in Nat
    BY <1>2
  <2>2. ASSUME NEW i \in Nat, NEW j \in Nat PROVE i * j \in Nat
    OBVIOUS
  <2>3. n * (q - (n + 1)) \in Nat
    BY <2>1, <2>2
  <2>4. n * (q - (n + 1)) = n * q - n * (n + 1)
    BY <1>2
  <2> QED
    BY <1>2, <2>3, <2>4
<1>3. ASSUME NEW q \in Int, q < 0 PROVE n * q + (n - 1) < 0
  <2>1. -q - 1 \in Nat
    BY <1>3
  <2>2. n * (-q - 1) >= 0
    BY <2>1
  <2> QED
    BY <1>3, <2>2
<1> QED
  BY <1>1, <1>2, <1>3

LEMMA SelectedTyped ==
  ASSUME NEW endpoints \in Matrices
  PROVE  Selected(endpoints) \in Seq(Urls) /\ Selected(endpoints) # <<>>
<1> DEFINE n == Len(endpoints) - 1
           from(k) == ((k - 1) \div n) + 1
           to(k) == ((k - 1) % n) + 1
           pairs == Pairs(endpoints)
           cut == IF Len(pairs) < MaxPairs THEN Len(pairs) ELSE MaxPairs
<1>1. n \in Nat /\ n > 0 /\ Len(endpoints) = n + 1
  BY RequestAssumption DEF RequestAssumption
<1>2. (n + 1) * n \in Nat /\ (n + 1) * n >= 1
  BY <1>1, Product
<1>3. pairs = [k \in 1..((n + 1) * n) |->
                 <<endpoints[from(k)], endpoints[IF to(k) < from(k) THEN to(k) ELSE to(k) + 1]>>]
  BY <1>1 DEF Pairs
<1>4. ASSUME NEW k \in 1..((n + 1) * n)
      PROVE  <<endpoints[from(k)], endpoints[IF to(k) < from(k) THEN to(k) ELSE to(k) + 1]>> \in Urls
  <2>1. k - 1 \in Nat /\ k - 1 < (n + 1) * n
    BY <1>2
  <2>2. (k - 1) \div n \in 0..n
    BY <1>1, <2>1, Quotient
  <2>3. (k - 1) % n \in 0..(n - 1)
    BY <1>1, <2>1
  <2>4. from(k) \in 1..(n + 1) /\ to(k) \in 1..n
    BY <1>1, <2>2, <2>3
  <2> HIDE DEF n, from, to
  <2>5. /\ (IF to(k) < from(k) THEN to(k) ELSE to(k) + 1) \in 1..(n + 1)
        /\ (IF to(k) < from(k) THEN to(k) ELSE to(k) + 1) # from(k)
    BY <1>1, <2>4
  <2> QED
    BY <1>1, <2>4, <2>5, RequestAssumption DEF RequestAssumption
<1> HIDE DEF n, from, to, pairs
<1>5. pairs \in Seq(Urls) /\ Len(pairs) = (n + 1) * n
  BY <1>2, <1>3, <1>4
<1>6. cut \in 1..Len(pairs)
  BY <1>2, <1>5, RequestAssumption DEF RequestAssumption
<1> HIDE DEF cut
<1>7. SubSeq(pairs, 1, cut) \in Seq(Urls) /\ Len(SubSeq(pairs, 1, cut)) = cut
  BY <1>5, <1>6
<1>8. Selected(endpoints) = SubSeq(pairs, 1, cut)
  BY DEF Selected, pairs, cut
<1> QED
  BY <1>6, <1>7, <1>8

-----------------------------------------------------------------------------
\* A tool that runs has got the answers to what it asked for, but for what is
\* left to do, and its request under way is the next one.
WorkOK(c) ==
  LET w == work[c] IN
  /\ w = [kind |-> w.kind, mode |-> w.mode, todo |-> w.todo, asked |-> w.asked, got |-> w.got]
  /\ w.todo \in Seq(Urls) /\ w.got \in Seq(Urls) /\ w.asked \in Seq(Urls)
  /\ w.mode = "running" =>
       /\ w.todo # <<>>
       /\ w.asked = w.got \o w.todo
       /\ Waiting(c) \/ calls[c].pc = "returned" => calls[c].url = Head(w.todo)
  /\ w.mode = "live" => w.got = w.asked

MatrixInv == DOMAIN work = Callers /\ \A c \in Callers : work[c] # NoWork => WorkOK(c)

ToolsInv == HttpInv /\ MatrixInv

LEMMA InitToolsInv == ToolsInit => ToolsInv
<1> SUFFICES ASSUME ToolsInit PROVE ToolsInv
  OBVIOUS
<1>1. MatrixInv
  BY DEF ToolsInit, MatrixInv
<1> QED
  BY <1>1, InitHttpInv DEF ToolsInit, ToolsInv

\* What the tools do to the provider.
LEMMA ProviderSteps ==
  ASSUME ToolsInv, [ToolsNext]_toolVars
  PROVE  HttpNext \/ UNCHANGED httpVars
<1>1. CASE UNCHANGED toolVars
  BY <1>1 DEF toolVars
<1>2. ASSUME NEW c \in Callers, NextRequest(c) PROVE HttpNext
  <2>1. work[c] # NoWork /\ work[c].todo # <<>>
    BY <1>2 DEF NextRequest, Due, Running
  <2>2. work[c].todo \in Seq(Urls)
    BY <2>1 DEF ToolsInv, MatrixInv, WorkOK
  <2>3. Head(work[c].todo) \in Urls
    BY <2>1, <2>2
  <2> QED
    BY <1>2, <2>3 DEF NextRequest, HttpNext
<1>3. ASSUME NEW c \in Callers, TakeAnswer(c) \/ StartTool(c) \/ CancelTool(c) PROVE HttpNext
  BY <1>3 DEF TakeAnswer, StartTool, CancelTool, CancelCall, HttpNext, Drop
<1>4. ASSUME NEW c \in Callers, Proceed(c) PROVE HttpNext
  BY <1>4 DEF HttpNext
<1>5. CASE Tick
  BY <1>5 DEF HttpNext
<1> QED
  BY <1>1, <1>2, <1>3, <1>4, <1>5 DEF ToolsNext

\* A step of the provider alone keeps the request of a caller what it is.
LEMMA SameRequest ==
  ASSUME CallsOK, NEW c \in Callers, (\E d \in Callers : Proceed(d)) \/ Tick,
         Waiting(c)' \/ calls'[c].pc = "returned"
  PROVE  /\ Waiting(c) \/ calls[c].pc = "returned"
         /\ calls'[c].url = calls[c].url
<1>1. ASSUME NEW d \in Callers, Alone(d), d # c
      PROVE  (Waiting(c) \/ calls[c].pc = "returned") /\ calls'[c].url = calls[c].url
  BY <1>1 DEF Alone, Waiting
<1>2. ASSUME NEW d \in Callers, Alone(d), Waiting(d),
             d = c => calls'[c].url = calls[c].url
      PROVE  (Waiting(c) \/ calls[c].pc = "returned") /\ calls'[c].url = calls[c].url
  BY <1>1, <1>2
<1>3. ASSUME NEW d \in Callers, SlotComes(d)
      PROVE  (Waiting(c) \/ calls[c].pc = "returned") /\ calls'[c].url = calls[c].url
  <2>1. Alone(d) /\ Waiting(d)
    BY <1>3, SlotComesEffect DEF SlotComes, Waiting
  <2>2. calls'[d] = [pc |-> "sent", url |-> calls[d].url,
                     attempt |-> calls[d].attempt, left |-> Flight]
    BY <1>3, SlotComesEffect
  <2>3. calls'[d].url = calls[d].url
    BY <2>2
  <2> QED
    BY <1>2, <2>1, <2>3
<1>4. ASSUME NEW d \in Callers, BackoffEnds(d)
      PROVE  (Waiting(c) \/ calls[c].pc = "returned") /\ calls'[c].url = calls[c].url
  <2>1. Attempt(d, calls[d].url, NextAttempt(d)) /\ Waiting(d)
    BY <1>4 DEF BackoffEnds, Waiting
  <2>2. /\ Alone(d)
        /\ \/ calls'[d] = [pc |-> "sent", url |-> calls[d].url, attempt |-> NextAttempt(d),
                           left |-> Flight]
           \/ calls'[d] = [pc |-> "slot", url |-> calls[d].url, attempt |-> NextAttempt(d),
                           left |-> slot]
    BY <2>1, AttemptEffect
  <2>3. calls'[d].url = calls[d].url
    BY <2>2
  <2> QED
    BY <1>2, <2>1, <2>2, <2>3
<1>5. ASSUME NEW d \in Callers, GiveUp(d)
      PROVE  (Waiting(c) \/ calls[c].pc = "returned") /\ calls'[c].url = calls[c].url
  <2>1. Alone(d) /\ calls'[d].pc = "failed"
    BY <1>5, GiveUpEffect DEF Quiet
  <2>2. d # c
    BY <2>1 DEF Waiting
  <2> QED
    BY <1>1, <2>1, <2>2
<1>6. ASSUME NEW d \in Callers, TryLater(d), ~ GiveUp(d)
      PROVE  (Waiting(c) \/ calls[c].pc = "returned") /\ calls'[c].url = calls[c].url
  <2>1. Alone(d) /\ Waiting(d)
    BY <1>6, BackoffEffect DEF Quiet, TryLater, Waiting
  <2>2. calls'[d].url = calls[d].url
    BY <1>6, BackoffEffect
  <2> QED
    BY <1>2, <2>1, <2>2
<1>7. ASSUME NEW d \in Callers, NEW body, NEW age \in Ages, Answered(d, body, age)
      PROVE  (Waiting(c) \/ calls[c].pc = "returned") /\ calls'[c].url = calls[c].url
  <2>1. Alone(d) /\ Waiting(d)
    BY <1>7, AnsweredEffect DEF Quiet, Answered, Waiting
  <2>2. calls'[d] = Returned(calls[d].url, body, age)
    BY <1>7, AnsweredEffect
  <2>3. calls'[d].url = calls[d].url
    BY <2>2 DEF Returned
  <2> QED
    BY <1>2, <2>1, <2>3
<1>8. CASE Tick
  <2>1. CASE Waiting(c)
    <3>1. calls'[c] = [pc |-> calls[c].pc, url |-> calls[c].url,
                       attempt |-> calls[c].attempt, left |-> calls[c].left - 1]
      BY <1>8, <2>1, TickEffect
    <3> QED
      BY <2>1, <3>1
  <2>2. CASE ~ Waiting(c)
    BY <1>8, <2>2, TickEffect DEF Waiting
  <2> QED
    BY <2>1, <2>2
<1> QED
  BY <1>3, <1>4, <1>5, <1>6, <1>7, <1>8 DEF Proceed, Rejected, Ages

LEMMA TakeOne ==
  ASSUME NEW S, NEW got \in Seq(S), NEW todo \in Seq(S), todo # <<>>
  PROVE  /\ Append(got, Head(todo)) \in Seq(S) /\ Tail(todo) \in Seq(S)
         /\ Append(got, Head(todo)) \o Tail(todo) = got \o todo
         /\ Len(todo) = 1 => Append(got, Head(todo)) = got \o todo
         /\ Len(todo) # 1 => Tail(todo) # <<>>
<1> DEFINE more == Append(got, Head(todo))
           rest == Tail(todo)
<1>1. /\ Head(todo) \in S /\ rest \in Seq(S) /\ Len(rest) = Len(todo) - 1
      /\ \A i \in 1..Len(rest) : rest[i] = todo[i + 1]
      /\ Len(todo) \in Nat /\ Len(todo) > 0 /\ Head(todo) = todo[1]
  BY HeadTailProperties, EmptySeq, LenProperties
<1>2. /\ more \in Seq(S) /\ Len(more) = Len(got) + 1
      /\ \A i \in 1..Len(got) : more[i] = got[i]
      /\ more[Len(got) + 1] = todo[1]
      /\ Len(got) \in Nat
  BY <1>1, AppendProperties, LenProperties
<1> HIDE DEF more, rest
<1>3. /\ more \o rest \in Seq(S) /\ got \o todo \in Seq(S)
      /\ Len(more \o rest) = Len(more) + Len(rest)
      /\ Len(got \o todo) = Len(got) + Len(todo)
      /\ \A i \in 1..(Len(more) + Len(rest)) : (more \o rest)[i] =
           IF i <= Len(more) THEN more[i] ELSE rest[i - Len(more)]
      /\ \A i \in 1..(Len(got) + Len(todo)) : (got \o todo)[i] =
           IF i <= Len(got) THEN got[i] ELSE todo[i - Len(got)]
  BY <1>1, <1>2, ConcatProperties
<1>4. more \o rest = got \o todo
  <2>1. Len(more \o rest) = Len(got \o todo)
    BY <1>1, <1>2, <1>3
  <2>2. ASSUME NEW i \in 1..Len(more \o rest)
        PROVE  (more \o rest)[i] = (got \o todo)[i]
    <3>1. CASE i <= Len(got)
      BY <1>1, <1>2, <1>3, <3>1
    <3>2. CASE i = Len(got) + 1
      BY <1>1, <1>2, <1>3, <3>2
    <3>3. CASE i > Len(got) + 1
      <4>1. (more \o rest)[i] = rest[i - Len(more)] /\ i - Len(more) \in 1..Len(rest)
        BY <1>1, <1>2, <1>3, <3>3
      <4>2. rest[i - Len(more)] = todo[i - Len(more) + 1]
        BY <1>1, <4>1
      <4>3. i - Len(more) + 1 = i - Len(got)
        BY <1>2, <1>3
      <4>4. (got \o todo)[i] = todo[i - Len(got)]
        BY <1>1, <1>2, <1>3, <3>3
      <4> QED
        BY <4>1, <4>2, <4>3, <4>4
    <3> QED
      BY <1>1, <1>2, <1>3, <3>1, <3>2, <3>3
  <2> QED
    BY <1>3, <2>1, <2>2, SeqEqual
<1>5. Len(todo) = 1 => rest = <<>>
  BY <1>1, EmptySeq
<1>6. Len(todo) # 1 => rest # <<>>
  BY <1>1, EmptySeq
<1>7. Len(todo) = 1 => more = got \o todo
  BY <1>2, <1>4, <1>5, ConcatEmptySeq
<1> QED
  BY <1>1, <1>2, <1>4, <1>6, <1>7 DEF more, rest

LEMMA MatrixStep ==
  ASSUME ToolsInv, [ToolsNext]_toolVars
  PROVE  MatrixInv'
<1>0. CallsOK /\ DOMAIN work = Callers /\ DOMAIN calls = Callers
  BY DEF ToolsInv, HttpInv, MatrixInv, CallsOK
<1>1. CASE UNCHANGED toolVars
  BY <1>1 DEF toolVars, httpVars, ToolsInv, MatrixInv, WorkOK, Waiting
\* A step of the tool of c that leaves the others alone.
<1>2. ASSUME NEW c \in Callers, Alone(c), DOMAIN work' = Callers,
             \A d \in Callers : d # c => work'[d] = work[d],
             work'[c] # NoWork => WorkOK(c)'
      PROVE  MatrixInv'
  <2>1. ASSUME NEW d \in Callers, d # c, work'[d] # NoWork PROVE WorkOK(d)'
    BY <1>2, <2>1 DEF ToolsInv, MatrixInv, WorkOK, Alone, Waiting
  <2> QED
    BY <1>2, <2>1 DEF MatrixInv
<1>3. ASSUME NEW c \in Callers, NextRequest(c) PROVE MatrixInv'
  <2> DEFINE u == Head(work[c].todo)
  <2>1. /\ work' = work /\ work[c] # NoWork /\ work[c].todo # <<>>
        /\ Begin(c, u)
    BY <1>3 DEF NextRequest, Due, Running
  <2>2. WorkOK(c)
    BY <2>1 DEF ToolsInv, MatrixInv
  <2>3. u \in Urls
    BY <2>1, <2>2 DEF WorkOK
  <2> HIDE DEF u
  <2>4. Alone(c)
    BY <1>0, <2>1, <2>3, AnsweredAtOnce, AttemptEffect DEF Begin, Ask, Quiet
  <2>5. Waiting(c)' \/ calls'[c].pc = "returned" => calls'[c].url = u
    <3>1. CASE HitCache(c, u) \/ CircuitRefuses(c, u)
      <4>1. calls'[c] = Returned(u, cache[u].body, cache[u].age) \/ calls'[c].pc = "failed"
        BY <1>0, <2>3, <3>1, AnsweredAtOnce
      <4> QED
        BY <4>1 DEF Returned, Waiting
    <3>2. CASE Ask(c, u)
      <4>1. \/ calls'[c] = [pc |-> "sent", url |-> u, attempt |-> 1, left |-> Flight]
            \/ calls'[c] = [pc |-> "slot", url |-> u, attempt |-> 1, left |-> slot]
        BY <1>0, <3>2, AttemptEffect DEF Ask
      <4> QED
        BY <4>1
    <3> QED
      BY <2>1, <3>1, <3>2 DEF Begin
  <2>6. WorkOK(c)'
    BY <2>1, <2>2, <2>5 DEF WorkOK, u, Waiting
  <2> QED
    BY <1>0, <1>2, <2>1, <2>4, <2>6
<1>4. ASSUME NEW c \in Callers, TakeAnswer(c) PROVE MatrixInv'
  <2> DEFINE w == work[c]
  <2>1. /\ w # NoWork /\ w.mode = "running" /\ calls[c].pc \in {"returned", "failed"}
        /\ calls' = [calls EXCEPT ![c] = Idle]
        /\ work' = [work EXCEPT ![c] = IF calls[c].pc = "failed" THEN AfterFailure(w)
                                       ELSE AfterAnswer(w, calls[c])]
    BY <1>4 DEF TakeAnswer, Due, Running
  <2>2. WorkOK(c)
    BY <2>1 DEF ToolsInv, MatrixInv
  <2>3. /\ w = [kind |-> w.kind, mode |-> w.mode, todo |-> w.todo, asked |-> w.asked, got |-> w.got]
        /\ w.mode = "running"
        /\ w.todo \in Seq(Urls) /\ w.got \in Seq(Urls) /\ w.asked \in Seq(Urls)
        /\ w.todo # <<>> /\ w.asked = w.got \o w.todo
        /\ calls[c].pc = "returned" => calls[c].url = Head(w.todo)
    BY <2>1, <2>2 DEF WorkOK
  <2>4. Alone(c) /\ calls'[c].pc = "idle"
    BY <1>0, <2>1 DEF Alone, Idle
  <2>5. ~ (Waiting(c)' \/ calls'[c].pc = "returned")
    BY <2>4 DEF Waiting
  <2>6. /\ DOMAIN work' = Callers /\ \A d \in Callers : d # c => work'[d] = work[d]
        /\ work'[c] = IF calls[c].pc = "failed" THEN AfterFailure(w) ELSE AfterAnswer(w, calls[c])
    BY <1>0, <2>1
  <2> HIDE DEF w
  <2>7. <<>> \in Seq(Urls)
    OBVIOUS
  <2>8. ASSUME NEW mode \in {"fixture", "error"},
               work'[c] = [kind |-> w.kind, mode |-> mode, todo |-> w.todo, asked |-> w.asked, got |-> <<>>]
        PROVE  WorkOK(c)'
    BY <2>3, <2>7, <2>8 DEF WorkOK
  <2>9. ASSUME calls[c].pc = "failed" PROVE WorkOK(c)'
    <3> DEFINE mode == IF w.kind = "forecast" THEN "fixture" ELSE "error"
    <3>1. work'[c] = [w EXCEPT !.mode = mode, !.got = <<>>]
      BY <2>6, <2>9 DEF AfterFailure
    <3>2. mode \in {"fixture", "error"}
      OBVIOUS
    <3> HIDE DEF mode
    <3>3. work'[c] = [kind |-> w.kind, mode |-> mode, todo |-> w.todo, asked |-> w.asked, got |-> <<>>]
      BY <2>3, <3>1
    <3> QED
      BY <2>8, <3>2, <3>3
  <2>10. ASSUME calls[c].pc = "returned" /\ calls[c].body \notin Accepted PROVE WorkOK(c)'
    <3>1. work'[c] = [w EXCEPT !.mode = "error", !.got = <<>>]
      BY <2>6, <2>10 DEF AfterAnswer
    <3>2. work'[c] = [kind |-> w.kind, mode |-> "error", todo |-> w.todo, asked |-> w.asked, got |-> <<>>]
      BY <2>3, <3>1
    <3> QED
      BY <2>8, <3>2
  <2>11. ASSUME calls[c].pc = "returned" /\ calls[c].body \in Accepted PROVE WorkOK(c)'
    <3> DEFINE got == Append(w.got, Head(w.todo))
               todo == Tail(w.todo)
               mode == IF Len(w.todo) = 1 THEN "live" ELSE w.mode
    <3>1. work'[c] = [w EXCEPT !.got = got, !.todo = todo, !.mode = mode]
      BY <2>3, <2>6, <2>11 DEF AfterAnswer
    <3>2. /\ w.got \in Seq(Urls) /\ w.todo \in Seq(Urls) /\ w.todo # <<>>
          /\ w.asked = w.got \o w.todo
      BY <2>3
    <3>3. /\ got \in Seq(Urls) /\ todo \in Seq(Urls)
          /\ got \o todo = w.got \o w.todo
          /\ Len(w.todo) = 1 => got = w.got \o w.todo
          /\ Len(w.todo) # 1 => todo # <<>>
      BY <3>2, TakeOne
    <3>4. mode = IF Len(w.todo) = 1 THEN "live" ELSE "running"
      BY <2>3
    <3> HIDE DEF got, todo, mode
    <3>5. /\ w.asked = got \o todo
          /\ (mode = "live" /\ got = w.asked) \/ (mode = "running" /\ todo # <<>>)
      BY <3>2, <3>3, <3>4
    <3>6. work'[c] = [kind |-> w.kind, mode |-> mode, todo |-> todo, asked |-> w.asked, got |-> got]
      BY <2>3, <3>1
    <3>7. /\ work'[c].todo = todo /\ work'[c].got = got /\ work'[c].mode = mode
          /\ work'[c].asked = w.asked /\ work'[c].kind = w.kind
      BY <3>6
    <3>8. w.asked \in Seq(Urls)
      BY <2>3
    <3> QED
      BY <2>5, <3>3, <3>5, <3>6, <3>7, <3>8 DEF WorkOK
  <2> QED
    BY <1>2, <2>1, <2>4, <2>6, <2>9, <2>10, <2>11
<1>5. ASSUME NEW c \in Callers, StartTool(c) PROVE MatrixInv'
  <2>1. Alone(c) /\ calls'[c].pc = "idle"
    BY <1>0, <1>5 DEF StartTool, Alone, Idle
  <2>2. DOMAIN work' = Callers /\ \A d \in Callers : d # c => work'[d] = work[d]
    BY <1>0, <1>5 DEF StartTool
  <2>3. PICK kind, requests :
          requests \in Seq(Urls) /\ requests # <<>> /\ work'[c] = Tool(kind, requests)
    <3>1. \A u \in Urls : <<u>> \in Seq(Urls) /\ <<u>> # <<>>
      OBVIOUS
    <3>2. Singles \subseteq Urls /\ Forecast \in Urls
      BY RequestAssumption DEF RequestAssumption
    <3>3. ASSUME NEW u \in Singles, work' = [work EXCEPT ![c] = Tool("single", <<u>>)]
          PROVE  \E kind, requests :
                   requests \in Seq(Urls) /\ requests # <<>> /\ work'[c] = Tool(kind, requests)
      <4>1. work'[c] = Tool("single", <<u>>)
        BY <1>0, <3>3
      <4> QED
        BY <3>1, <3>2, <4>1
    <3>4. ASSUME work' = [work EXCEPT ![c] = Tool("forecast", <<Forecast>>)]
          PROVE  \E kind, requests :
                   requests \in Seq(Urls) /\ requests # <<>> /\ work'[c] = Tool(kind, requests)
      <4>1. work'[c] = Tool("forecast", <<Forecast>>)
        BY <1>0, <3>4
      <4> QED
        BY <3>1, <3>2, <4>1
    <3>5. ASSUME NEW endpoints \in Matrices,
                 work' = [work EXCEPT ![c] = Tool("matrix", Selected(endpoints))]
          PROVE  \E kind, requests :
                   requests \in Seq(Urls) /\ requests # <<>> /\ work'[c] = Tool(kind, requests)
      <4>1. work'[c] = Tool("matrix", Selected(endpoints))
        BY <1>0, <3>5
      <4> QED
        BY <4>1, SelectedTyped
    <3> QED
      BY <1>5, <3>3, <3>4, <3>5 DEF StartTool
  <2>4. work'[c] = [kind |-> kind, mode |-> "running", todo |-> requests, asked |-> requests,
                    got |-> <<>>]
    BY <2>3 DEF Tool
  <2>5. requests = <<>> \o requests /\ <<>> \in Seq(Urls)
    BY ConcatEmptySeq
  <2>6. ~ (Waiting(c)' \/ calls'[c].pc = "returned")
    BY <2>1 DEF Waiting
  <2>7. WorkOK(c)'
    BY <2>3, <2>4, <2>5, <2>6 DEF WorkOK
  <2> QED
    BY <1>2, <2>1, <2>2, <2>7
<1>6. ASSUME NEW c \in Callers, CancelTool(c) PROVE MatrixInv'
  <2>1. Alone(c) /\ work'[c] = NoWork /\ DOMAIN work' = Callers
        /\ \A d \in Callers : d # c => work'[d] = work[d]
    BY <1>0, <1>6 DEF CancelTool, CancelCall, Alone
  <2> QED
    BY <1>2, <2>1
<1>7. CASE ((\E d \in Callers : Proceed(d)) \/ Tick) /\ UNCHANGED work
  <2>1. ASSUME NEW c \in Callers, work'[c] # NoWork PROVE WorkOK(c)'
    <3>1. WorkOK(c) /\ work'[c] = work[c]
      BY <1>7, <2>1 DEF ToolsInv, MatrixInv
    <3>2. Waiting(c)' \/ calls'[c].pc = "returned" =>
            (Waiting(c) \/ calls[c].pc = "returned") /\ calls'[c].url = calls[c].url
      BY <1>0, <1>7, SameRequest
    <3> QED
      BY <3>1, <3>2 DEF WorkOK
  <2> QED
    BY <1>0, <1>7, <2>1 DEF MatrixInv
<1> QED
  BY <1>1, <1>3, <1>4, <1>5, <1>6, <1>7 DEF ToolsNext

LEMMA ToolsInvStep == ToolsInv /\ [ToolsNext]_toolVars => ToolsInv'
<1> SUFFICES ASSUME ToolsInv, [ToolsNext]_toolVars PROVE ToolsInv'
  OBVIOUS
<1> QED
  BY ProviderSteps, HttpInvStep, MatrixStep DEF ToolsInv

\* The invariants of the provider and of the tools hold in every state
\* (ResilientHttpProvider, AmapRouteAdapter.matrix).
THEOREM ToolsInvariant == ToolsSpec => []ToolsInv
  BY InitToolsInv, ToolsInvStep, PTL DEF ToolsSpec

\* The circuit is open only after circuit_failure_threshold failures in a row,
\* whichever callers they were of (request_json).
THEOREM CircuitOpensRightly == ToolsSpec => []OpensAfterFailuresInARow
<1>1. ToolsInv => OpensAfterFailuresInARow
  BY DEF ToolsInv, HttpInv, CircuitInv
<1> QED
  BY <1>1, ToolsInvariant, PTL

\* No answer that a caller gets is older than a request and cache_ttl_seconds
\* take, however requests overlap (request_json).
THEOREM CacheIsFresh == ToolsSpec => []AnswersAreFresh
<1>1. ToolsInv => AnswersAreFresh
  BY DEF ToolsInv, HttpInv, CacheInv
<1> QED
  BY <1>1, ToolsInvariant, PTL

\* A matrix that is returned has the routes of exactly its pairs, in their
\* order (matrix).
THEOREM MatricesAreWhole == ToolsSpec => []MatrixIsWhole
<1>1. ToolsInv => MatrixIsWhole
  BY DEF ToolsInv, MatrixInv, WorkOK, MatrixIsWhole
<1> QED
  BY <1>1, ToolsInvariant, PTL

\* Two requests never leave closer together than the rate allows, whoever
\* makes them, retries and cancelled callers included (_RateLimiter.wait).
THEOREM RateIsKept == ToolsSpec => SendsAreSpaced
<1> DEFINE Spaced == \A c \in Callers :
      (calls[c].pc # "sent" /\ calls[c].pc' = "sent") => seen.gap >= Interval
<1>1. ToolsInv /\ [ToolsNext]_toolVars => [Spaced]_httpVars
  <2> SUFFICES ASSUME ToolsInv, [ToolsNext]_toolVars, ~ UNCHANGED httpVars,
                      NEW c \in Callers, calls[c].pc # "sent", calls'[c].pc = "sent"
               PROVE  seen.gap >= Interval
    OBVIOUS
  <2>0. /\ CallsOK /\ SpacingInv /\ HttpNext
        /\ Interval \in Nat /\ slot \in Nat /\ seen.gap \in Nat
    BY ProviderSteps, PolicyAssumption DEF ToolsInv, HttpInv, CallsOK
  <2>1. ASSUME NEW d \in Callers, Quiet(d) PROVE FALSE
    BY <2>1 DEF Quiet, Alone
  <2>2. ASSUME NEW d \in Callers, NEW u, NEW n, Attempt(d, u, n) PROVE seen.gap >= Interval
    <3>1. Alone(d) /\ (slot # 0 => calls'[d] = [pc |-> "slot", url |-> u, attempt |-> n,
                                               left |-> slot])
      BY <2>0, <2>2, AttemptEffect
    <3>2. d = c
      BY <3>1 DEF Alone
    <3>3. slot = 0
      BY <3>1, <3>2
    <3> QED
      BY <2>0, <3>3 DEF SpacingInv
  <2>3. ASSUME NEW d \in Callers, SlotComes(d) PROVE seen.gap >= Interval
    <3>1. Alone(d) /\ Queued(d) /\ calls[d].left = 0
      BY <2>0, <2>3, SlotComesEffect
    <3> QED
      BY <2>0, <3>1 DEF SpacingInv
  <2>4. ASSUME Tick PROVE FALSE
    <3>1. CASE Waiting(c)
      <4>1. calls'[c] = [pc |-> calls[c].pc, url |-> calls[c].url,
                         attempt |-> calls[c].attempt, left |-> calls[c].left - 1]
        BY <2>0, <2>4, <3>1, TickEffect
      <4> QED
        BY <4>1
    <3>2. CASE ~ Waiting(c)
      BY <2>0, <2>4, <3>2, TickEffect
    <3> QED
      BY <3>1, <3>2
  <2> QED
    BY <2>0, <2>1, <2>2, <2>3, <2>4, Steps
<1> QED
  BY <1>1, ToolsInvariant, PTL DEF ToolsSpec, SendsAreSpaced
=============================================================================
