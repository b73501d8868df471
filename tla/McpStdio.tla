------------------------------ MODULE McpStdio ------------------------------
(***************************************************************************)
(* StdioMcpTransport and McpAdapter of tools/mcp_adapter.py: clients share *)
(* a server process over its pipes.  A request writes one line and reads   *)
(* one line under the lock; whoever gives up in between leaves its answer  *)
(* in the pipe.  One of the clients is the adapter that discovers tools.   *)
(***************************************************************************)
EXTENDS Integers, Sequences, FiniteSets

CONSTANTS
  Clients,        \* the adapter and the handlers of its tools
  Adapter,
  Pages,          \* the tools that the server lists, page by page
  Allowed,        \* allowed_tools
  PageLimit,      \* 20 in the code
  MaxId           \* bound on the number of requests

ASSUME AdapterAssumption ==
  /\ Adapter \in Clients
  /\ Pages # <<>>

VARIABLES
  clients,        \* what each client is doing
  queue,          \* those who wait for the lock, in order
  nextId,         \* _next_id
  process,        \* "none", "running" or "dead"
  server,         \* requests that the process has not answered
  pipe,           \* lines of the process that nobody has read
  tools,          \* what the last discovery returned
  stray           \* observed only: lines that no reader of this process waits for

mcpVars == <<clients, queue, nextId, process, server, pipe, tools, stray>>

NoTools == {}
Rest == [pc |-> "rest"]

McpInit ==
  /\ clients = [c \in Clients |-> Rest]
  /\ queue = <<>>
  /\ nextId = 1
  /\ process = "none"
  /\ server = <<>>
  /\ pipe = <<>>
  /\ tools = NoTools
  /\ stray = 0

-----------------------------------------------------------------------------
Call == [method |-> "call"]
Initialize == [method |-> "initialize"]
ListPage(n, found) == [method |-> "list", page |-> n, found |-> found]

Active(c) == clients[c].pc \in {"queued", "starting", "reading"}
Holds(c) == clients[c].pc \in {"starting", "reading"}
\* A mutant of Locked: the lock is held to write, but not to read.
LockedToWrite == \E c \in Clients : clients[c].pc = "starting"

Locked == \E c \in Clients : Holds(c)

\* A request waits for the lock behind those who wait already.
Request(c, what) ==
  /\ clients' = [clients EXCEPT ![c] = [pc |-> "queued", what |-> what]]
  /\ queue' = Append(queue, c)

\* Tools can be called when a discovery has returned them.
CallTool(c) ==
  /\ c # Adapter /\ ~ Active(c) /\ tools # NoTools
  /\ Request(c, Call)
  /\ UNCHANGED <<nextId, process, server, pipe, tools, stray>>

Discover ==
  /\ ~ Active(Adapter)
  /\ Request(Adapter, Initialize)
  /\ UNCHANGED <<nextId, process, server, pipe, tools, stray>>

Numbered(c) == [pc |-> "starting", what |-> clients[c].what, id |-> nextId]
Line(reader) == [id |-> reader.id, what |-> reader.what]

\* The lock is taken and the request numbered.  It is written in the same step
\* when there is a process; a dead one takes the line, or the write fails.
Acquire(c) ==
  /\ ~ Locked
  /\ queue # <<>> /\ Head(queue) = c
  /\ nextId <= MaxId
  /\ queue' = Tail(queue)
  /\ nextId' = nextId + 1
  /\ \/ /\ process = "none"
        /\ clients' = [clients EXCEPT ![c] = Numbered(c)]
        /\ UNCHANGED server
     \/ /\ process # "none"
        /\ clients' = [clients EXCEPT ![c] = [Numbered(c) EXCEPT !.pc = "reading"]]
        /\ server' = IF process = "running" THEN Append(server, Line(clients'[c])) ELSE server
     \/ /\ process = "dead"
        /\ clients' = [clients EXCEPT ![c] = [pc |-> "failed", why |-> "broken_pipe"]]
        /\ UNCHANGED server
  /\ UNCHANGED <<process, pipe, tools, stray>>

\* The new process has pipes of its own, and the line is written.
Start(c) ==
  /\ clients[c].pc = "starting"
  /\ process' = "running"
  /\ server' = <<Line(clients[c])>>
  /\ pipe' = <<>>
  /\ stray' = 0
  /\ clients' = [clients EXCEPT ![c].pc = "reading"]
  /\ UNCHANGED <<queue, nextId, tools>>

-----------------------------------------------------------------------------
\* What the server answers: one line for each request, in order, which may be
\* an error.  It may also die, or write a line that nobody asked for.
Ok(line) == [id |-> line.id, error |-> FALSE]
Error(line) == [id |-> line.id, error |-> TRUE]
Notice == [id |-> 0, error |-> FALSE]

ServerAnswers ==
  /\ process = "running" /\ server # <<>>
  /\ \E answer \in {Ok(Head(server)), Error(Head(server))} : pipe' = Append(pipe, answer)
  /\ server' = Tail(server)
  /\ UNCHANGED <<clients, queue, nextId, process, tools, stray>>

ServerNotifies ==
  /\ process = "running" /\ stray = 0
  /\ pipe' = Append(pipe, Notice)
  /\ stray' = 1
  /\ UNCHANGED <<clients, queue, nextId, process, server, tools>>

ServerDies ==
  /\ process = "running"
  /\ process' = "dead"
  /\ server' = <<>>
  /\ UNCHANGED <<clients, queue, nextId, pipe, tools, stray>>

-----------------------------------------------------------------------------
\* The tools of a page; the adapter asks for the next one until there is none,
\* or until the limit.
Ended(c, why) == [clients EXCEPT ![c] = [pc |-> "failed", why |-> why]]

PageOf(what) == Pages[IF what.page > Len(Pages) THEN Len(Pages) ELSE what.page]

Found(what) == what.found \union PageOf(what)

\* The answer is used in the same step.  The protocol version is checked; the
\* notification that follows, which takes the lock once more for one write and
\* which nobody answers, is part of the step.  No line is longer than readline
\* allows.  A server may send cursors for
\* ever.
UseAnswer(c, what, line) ==
  \/ /\ what.method = "call"
     /\ clients' = [clients EXCEPT ![c] = [pc |-> "returned", asked |-> @.id, got |-> line.id]]
     /\ UNCHANGED <<queue, tools>>
  \/ /\ what.method = "initialize"
     /\ \/ Request(c, ListPage(1, {}))
        \/ clients' = Ended(c, "version") /\ UNCHANGED queue
     /\ UNCHANGED tools
  \/ /\ what.method = "list" /\ what.page >= Len(Pages)
     /\ tools' = Found(what) \intersect Allowed
     /\ clients' = [clients EXCEPT ![c] = Rest]
     /\ UNCHANGED queue
  \/ /\ what.method = "list"
     /\ IF what.page < PageLimit
        THEN Request(c, ListPage(what.page + 1, Found(what)))
        ELSE clients' = Ended(c, "pagination") /\ UNCHANGED queue
     /\ UNCHANGED tools

\* A mutant of IsOwn: whatever is read is taken for the answer.
IsAny(c, line) == TRUE

IsOwn(c, line) == line.id = clients[c].id

\* The first line of the pipe is read, whoever it is for, and the lock released.
ReadLine(c) ==
  /\ clients[c].pc = "reading" /\ pipe # <<>>
  /\ pipe' = Tail(pipe)
  /\ LET line == Head(pipe) IN
     \/ IsOwn(c, line) /\ ~ line.error /\ UseAnswer(c, clients[c].what, line)
     \/ /\ IsOwn(c, line) /\ line.error
        /\ clients' = Ended(c, "error")
        /\ UNCHANGED <<queue, tools>>
     \/ /\ ~ IsOwn(c, line)
        /\ clients' = Ended(c, "mismatch")
        /\ UNCHANGED <<queue, tools>>
  /\ UNCHANGED <<nextId, process, server, stray>>

ReadEnd(c) ==
  /\ clients[c].pc = "reading"
  /\ process # "running" /\ pipe = <<>>
  /\ clients' = Ended(c, "closed")
  /\ UNCHANGED <<queue, nextId, process, server, pipe, tools, stray>>

\* The time of a request or of the agent behind it runs out: what was written
\* stays written.
Abandon(c) ==
  /\ Active(c)
  /\ clients' = Ended(c, "timeout")
  /\ queue' = SelectSeq(queue, LAMBDA q : q # c)
  /\ stray' = IF clients[c].pc = "reading" /\ stray = 0 THEN 1 ELSE stray
  /\ UNCHANGED <<nextId, process, server, pipe, tools>>

\* close does not take the lock: a reader keeps the pipe of the process it
\* wrote to, whose end it sees after the lines that are left.
Close ==
  /\ process # "none"
  /\ process' = "none"
  /\ server' = <<>>
  /\ UNCHANGED <<clients, queue, nextId, pipe, tools, stray>>

McpNext ==
  \/ Discover
  \/ \E c \in Clients :
       CallTool(c) \/ Acquire(c) \/ Start(c) \/ ReadLine(c) \/ ReadEnd(c) \/ Abandon(c)
  \/ ServerAnswers \/ ServerNotifies \/ ServerDies
  \/ Close

McpSpec == McpInit /\ [][McpNext]_mcpVars

-----------------------------------------------------------------------------
\* A tool call returns the answer to its own request, although the answers to
\* requests that were given up are still in the pipe (StdioMcpTransport.request).
AnswerIsOwn ==
  \A c \in Clients : clients[c].pc = "returned" => clients[c].got = clients[c].asked

\* Clients that share the transport do not get into each other's way: an answer
\* is only ever refused for its id when an earlier request to this process was
\* given up while it was read, or the server wrote a line of its own.
MismatchOnlyAfterStray ==
  [][\A c \in Clients :
       (clients[c]' = [pc |-> "failed", why |-> "mismatch"] /\ clients[c]' # clients[c])
         => stray = 1]_mcpVars

=============================================================================
