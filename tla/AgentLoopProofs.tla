-------------------------- MODULE AgentLoopProofs --------------------------
(***************************************************************************)
(* Theorems about AgentLoop, for any executions, candidates, limits,       *)
(* budgets, tools and replies of the providers.                            *)
(*                                                                         *)
(* The inductive invariant AgentInv has a part for each thing that an      *)
(* execution carries from one await to the next: LoopInv for its messages  *)
(* and tool calls, RouteInv for the place of the router among its          *)
(* candidates, and BudgetInv for what it knows of the ledger.              *)
(***************************************************************************)
EXTENDS AgentLoop, SumTheorems, SequenceTheorems

\* Whatever an adapter may have decoded from a reply.
ToolCalls ==
  UNION {{reply.body.calls[i].call : i \in DOMAIN reply.body.calls} :
           reply \in {r \in Replies : r.post = "body"}}

Places == {"new", "model", "tool", "returned", "failed"}

Attempts == [candidate : Candidates, outcome : FailureKinds \union {"success"}]

RunIds == {RunOf[x] : x \in Executions}
AgentIds == {AgentOf[x] : x \in Executions}

LedgerEntries ==
  [id : RunIds \X AgentIds \X Nat, run : RunIds, agent : AgentIds, cost : Nat, day : Nat]

LedgerTypeOK ==
  /\ entries \in Seq(LedgerEntries)
  /\ today \in Nat
  /\ sequence \in [Gateways -> Nat]

-----------------------------------------------------------------------------
(* What an execution has asked for and what it was answered *)

LoopInv(e) ==
  /\ DOMAIN e = DOMAIN NewExecution
  /\ e.at \in Places
  /\ e.pending \in Seq(ToolCalls)
  /\ e.called \in 0..MaxToolCalls
  /\ e.context \in Nat
  /\ e.context + Len(e.pending) = e.called
  /\ e.at = "tool" => e.pending # <<>>
  /\ e.at \in {"new", "model", "returned"} => e.pending = <<>>
  /\ e.at # "failed" => e.error = "none"

-----------------------------------------------------------------------------
(* The attempts of a route *)

Of(a, c) == {i \in DOMAIN a : a[i].candidate = c}

UsedUp(a, i) ==
  \/ a[i].outcome \notin Retryable
  \/ Cardinality(Of(a, a[i].candidate)) = MaxAttempts[a[i].candidate]

\* The attempts come in the order of the candidates, none of which is left
\* before it is used up.
Orderly(a) ==
  /\ a \in Seq(Attempts)
  /\ Len(a) <= MaxTotal
  /\ \A c \in Candidates : Cardinality(Of(a, c)) <= MaxAttempts[c]
  /\ a # <<>> => a[1].candidate = 1
  /\ \A i, j \in 1..Len(a) : i <= j => a[i].candidate <= a[j].candidate
  /\ \A i \in 1..(Len(a) - 1) :
       \/ a[i + 1].candidate = a[i].candidate /\ a[i].outcome \in Retryable
       \/ a[i + 1].candidate = a[i].candidate + 1 /\ UsedUp(a, i)

\* Nothing is left to try.
Exhausted(a) ==
  /\ a # <<>>
  /\ \/ Len(a) = MaxTotal
     \/ Last(a).candidate = Len(MaxAttempts) /\ UsedUp(a, Len(a))

\* The attempt that is under way: local and total count it, and it is the next
\* one after those that have ended.
UnderWay(r) ==
  LET a == r.attempts  n == Len(r.attempts) IN
  /\ r.candidate \in Candidates /\ r.local \in Nat /\ r.total \in 1..MaxTotal
  /\ n + 1 = r.total
  /\ r.local = Cardinality(Of(a, r.candidate))
  /\ r.local < MaxAttempts[r.candidate]
  /\ \A i \in 1..n : a[i].candidate <= r.candidate
  /\ a = <<>> => r.candidate = 1
  /\ a # <<>> =>
       \/ r.candidate = a[n].candidate /\ a[n].outcome \in Retryable
       \/ r.candidate = a[n].candidate + 1 /\ UsedUp(a, n)

RouteInv(e) ==
  /\ DOMAIN e.route = DOMAIN NewRoute
  /\ Orderly(e.route.attempts)
  /\ e.at = "model" => UnderWay(e.route)
  /\ e.error = "candidates_failed" => Exhausted(e.route.attempts)

-----------------------------------------------------------------------------
(* The ledger that an execution has seen *)

\* What the ledger exceeded after its first n entries.
ExceededAt(x, log, n) == Exceeded(SubSeq(log, 1, n), RunOf[x], AgentOf[x], log[n].day)

BudgetInv(x, e, log) ==
  /\ e.mark \in 0..Len(log)
  /\ e.mark = 0 => e.scopes = {}
  /\ e.mark > 0 =>
       /\ ExceededAt(x, log, e.mark) \subseteq e.scopes
       /\ e.scopes \subseteq UNION {ExceededAt(x, log, n) : n \in 1..e.mark}

AgentInv ==
  /\ LedgerTypeOK
  /\ DOMAIN exec = Executions
  /\ \A x \in Executions : LoopInv(exec[x]) /\ RouteInv(exec[x]) /\ BudgetInv(x, exec[x], entries)

-----------------------------------------------------------------------------
(* What the adapters return *)

\* A turn has a list of decoded calls and counters that are not negative.
LEMMA TurnsAreDecoded ==
  ASSUME NEW key, NEW reply \in Replies, Outcome(key, reply).is = "turn"
  PROVE  /\ Outcome(key, reply).calls \in Seq(ToolCalls)
         /\ Outcome(key, reply).usage \in [input : Nat, cached : Nat, output : Nat]
<1> DEFINE body == reply.body
           faulty == SelectSeq(body.calls, Faulty)
           decoded == [i \in DOMAIN body.calls |-> body.calls[i].call]
<1>1. reply.post = "body" /\ Outcome(key, reply) = Parse(body)
  BY RepliesAssumption DEF Outcome, Failure, Escape
<1>2. /\ body.listed \in BOOLEAN
      /\ body.calls \in Seq({body.calls[i] : i \in DOMAIN body.calls})
      /\ body.usage \in [input : Int, cached : Int, output : Int]
  BY <1>1, RepliesAssumption DEF RepliesAssumption
<1> HIDE DEF faulty
<1>3. Parse(body) =
        CASE ~ body.listed -> Failure("schema")
          [] body.listed /\ faulty # <<>> -> CallFault(faulty[1])
          [] body.listed /\ faulty = <<>> /\ ~ CountersValid(body.usage) -> Escape
          [] body.listed /\ faulty = <<>> /\ CountersValid(body.usage) ->
               IF body.calls # <<>>
               THEN Turn(decoded, "none", body.usage, body.model)
               ELSE IF StructuredOutput(body.texts) = "none"
                    THEN Failure("schema")
                    ELSE Turn(<<>>, StructuredOutput(body.texts), body.usage, body.model)
  BY DEF Parse, faulty
<1>4. CallFault(faulty[1]).is # "turn"
  BY DEF CallFault, Escape, Failure
<1>5. /\ CountersValid(body.usage)
      /\ \/ Parse(body) = Turn(decoded, "none", body.usage, body.model)
         \/ Parse(body) = Turn(<<>>, StructuredOutput(body.texts), body.usage, body.model)
  <2> HIDE DEF body, decoded
  <2>1. Parse(body).is = "turn"
    BY <1>1
  <2>2. CASE ~ body.listed
    BY <2>1, <2>2, <1>2, <1>3 DEF Failure
  <2>3. CASE body.listed /\ faulty # <<>>
    BY <2>1, <2>3, <1>2, <1>3, <1>4
  <2>4. CASE body.listed /\ faulty = <<>> /\ ~ CountersValid(body.usage)
    BY <2>1, <2>4, <1>2, <1>3 DEF Escape
  <2>5. CASE body.listed /\ faulty = <<>> /\ CountersValid(body.usage)
    BY <2>1, <2>5, <1>2, <1>3 DEF Failure
  <2> QED
    BY <1>2, <2>2, <2>3, <2>4, <2>5
<1>6. decoded \in Seq(ToolCalls)
  <2>1. DOMAIN body.calls = 1..Len(body.calls) /\ Len(body.calls) \in Nat
    BY <1>2
  <2>2. \A i \in DOMAIN body.calls : body.calls[i].call \in ToolCalls
    BY <1>1 DEF ToolCalls
  <2> QED
    BY <2>1, <2>2, SeqDef
<1>7. body.usage \in [input : Nat, cached : Nat, output : Nat]
  BY <1>2, <1>5 DEF CountersValid
<1>8. <<>> \in Seq(ToolCalls)
  BY EmptySeq
<1> HIDE DEF body, decoded
<1>9. ASSUME NEW calls \in Seq(ToolCalls), NEW output,
             Parse(body) = Turn(calls, output, body.usage, body.model)
      PROVE  Parse(body).calls \in Seq(ToolCalls) /\ Parse(body).usage = body.usage
  BY <1>9 DEF Turn
<1>10. Parse(body).calls \in Seq(ToolCalls) /\ Parse(body).usage = body.usage
  BY <1>5, <1>6, <1>8, <1>9
<1> QED
  BY <1>1, <1>7, <1>10

\* A failure has one of the kinds that the router knows.
LEMMA FailuresHaveKinds ==
  ASSUME NEW key, NEW reply \in Replies, Outcome(key, reply).is = "failure"
  PROVE  Outcome(key, reply).kind \in FailureKinds
<1>1. \A kind : Failure(kind).kind = kind
  BY DEF Failure
<1>2. CASE SendsNothing(key)
  BY <1>1, <1>2 DEF Outcome, FailureKinds
<1>3. CASE ~ SendsNothing(key) /\ reply.post \notin {"body", "undecodable"}
  <2>1. Outcome(key, reply) = Failure(PostKind(reply))
    BY <1>3 DEF Outcome
  <2>2. StatusKind(reply.code) \in FailureKinds
    BY DEF StatusKind, FailureKinds
  <2>3. PostKind(reply) \in FailureKinds
    BY <1>3, <2>2, RepliesAssumption DEF RepliesAssumption, PostKind, FailureKinds
  <2> QED
    BY <1>1, <2>1, <2>3
<1>4. CASE ~ SendsNothing(key) /\ reply.post = "body"
  <2> DEFINE body == reply.body
  <2>1. Outcome(key, reply) = Parse(body) /\ body.listed \in BOOLEAN
    BY <1>4, RepliesAssumption DEF Outcome, RepliesAssumption
  <2>2. \A calls, output, usage, model : Turn(calls, output, usage, model).is # "failure"
    BY DEF Turn
  <2>3. Parse(body) = Failure("schema")
    BY <2>1, <2>2 DEF Parse, CallFault, Escape
  <2> QED
    BY <1>1, <2>1, <2>3 DEF FailureKinds
<1>5. CASE ~ SendsNothing(key) /\ reply.post = "undecodable"
  BY <1>5 DEF Outcome, Escape
<1> QED
  BY <1>2, <1>3, <1>4, <1>5

-----------------------------------------------------------------------------
(* The route of a call *)

LEMMA CandidatesAreNumbered ==
  /\ Candidates = 1..Len(MaxAttempts)
  /\ Len(MaxAttempts) \in Nat \ {0}
  /\ \A c \in Candidates : MaxAttempts[c] \in 1..3
  /\ MaxTotal \in 1..8
BY RoutingAssumption DEF RoutingAssumption, Candidates

\* One more attempt counts for its candidate and for no other.
LEMMA CountOfAttempts ==
  ASSUME NEW a \in Seq(Attempts), NEW new \in Attempts
  PROVE  /\ IsFiniteSet(Of(a, new.candidate))
         /\ Cardinality(Of(Append(a, new), new.candidate))
              = Cardinality(Of(a, new.candidate)) + 1
         /\ \A c \in Candidates \ {new.candidate} : Of(Append(a, new), c) = Of(a, c)
<1> DEFINE n == Len(a)  b == Append(a, new)
<1>1. /\ n \in Nat /\ DOMAIN a = 1..n
      /\ DOMAIN b = 1..(n + 1)
      /\ b[n + 1] = new
      /\ \A i \in 1..n : b[i] = a[i]
  OBVIOUS
<1> HIDE DEF n, b
<1>2. Of(b, new.candidate) = Of(a, new.candidate) \union {n + 1}
  BY <1>1 DEF Of
<1>3. n + 1 \notin Of(a, new.candidate)
  BY <1>1 DEF Of
<1>4. IsFiniteSet(1..n)
  BY <1>1, FS_Interval
<1>5. IsFiniteSet(Of(a, new.candidate))
  BY <1>1, <1>4, FS_Subset DEF Of
<1>6. \A c \in Candidates \ {new.candidate} : Of(b, c) = Of(a, c)
  BY <1>1 DEF Of
<1> QED
  BY <1>2, <1>3, <1>5, <1>6, FS_AddElement DEF b

\* What a route looks like when the attempt under way has ended.
LEMMA EndedRoute ==
  ASSUME NEW r, DOMAIN r = DOMAIN NewRoute, Orderly(r.attempts), UnderWay(r),
         NEW outcome \in FailureKinds \union {"success"}
  PROVE  LET a == Ended(r, outcome).attempts IN
         /\ Orderly(a)
         /\ Len(a) = r.total
         /\ a[Len(a)] = [candidate |-> r.candidate, outcome |-> outcome]
         /\ \A i \in 1..Len(a) : a[i].candidate <= r.candidate
         /\ Cardinality(Of(a, r.candidate)) = r.local + 1
         /\ \A c \in Candidates : c > r.candidate => Cardinality(Of(a, c)) = 0
<1> DEFINE a == r.attempts
           n == Len(a)
           new == [candidate |-> r.candidate, outcome |-> outcome]
           b == Append(a, new)
<1>1. Ended(r, outcome).attempts = b
  BY DEF Ended, NewRoute
<1>2. /\ a \in Seq(Attempts)
      /\ r.candidate \in Candidates /\ r.local \in Nat /\ r.total \in 1..MaxTotal
      /\ n + 1 = r.total
      /\ r.local = Cardinality(Of(a, r.candidate))
      /\ r.local < MaxAttempts[r.candidate]
      /\ \A i \in 1..n : a[i].candidate <= r.candidate
      /\ a = <<>> => r.candidate = 1
      /\ a # <<>> =>
           \/ r.candidate = a[n].candidate /\ a[n].outcome \in Retryable
           \/ r.candidate = a[n].candidate + 1 /\ UsedUp(a, n)
  BY DEF UnderWay, Orderly
<1>3. new \in Attempts /\ new.candidate = r.candidate /\ new.outcome = outcome
  BY <1>2 DEF Attempts
<1>4. /\ n \in Nat /\ DOMAIN a = 1..n
      /\ b \in Seq(Attempts)
      /\ Len(b) = n + 1
      /\ b[n + 1] = new
      /\ \A i \in 1..n : b[i] = a[i]
      /\ \A i \in 1..n : a[i].candidate \in Candidates
      /\ n = 0 <=> a = <<>>
  <2>1. n \in Nat /\ DOMAIN a = 1..n /\ (n = 0 <=> a = <<>>)
    BY <1>2
  <2>2. b \in Seq(Attempts) /\ Len(b) = n + 1 /\ b[n + 1] = new /\ \A i \in 1..n : b[i] = a[i]
    BY <1>2, <1>3
  <2>3. \A i \in 1..n : a[i] \in Attempts
    BY <1>2, ElementOfSeq
  <2> QED
    BY <2>1, <2>2, <2>3 DEF Attempts
<1>5. /\ Cardinality(Of(b, r.candidate)) = r.local + 1
      /\ \A c \in Candidates \ {r.candidate} : Of(b, c) = Of(a, c)
  BY <1>2, <1>3, CountOfAttempts
<1>6. /\ Len(a) <= MaxTotal
      /\ \A c \in Candidates : Cardinality(Of(a, c)) <= MaxAttempts[c]
      /\ a # <<>> => a[1].candidate = 1
      /\ \A i, j \in 1..n : i <= j => a[i].candidate <= a[j].candidate
      /\ \A i \in 1..(n - 1) :
           \/ a[i + 1].candidate = a[i].candidate /\ a[i].outcome \in Retryable
           \/ a[i + 1].candidate = a[i].candidate + 1 /\ UsedUp(a, i)
  BY DEF Orderly
<1> HIDE DEF a, n, new, b
<1>7. \A i \in 1..Len(b) : b[i].candidate <= r.candidate
  BY <1>2, <1>3, <1>4, CandidatesAreNumbered
<1>8. ASSUME NEW c \in Candidates, c > r.candidate PROVE Cardinality(Of(b, c)) = 0
  <2>1. Of(a, c) = {}
    BY <1>2, <1>4, <1>8, CandidatesAreNumbered DEF Of
  <2>2. c # r.candidate
    BY <1>2, <1>8, CandidatesAreNumbered
  <2> QED
    BY <1>5, <2>1, <2>2, FS_EmptySet
\* A candidate that was left before is not touched.
<1>9. ASSUME NEW i \in 1..n, UsedUp(a, i), a[i].candidate + 1 <= r.candidate
      PROVE  UsedUp(b, i)
  <2>1. b[i] = a[i] /\ a[i].candidate \in Candidates \ {r.candidate}
    BY <1>2, <1>4, <1>9, CandidatesAreNumbered
  <2> QED
    BY <1>5, <1>9, <2>1 DEF UsedUp
<1>10. Orderly(b)
  <2>1. Len(b) <= MaxTotal
    BY <1>2, <1>4, CandidatesAreNumbered
  <2>2. ASSUME NEW c \in Candidates PROVE Cardinality(Of(b, c)) <= MaxAttempts[c]
    BY <1>2, <1>5, <1>6, CandidatesAreNumbered
  <2>3. b[1].candidate = 1
    BY <1>2, <1>3, <1>4, <1>6
  <2>4. ASSUME NEW i \in 1..Len(b), NEW j \in 1..Len(b), i <= j
        PROVE  b[i].candidate <= b[j].candidate
    <3>1. CASE j \in 1..n
      <4>1. i \in 1..n /\ b[i] = a[i] /\ b[j] = a[j]
        BY <1>4, <2>4, <3>1
      <4> QED
        BY <1>6, <2>4, <3>1, <4>1
    <3>2. CASE j = n + 1
      BY <1>3, <1>4, <1>7, <3>2
    <3> QED
      BY <1>4, <3>1, <3>2
  <2>5. ASSUME NEW i \in 1..(Len(b) - 1)
        PROVE  \/ b[i + 1].candidate = b[i].candidate /\ b[i].outcome \in Retryable
               \/ b[i + 1].candidate = b[i].candidate + 1 /\ UsedUp(b, i)
    <3>1. i \in 1..n /\ b[i] = a[i]
      BY <1>4
    <3>2. CASE i \in 1..(n - 1)
      <4>1. i + 1 \in 1..n /\ b[i + 1] = a[i + 1] /\ a[i + 1].candidate <= r.candidate
        BY <1>2, <1>4, <3>2
      <4> QED
        BY <1>6, <1>9, <3>1, <3>2, <4>1
    <3>3. CASE i = n
      <4>1. b[i + 1] = new /\ a # <<>>
        BY <1>4, <3>1, <3>3
      <4>2. a[n].candidate \in Candidates
        BY <1>4, <3>1, <3>3
      <4> QED
        BY <1>2, <1>3, <1>9, <3>1, <3>3, <4>1, <4>2, CandidatesAreNumbered
    <3> QED
      BY <1>4, <3>1, <3>2, <3>3
  <2> QED
    BY <1>4, <2>1, <2>2, <2>3, <2>4, <2>5 DEF Orderly
<1> QED
  BY <1>1, <1>2, <1>4, <1>5, <1>7, <1>8, <1>10 DEF new

\* The router starts with the first candidate.
LEMMA NewRouteUnderWay == Orderly(NewRoute.attempts) /\ UnderWay(NewRoute)
<1>1. /\ NewRoute.candidate = 1 /\ NewRoute.local = 0 /\ NewRoute.total = 1
      /\ NewRoute.attempts = <<>>
  BY DEF NewRoute
<1>2. \A c : Of(<<>>, c) = {}
  BY DEF Of
<1>3. <<>> \in Seq(Attempts) /\ Len(<<>>) = 0
  BY EmptySeq
<1>4. \A c : Cardinality(Of(<<>>, c)) = 0
  BY <1>2, FS_EmptySet
<1>5. 1 \in Candidates /\ \A c \in Candidates : 0 < MaxAttempts[c]
  BY CandidatesAreNumbered
<1>6. Orderly(<<>>)
  BY <1>3, <1>4, <1>5, CandidatesAreNumbered DEF Orderly
<1>7. UnderWay(NewRoute)
  <2>1. NewRoute.total \in 1..MaxTotal /\ Len(NewRoute.attempts) + 1 = NewRoute.total
    BY <1>1, <1>3, CandidatesAreNumbered
  <2> HIDE DEF NewRoute
  <2> QED
    BY <1>1, <1>3, <1>4, <1>5, <2>1 DEF UnderWay
<1> QED
  BY <1>1, <1>6, <1>7

\* A retry is the next attempt of the same candidate.
LEMMA RetryUnderWay ==
  ASSUME NEW r, DOMAIN r = DOMAIN NewRoute, Orderly(r.attempts), UnderWay(r),
         NEW kind \in FailureKinds, MayRetry(r, kind)
  PROVE  LET s == RetryOf(Ended(r, kind)) IN
         DOMAIN s = DOMAIN NewRoute /\ Orderly(s.attempts) /\ UnderWay(s)
<1> DEFINE e == Ended(r, kind)  s == RetryOf(e)  a == e.attempts
<1>1. /\ DOMAIN e = DOMAIN NewRoute /\ e.candidate = r.candidate
      /\ e.local = r.local /\ e.total = r.total
  BY DEF Ended, NewRoute
<1>2. /\ Orderly(a) /\ Len(a) = r.total
      /\ a[Len(a)] = [candidate |-> r.candidate, outcome |-> kind]
      /\ \A i \in 1..Len(a) : a[i].candidate <= r.candidate
      /\ Cardinality(Of(a, r.candidate)) = r.local + 1
  BY EndedRoute
<1>3. /\ r.candidate \in Candidates /\ r.local \in Nat /\ r.total \in 1..MaxTotal
      /\ kind \in Retryable /\ r.local + 1 < MaxAttempts[r.candidate] /\ r.total < MaxTotal
  BY DEF UnderWay, MayRetry
<1> HIDE DEF e, a
<1>4. /\ DOMAIN s = DOMAIN NewRoute
      /\ s.candidate = r.candidate /\ s.local = r.local + 1 /\ s.total = r.total + 1
      /\ s.attempts = a
  BY <1>1 DEF RetryOf, NewRoute, a
<1>5. a # <<>> /\ a[Len(a)].candidate = r.candidate /\ a[Len(a)].outcome \in Retryable
  BY <1>2, <1>3, CandidatesAreNumbered
<1> HIDE DEF s
<1> QED
  BY <1>2, <1>3, <1>4, <1>5, CandidatesAreNumbered DEF UnderWay, s, e

\* A fallback is the first attempt of the next candidate; the one before it is
\* used up, since there was an attempt left for it.
LEMMA FallbackUnderWay ==
  ASSUME NEW r, DOMAIN r = DOMAIN NewRoute, Orderly(r.attempts), UnderWay(r),
         NEW kind \in FailureKinds, ~ MayRetry(r, kind), MayFallBack(r)
  PROVE  LET s == FallbackOf(Ended(r, kind)) IN
         DOMAIN s = DOMAIN NewRoute /\ Orderly(s.attempts) /\ UnderWay(s)
<1> DEFINE e == Ended(r, kind)  s == FallbackOf(e)  a == e.attempts
<1>1. /\ DOMAIN e = DOMAIN NewRoute /\ e.candidate = r.candidate
      /\ e.local = r.local /\ e.total = r.total
  BY DEF Ended, NewRoute
<1>2. /\ Orderly(a) /\ Len(a) = r.total
      /\ a[Len(a)] = [candidate |-> r.candidate, outcome |-> kind]
      /\ \A i \in 1..Len(a) : a[i].candidate <= r.candidate
      /\ Cardinality(Of(a, r.candidate)) = r.local + 1
      /\ \A c \in Candidates : c > r.candidate => Cardinality(Of(a, c)) = 0
  BY EndedRoute
<1>3. /\ r.candidate \in Candidates /\ r.local \in Nat /\ r.total \in 1..MaxTotal
      /\ r.local < MaxAttempts[r.candidate]
      /\ r.candidate < Len(MaxAttempts) /\ r.total < MaxTotal
      /\ kind \notin Retryable \/ r.local + 1 >= MaxAttempts[r.candidate]
  BY CandidatesAreNumbered DEF UnderWay, MayRetry, MayFallBack
<1> HIDE DEF e, a
<1>4. /\ DOMAIN s = DOMAIN NewRoute
      /\ s.candidate = r.candidate + 1 /\ s.local = 0 /\ s.total = r.total + 1
      /\ s.attempts = a
  BY <1>1 DEF FallbackOf, NewRoute, a
<1>5. a # <<>> /\ a[Len(a)].candidate = r.candidate /\ a[Len(a)].outcome = kind
  BY <1>2, <1>3, CandidatesAreNumbered
<1>6. UsedUp(a, Len(a))
  BY <1>2, <1>3, <1>5, CandidatesAreNumbered DEF UsedUp
<1>7. /\ r.candidate + 1 \in Candidates
      /\ Cardinality(Of(a, r.candidate + 1)) = 0
      /\ 0 < MaxAttempts[r.candidate + 1]
      /\ \A i \in 1..Len(a) : a[i].candidate <= r.candidate + 1
  <2>1. r.candidate + 1 \in Candidates /\ r.candidate + 1 > r.candidate
    BY <1>3, CandidatesAreNumbered
  <2>2. \A i \in 1..Len(a) : a[i].candidate \in Candidates
    <3>1. a \in Seq(Attempts)
      BY <1>2 DEF Orderly
    <3>2. \A i \in 1..Len(a) : a[i] \in Attempts
      BY <3>1, ElementOfSeq
    <3> QED
      BY <3>2 DEF Attempts
  <2>3. \A i \in 1..Len(a) : a[i].candidate <= r.candidate + 1
    BY <1>2, <1>3, <2>2, CandidatesAreNumbered
  <2>4. 0 < MaxAttempts[r.candidate + 1]
    BY <2>1, CandidatesAreNumbered
  <2> QED
    BY <1>2, <2>1, <2>3, <2>4
<1> HIDE DEF s
<1>8. UnderWay(s)
  <2>1. s.total \in 1..MaxTotal /\ Len(a) + 1 = s.total
    BY <1>2, <1>3, <1>4, CandidatesAreNumbered
  <2>2. s.candidate = a[Len(a)].candidate + 1 /\ UsedUp(a, Len(a))
    BY <1>4, <1>5, <1>6
  <2> QED
    BY <1>4, <1>5, <1>7, <2>1, <2>2 DEF UnderWay
<1> QED
  BY <1>2, <1>4, <1>8 DEF s, e

\* A call is given up only when nothing is left.
LEMMA NothingLeft ==
  ASSUME NEW r, DOMAIN r = DOMAIN NewRoute, Orderly(r.attempts), UnderWay(r),
         NEW kind \in FailureKinds, ~ MayRetry(r, kind), ~ MayFallBack(r)
  PROVE  Exhausted(Ended(r, kind).attempts)
<1> DEFINE a == Ended(r, kind).attempts
<1>1. /\ Len(a) = r.total
      /\ a[Len(a)] = [candidate |-> r.candidate, outcome |-> kind]
      /\ Cardinality(Of(a, r.candidate)) = r.local + 1
  BY EndedRoute
<1>2. /\ r.candidate \in Candidates /\ r.local \in Nat /\ r.total \in 1..MaxTotal
      /\ r.local < MaxAttempts[r.candidate]
      /\ r.candidate >= Len(MaxAttempts) \/ r.total >= MaxTotal
      /\ kind \notin Retryable \/ r.local + 1 >= MaxAttempts[r.candidate] \/ r.total >= MaxTotal
  <2>1. /\ r.candidate \in Candidates /\ r.local \in Nat /\ r.total \in 1..MaxTotal
        /\ r.local < MaxAttempts[r.candidate]
    BY DEF UnderWay
  <2>2. /\ MaxAttempts[r.candidate] \in Nat /\ Len(MaxAttempts) \in Nat /\ MaxTotal \in Nat
        /\ r.candidate \in Nat
    BY <2>1, CandidatesAreNumbered
  <2>3. r.candidate >= Len(MaxAttempts) \/ r.total >= MaxTotal
    <3>1. ~ (r.candidate < Len(MaxAttempts) /\ r.total < MaxTotal)
      BY DEF MayFallBack
    <3> QED
      BY <2>1, <2>2, <3>1
  <2>4. kind \notin Retryable \/ r.local + 1 >= MaxAttempts[r.candidate] \/ r.total >= MaxTotal
    <3>1. ~ (kind \in Retryable /\ r.local + 1 < MaxAttempts[r.candidate] /\ r.total < MaxTotal)
      BY DEF MayRetry
    <3> QED
      BY <2>1, <2>2, <3>1
  <2> QED
    BY <2>1, <2>3, <2>4
<1> HIDE DEF a
<1>3. a # <<>> /\ a[Len(a)].candidate = r.candidate /\ a[Len(a)].outcome = kind
  BY <1>1, <1>2, CandidatesAreNumbered
<1>4. CASE r.total >= MaxTotal
  BY <1>1, <1>2, <1>3, <1>4, CandidatesAreNumbered DEF Exhausted, a
<1>5. CASE r.total < MaxTotal
  <2>1. r.candidate = Len(MaxAttempts) /\ UsedUp(a, Len(a))
    BY <1>1, <1>2, <1>3, <1>5, CandidatesAreNumbered DEF UsedUp
  <2> QED
    BY <1>3, <2>1 DEF Exhausted, Last, a
<1> QED
  BY <1>2, <1>4, <1>5, CandidatesAreNumbered

-----------------------------------------------------------------------------
(* The loop of an execution *)

ExecInv(e) == LoopInv(e) /\ RouteInv(e)

\* What an execution knows between two awaits, wherever it is in the loop.
Known(e) ==
  /\ DOMAIN e = DOMAIN NewExecution
  /\ e.pending \in Seq(ToolCalls)
  /\ e.called \in 0..MaxToolCalls
  /\ e.context \in Nat
  /\ e.context + Len(e.pending) = e.called
  /\ e.error = "none"
  /\ DOMAIN e.route = DOMAIN NewRoute
  /\ Orderly(e.route.attempts)

\* A failed execution reports nothing; any other what it knew.
Reports(e, mark, scopes) ==
  \/ e.mark = mark /\ e.scopes = scopes
  \/ e.mark = 0 /\ e.scopes = {}

LEMMA FailsInv ==
  ASSUME NEW error, error # "candidates_failed"
  PROVE  ExecInv(Fails(error)) /\ Fails(error).mark = 0 /\ Fails(error).scopes = {}
<1>1. /\ DOMAIN Fails(error) = DOMAIN NewExecution
      /\ Fails(error).at = "failed" /\ Fails(error).error = error
      /\ Fails(error).pending = <<>> /\ Fails(error).called = 0 /\ Fails(error).context = 0
      /\ Fails(error).route = NewRoute
      /\ Fails(error).mark = 0 /\ Fails(error).scopes = {}
  BY DEF Fails, NewExecution
<1>2. 0 \in 0..MaxToolCalls
  BY AgentAssumption DEF AgentAssumption
<1>3. LoopInv(Fails(error))
  BY <1>1, <1>2, EmptySeq DEF LoopInv, Places
<1>4. RouteInv(Fails(error))
  BY <1>1, NewRouteUnderWay DEF RouteInv
<1> QED
  BY <1>1, <1>3, <1>4 DEF ExecInv

LEMMA NextStepInv ==
  ASSUME NEW e, Known(e), e.pending = <<>>
  PROVE  ExecInv(NextStep(e)) /\ Reports(NextStep(e), e.mark, e.scopes)
<1>1. CASE e.step < MaxSteps
  <2> DEFINE f == NextStep(e)
  <2>1. f = [e EXCEPT !.at = "model", !.step = @ + 1, !.route = NewRoute]
    BY <1>1 DEF NextStep
  <2>2. /\ DOMAIN f = DOMAIN e
        /\ f.at = "model" /\ f.route = NewRoute
        /\ f.pending = e.pending /\ f.called = e.called /\ f.context = e.context
        /\ f.error = e.error /\ f.mark = e.mark /\ f.scopes = e.scopes
    BY <2>1 DEF Known, NewExecution
  <2> HIDE DEF f
  <2>3. LoopInv(f)
    BY <2>2 DEF LoopInv, Known, Places
  <2>4. RouteInv(f)
    BY <2>2, NewRouteUnderWay DEF RouteInv, Known
  <2> QED
    BY <2>2, <2>3, <2>4 DEF ExecInv, Reports, f
<1>2. CASE ~ (e.step < MaxSteps)
  BY <1>2, FailsInv DEF NextStep, Reports
<1> QED
  BY <1>1, <1>2

LEMMA NextCallInv ==
  ASSUME NEW e, Known(e)
  PROVE  ExecInv(NextCall(e)) /\ Reports(NextCall(e), e.mark, e.scopes)
<1>1. CASE e.pending = <<>>
  BY <1>1, NextStepInv DEF NextCall
<1>2. CASE e.pending # <<>> /\ Refused(Head(e.pending))
  BY <1>2, FailsInv DEF NextCall, Reports
<1>3. CASE e.pending # <<>> /\ ~ Refused(Head(e.pending))
  <2> DEFINE f == NextCall(e)
  <2>1. f = [e EXCEPT !.at = "tool"]
    BY <1>3 DEF NextCall
  <2>2. /\ DOMAIN f = DOMAIN e
        /\ f.at = "tool" /\ f.route = e.route
        /\ f.pending = e.pending /\ f.called = e.called /\ f.context = e.context
        /\ f.error = e.error /\ f.mark = e.mark /\ f.scopes = e.scopes
    BY <2>1 DEF Known, NewExecution
  <2> HIDE DEF f
  <2>3. LoopInv(f)
    BY <1>3, <2>2 DEF LoopInv, Known, Places
  <2>4. RouteInv(f)
    BY <2>2 DEF RouteInv, Known
  <2> QED
    BY <2>2, <2>3, <2>4 DEF ExecInv, Reports, f
<1> QED
  BY <1>1, <1>2, <1>3

LEMMA RequestInv ==
  ASSUME NEW e, Known(e), e.pending = <<>>, NEW calls \in Seq(ToolCalls)
  PROVE  ExecInv(Request(e, calls)) /\ Reports(Request(e, calls), e.mark, e.scopes)
<1>1. CASE e.called + Len(calls) > MaxToolCalls
  BY <1>1, FailsInv DEF Request, Reports
<1>2. CASE ~ (e.called + Len(calls) > MaxToolCalls)
  <2> DEFINE f == [e EXCEPT !.called = @ + Len(calls), !.pending = calls]
  <2>1. /\ DOMAIN f = DOMAIN e
        /\ f.pending = calls /\ f.called = e.called + Len(calls)
        /\ f.context = e.context /\ f.route = e.route
        /\ f.error = e.error /\ f.mark = e.mark /\ f.scopes = e.scopes
    BY DEF Known, NewExecution
  <2>2. Request(e, calls) = NextCall(f)
    BY <1>2 DEF Request
  <2> HIDE DEF f
  <2>3. MaxToolCalls \in Nat /\ Len(calls) \in Nat /\ Len(e.pending) = 0
    BY AgentAssumption, EmptySeq DEF AgentAssumption
  <2>4. Known(f)
    BY <1>2, <2>1, <2>3 DEF Known
  <2> QED
    BY <2>1, <2>2, <2>4, NextCallInv
<1> QED
  BY <1>1, <1>2

LEMMA ReceiveInv ==
  ASSUME NEW e, ExecInv(e), e.at = "model",
         NEW turn, turn.calls \in Seq(ToolCalls),
         NEW cost, NEW decision, NEW length
  PROVE  LET f == Receive(e, turn, cost, decision, length) IN
         ExecInv(f) /\ Reports(f, length, e.scopes \union decision)
<1> DEFINE known == [e EXCEPT !.usage = @ + cost, !.scopes = @ \union decision, !.mark = length,
                              !.route = Ended(@, "success")]
           f == Receive(e, turn, cost, decision, length)
<1>1. /\ DOMAIN known = DOMAIN e
      /\ known.pending = e.pending /\ known.called = e.called
      /\ known.context = e.context /\ known.route = Ended(e.route, "success")
      /\ known.error = e.error /\ known.mark = length
      /\ known.scopes = e.scopes \union decision
  BY DEF ExecInv, LoopInv, NewExecution
<1>2. f = IF turn.calls # <<>> THEN Request(known, turn.calls)
          ELSE IF turn.output = "valid" THEN [known EXCEPT !.at = "returned"]
          ELSE Fails("output_validation_error")
  BY DEF Receive
<1> HIDE DEF known, f
<1>3. DOMAIN known.route = DOMAIN NewRoute /\ Orderly(known.route.attempts)
  <2>1. DOMAIN Ended(e.route, "success") = DOMAIN e.route
    BY DEF Ended
  <2>2. Orderly(Ended(e.route, "success").attempts)
    BY EndedRoute DEF ExecInv, RouteInv
  <2> QED
    BY <1>1, <2>1, <2>2 DEF ExecInv, RouteInv
<1>4. Known(known) /\ known.pending = <<>>
  BY <1>1, <1>3 DEF Known, ExecInv, LoopInv
<1>5. CASE turn.calls # <<>>
  BY <1>1, <1>2, <1>4, <1>5, RequestInv DEF f
<1>6. CASE turn.calls = <<>> /\ turn.output = "valid"
  <2>1. f = [known EXCEPT !.at = "returned"]
    BY <1>2, <1>6
  <2>2. /\ DOMAIN f = DOMAIN known
        /\ f.at = "returned" /\ f.route = known.route
        /\ f.pending = known.pending /\ f.called = known.called /\ f.context = known.context
        /\ f.error = known.error /\ f.mark = known.mark /\ f.scopes = known.scopes
    BY <1>4, <2>1 DEF Known, NewExecution
  <2>3. LoopInv(f)
    BY <1>4, <2>2 DEF LoopInv, Known, Places
  <2>4. RouteInv(f)
    BY <1>4, <2>2 DEF RouteInv, Known
  <2> QED
    BY <1>1, <2>2, <2>3, <2>4 DEF ExecInv, Reports, f
<1>7. CASE turn.calls = <<>> /\ turn.output # "valid"
  BY <1>2, <1>7, FailsInv DEF Reports, f
<1> QED
  BY <1>5, <1>6, <1>7

LEMMA TryAgainInv ==
  ASSUME NEW e, ExecInv(e), e.at = "model", NEW kind \in FailureKinds
  PROVE  ExecInv(TryAgain(e, kind)) /\ Reports(TryAgain(e, kind), e.mark, e.scopes)
<1> DEFINE r == e.route  ended == Ended(e.route, kind)  f == TryAgain(e, kind)
<1>1. DOMAIN r = DOMAIN NewRoute /\ Orderly(r.attempts) /\ UnderWay(r)
  BY DEF ExecInv, RouteInv
<1>2. f = IF MayRetry(r, kind) THEN [e EXCEPT !.route = RetryOf(ended)]
          ELSE IF MayFallBack(r) THEN [e EXCEPT !.route = FallbackOf(ended)]
          ELSE [Fails("candidates_failed") EXCEPT !.route = ended]
  BY DEF TryAgain
<1> HIDE DEF r, ended, f
<1>3. ASSUME NEW s, f = [e EXCEPT !.route = s],
             DOMAIN s = DOMAIN NewRoute /\ Orderly(s.attempts) /\ UnderWay(s)
      PROVE  ExecInv(f) /\ Reports(f, e.mark, e.scopes)
  <2>1. /\ DOMAIN f = DOMAIN e
        /\ f.at = e.at /\ f.route = s
        /\ f.pending = e.pending /\ f.called = e.called /\ f.context = e.context
        /\ f.error = e.error /\ f.mark = e.mark /\ f.scopes = e.scopes
    BY <1>3 DEF ExecInv, LoopInv, NewExecution
  <2>2. LoopInv(f)
    BY <2>1 DEF ExecInv, LoopInv
  <2>3. RouteInv(f)
    BY <1>3, <2>1 DEF ExecInv, LoopInv, RouteInv
  <2> QED
    BY <2>1, <2>2, <2>3 DEF ExecInv, Reports
<1>4. CASE MayRetry(r, kind)
  BY <1>1, <1>2, <1>3, <1>4, RetryUnderWay DEF f, ended, r
<1>5. CASE ~ MayRetry(r, kind) /\ MayFallBack(r)
  BY <1>1, <1>2, <1>3, <1>5, FallbackUnderWay DEF f, ended, r
<1>6. CASE ~ MayRetry(r, kind) /\ ~ MayFallBack(r)
  <2>1. f = [Fails("candidates_failed") EXCEPT !.route = ended]
    BY <1>2, <1>6
  <2>2. /\ DOMAIN f = DOMAIN NewExecution
        /\ f.at = "failed" /\ f.route = ended
        /\ f.pending = <<>> /\ f.called = 0 /\ f.context = 0
        /\ f.error = "candidates_failed" /\ f.mark = 0 /\ f.scopes = {}
    BY <2>1 DEF Fails, NewExecution
  <2>3. DOMAIN ended = DOMAIN NewRoute /\ Orderly(ended.attempts) /\ Exhausted(ended.attempts)
    <3>1. DOMAIN ended = DOMAIN r
      BY DEF ended, Ended, r
    <3> QED
      BY <1>1, <1>6, <3>1, EndedRoute, NothingLeft DEF ended, r
  <2>4. LoopInv(f)
    <3>1. <<>> \in Seq(ToolCalls) /\ Len(<<>>) = 0 /\ 0 \in 0..MaxToolCalls
      BY EmptySeq, AgentAssumption DEF AgentAssumption
    <3> QED
      BY <2>2, <3>1 DEF LoopInv, Places
  <2>5. RouteInv(f)
    BY <2>2, <2>3 DEF RouteInv
  <2> QED
    BY <2>2, <2>4, <2>5 DEF ExecInv, Reports, f
<1> QED
  BY <1>4, <1>5, <1>6

-----------------------------------------------------------------------------
(* The ledger *)

\* A turn of an adapter costs no negative amount.
LEMMA EstimateIsNat ==
  ASSUME NEW price \in [input : Nat, cached : Nat, output : Nat],
         NEW usage \in [input : Nat, cached : Nat, output : Nat]
  PROVE  Estimate(price, usage) \in Nat
<1> DEFINE cached == IF usage.cached < usage.input THEN usage.cached ELSE usage.input
           a == (usage.input - cached) * price.input
           b == cached * price.cached
           c == usage.output * price.output
<1>1. /\ usage.input - cached \in Nat /\ cached \in Nat /\ usage.output \in Nat
      /\ price.input \in Nat /\ price.cached \in Nat /\ price.output \in Nat
  OBVIOUS
<1>2. \A m, n \in Nat : m * n \in Nat
  OBVIOUS
<1>3. a \in Nat /\ b \in Nat /\ c \in Nat
  <2> HIDE DEF cached
  <2> QED
    BY <1>1, <1>2
<1>4. Estimate(price, usage) = (a + b + c + Million - 1) \div Million
  BY DEF Estimate
<1> HIDE DEF a, b, c
<1>5. a + b + c + Million - 1 \in Nat
  BY <1>3 DEF Million
<1>6. \A n \in Nat : n \div Million \in Nat
  BY DEF Million
<1> QED
  BY <1>4, <1>5, <1>6

\* What the first n entries exceeded does not depend on later ones.
LEMMA AppendKeepsPast ==
  ASSUME NEW log \in Seq(LedgerEntries), NEW new \in LedgerEntries, NEW x,
         NEW n \in 1..Len(log)
  PROVE  ExceededAt(x, Append(log, new), n) = ExceededAt(x, log, n)
<1> DEFINE longer == Append(log, new)
<1>1. /\ longer \in Seq(LedgerEntries) /\ Len(longer) = Len(log) + 1
      /\ \A i \in 1..Len(log) : longer[i] = log[i]
      /\ \A i \in 1..Len(log) : log[i] \in LedgerEntries
  BY ElementOfSeq
<1> HIDE DEF longer
<1>2. \A i \in 1..n : longer[i] \in LedgerEntries /\ log[i] \in LedgerEntries
  BY <1>1
<1>3. /\ SubSeq(longer, 1, n) \in Seq(LedgerEntries) /\ Len(SubSeq(longer, 1, n)) = n
      /\ \A i \in 1..n : SubSeq(longer, 1, n)[i] = longer[i]
  BY <1>2, SubSeqProperties
<1>4. /\ SubSeq(log, 1, n) \in Seq(LedgerEntries) /\ Len(SubSeq(log, 1, n)) = n
      /\ \A i \in 1..n : SubSeq(log, 1, n)[i] = log[i]
  BY <1>2, SubSeqProperties
<1>5. SubSeq(longer, 1, n) = SubSeq(log, 1, n)
  BY <1>1, <1>3, <1>4, SeqEqual
<1> QED
  BY <1>1, <1>5 DEF ExceededAt, longer

LEMMA BudgetOnLongerLog ==
  ASSUME NEW log \in Seq(LedgerEntries), NEW new \in LedgerEntries, NEW x, NEW e,
         BudgetInv(x, e, log)
  PROVE  BudgetInv(x, e, Append(log, new))
<1> DEFINE longer == Append(log, new)
<1>1. Len(longer) = Len(log) + 1 /\ Len(log) \in Nat
  OBVIOUS
<1>2. \A n \in 1..Len(log) : ExceededAt(x, longer, n) = ExceededAt(x, log, n)
  BY AppendKeepsPast
<1> HIDE DEF longer
<1>3. e.mark \in 0..Len(log) /\ e.mark \in 0..Len(longer) /\ \A n \in 1..e.mark : n \in 1..Len(log)
  BY <1>1 DEF BudgetInv
<1>4. ASSUME e.mark > 0
      PROVE  /\ ExceededAt(x, longer, e.mark) = ExceededAt(x, log, e.mark)
             /\ UNION {ExceededAt(x, longer, n) : n \in 1..e.mark}
                  = UNION {ExceededAt(x, log, n) : n \in 1..e.mark}
  BY <1>2, <1>3, <1>4
<1> QED
  BY <1>3, <1>4 DEF BudgetInv, longer

\* Who learns nothing new reports what it did before, or fails.
LEMMA BudgetKept ==
  ASSUME NEW log \in Seq(LedgerEntries), NEW x, NEW e, BudgetInv(x, e, log),
         NEW f, Reports(f, e.mark, e.scopes)
  PROVE  BudgetInv(x, f, log)
BY DEF Reports, BudgetInv

\* Who receives a turn has the decision made on the entries up to its own.
LEMMA BudgetOfTurn ==
  ASSUME NEW log \in Seq(LedgerEntries), NEW new \in LedgerEntries, new.day = today,
         NEW x, NEW e, BudgetInv(x, e, log),
         NEW f, Reports(f, Len(Append(log, new)), e.scopes \union Decision(x, Append(log, new)))
  PROVE  BudgetInv(x, f, Append(log, new))
<1> DEFINE longer == Append(log, new)  n == Len(longer)
<1>1. /\ longer \in Seq(LedgerEntries) /\ n = Len(log) + 1 /\ Len(log) \in Nat
      /\ longer[n] = new
  OBVIOUS
<1>2. ExceededAt(x, longer, n) = Decision(x, longer)
  BY <1>1, SubSeqFull DEF ExceededAt, Decision
<1>3. BudgetInv(x, e, longer)
  BY BudgetOnLongerLog
<1> HIDE DEF longer, n
<1>4. CASE f.mark = 0 /\ f.scopes = {}
  BY <1>1, <1>4 DEF BudgetInv, longer, n
<1>5. CASE f.mark = n /\ f.scopes = e.scopes \union Decision(x, longer)
  <2>1. e.scopes \subseteq UNION {ExceededAt(x, longer, i) : i \in 1..n}
    <3>1. e.mark \in 0..n
      BY <1>1, <1>3 DEF BudgetInv, n
    <3>2. CASE e.mark = 0
      BY <1>3, <3>2 DEF BudgetInv
    <3>3. CASE e.mark > 0
      <4>1. \A i \in 1..e.mark : i \in 1..n
        BY <1>1, <3>1
      <4> QED
        BY <1>3, <3>3, <4>1 DEF BudgetInv
    <3> QED
      BY <1>1, <3>1, <3>2, <3>3
  <2>2. n \in 1..n /\ n > 0
    BY <1>1
  <2>3. Decision(x, longer) \subseteq UNION {ExceededAt(x, longer, i) : i \in 1..n}
    BY <1>2, <2>2
  <2> QED
    BY <1>2, <1>5, <2>1, <2>2, <2>3 DEF BudgetInv, longer, n
<1> QED
  BY <1>4, <1>5 DEF Reports, longer, n

-----------------------------------------------------------------------------
(* Steps *)

LEMMA InitInv == AgentInit => AgentInv
<1> SUFFICES ASSUME AgentInit PROVE AgentInv
  OBVIOUS
<1>1. LedgerTypeOK
  BY EmptySeq DEF AgentInit, LedgerInit, LedgerTypeOK
<1>2. ASSUME NEW x \in Executions
      PROVE  LoopInv(exec[x]) /\ RouteInv(exec[x]) /\ BudgetInv(x, exec[x], entries)
  <2> DEFINE e == exec[x]
  <2>1. /\ DOMAIN e = DOMAIN NewExecution /\ e.at = "new" /\ e.pending = <<>>
        /\ e.called = 0 /\ e.context = 0 /\ e.error = "none" /\ e.route = NewRoute
        /\ e.mark = 0 /\ e.scopes = {}
    BY DEF AgentInit, NewExecution
  <2>2. /\ <<>> \in Seq(ToolCalls) /\ Len(<<>>) = 0 /\ 0 \in 0..MaxToolCalls
    BY EmptySeq, AgentAssumption DEF AgentAssumption
  <2> HIDE DEF e
  <2>3. LoopInv(e)
    BY <2>1, <2>2 DEF LoopInv, Places
  <2>4. RouteInv(e)
    BY <2>1, NewRouteUnderWay DEF RouteInv
  <2>5. BudgetInv(x, e, entries)
    BY <1>1, <2>1 DEF BudgetInv, LedgerTypeOK
  <2> QED
    BY <2>3, <2>4, <2>5 DEF e
<1> QED
  BY <1>1, <1>2 DEF AgentInv, AgentInit

\* One execution moves, and the ledger is as it was or one entry longer.
LEMMA MoveKeepsInv ==
  ASSUME AgentInv, NEW x \in Executions, NEW f, exec' = [exec EXCEPT ![x] = f],
         ExecInv(f), BudgetInv(x, f, entries'), LedgerTypeOK',
         entries' = entries \/ \E new \in LedgerEntries : entries' = Append(entries, new)
  PROVE  AgentInv'
<1>1. DOMAIN exec' = Executions
  BY DEF AgentInv
<1>2. ASSUME NEW y \in Executions
      PROVE  LoopInv(exec'[y]) /\ RouteInv(exec'[y]) /\ BudgetInv(y, exec'[y], entries')
  <2>1. CASE y = x
    <3>1. exec'[y] = f
      BY <2>1 DEF AgentInv
    <3> QED
      BY <2>1, <3>1 DEF ExecInv
  <2>2. CASE y # x
    <3>1. exec'[y] = exec[y]
      BY <2>2 DEF AgentInv
    <3>2. LoopInv(exec[y]) /\ RouteInv(exec[y]) /\ BudgetInv(y, exec[y], entries)
      BY DEF AgentInv
    <3>3. entries \in Seq(LedgerEntries)
      BY DEF AgentInv, LedgerTypeOK
    <3>4. BudgetInv(y, exec[y], entries')
      BY <3>2, <3>3, BudgetOnLongerLog
    <3> QED
      BY <3>1, <3>2, <3>4
  <2> QED
    BY <2>1, <2>2
<1> QED
  BY <1>1, <1>2 DEF AgentInv, LoopInv, RouteInv, BudgetInv, ExceededAt

\* A step of one execution that leaves the ledger alone.
LEMMA QuietMove ==
  ASSUME AgentInv, NEW x \in Executions, NEW f, exec' = [exec EXCEPT ![x] = f],
         ExecInv(f), Reports(f, exec[x].mark, exec[x].scopes),
         entries' = entries, today' = today, sequence' \in [Gateways -> Nat]
  PROVE  AgentInv'
<1>1. LedgerTypeOK'
  BY DEF AgentInv, LedgerTypeOK
<1>2. entries \in Seq(LedgerEntries) /\ BudgetInv(x, exec[x], entries)
  BY DEF AgentInv, LedgerTypeOK
<1>3. BudgetInv(x, f, entries')
  BY <1>2, BudgetKept
<1> QED
  BY <1>1, <1>3, MoveKeepsInv

LEMMA StartKeepsInv ==
  ASSUME AgentInv, NEW x \in Executions, Start(x)
  PROVE  AgentInv'
<1>1. exec' = [exec EXCEPT ![x] = NextStep(exec[x])]
  BY DEF Start
<1>2. LoopInv(exec[x]) /\ RouteInv(exec[x]) /\ exec[x].at = "new"
  BY DEF Start, AgentInv
<1>3. Known(exec[x]) /\ exec[x].pending = <<>>
  BY <1>2 DEF LoopInv, RouteInv, Known
<1>4. entries' = entries /\ today' = today /\ sequence' \in [Gateways -> Nat]
  BY DEF Start, ledgerVars, AgentInv, LedgerTypeOK
<1> QED
  BY <1>1, <1>3, <1>4, NextStepInv, QuietMove

LEMMA ProviderFailsKeepsInv ==
  ASSUME AgentInv, NEW x \in Executions, NEW reply \in Replies, ProviderFails(x, reply)
  PROVE  AgentInv'
<1> DEFINE kind == Answers(x, reply).kind
<1>1. exec' = [exec EXCEPT ![x] = TryAgain(exec[x], kind)]
  BY DEF ProviderFails
<1>2. ExecInv(exec[x]) /\ exec[x].at = "model"
  BY DEF ProviderFails, AgentInv, ExecInv
<1>3. kind \in FailureKinds
  BY FailuresHaveKinds DEF ProviderFails, Answers
<1>4. entries' = entries /\ today' = today /\ sequence' \in [Gateways -> Nat]
  BY DEF ProviderFails, ledgerVars, AgentInv, LedgerTypeOK
<1> QED
  BY <1>1, <1>2, <1>3, <1>4, TryAgainInv, QuietMove

\* A step that fails with another error than candidates_failed.
LEMMA FailureKeepsInv ==
  ASSUME AgentInv, NEW x \in Executions, NEW error, error # "candidates_failed",
         exec' = [exec EXCEPT ![x] = Fails(error)],
         entries' = entries, today' = today, sequence' \in [Gateways -> Nat]
  PROVE  AgentInv'
<1>1. ExecInv(Fails(error)) /\ Reports(Fails(error), exec[x].mark, exec[x].scopes)
  BY FailsInv DEF Reports
<1> QED
  BY <1>1, QuietMove

\* The gateway whose answer an execution waits for.
LEMMA GatewayType ==
  ASSUME AgentInv, NEW x \in Executions, exec[x].at = "model"
  PROVE  Gateway(x) \in Gateways
<1>1. exec[x].route.candidate \in Candidates
  BY DEF AgentInv, RouteInv, UnderWay
<1> QED
  BY <1>1, AgentAssumption DEF Gateway, Gateways, AgentAssumption

LEMMA TurnNotRecordedKeepsInv ==
  ASSUME AgentInv, NEW x \in Executions, NEW reply \in Replies, TurnNotRecorded(x, reply)
  PROVE  AgentInv'
<1>1. sequence' = [sequence EXCEPT ![Gateway(x)] = @ + 1] /\ sequence \in [Gateways -> Nat]
  BY DEF TurnNotRecorded, AgentInv, LedgerTypeOK
<1>2. Gateway(x) \in Gateways
  BY GatewayType DEF TurnNotRecorded
<1>3. sequence' \in [Gateways -> Nat]
  BY <1>1, <1>2
<1> QED
  BY <1>3, FailureKeepsInv DEF TurnNotRecorded, ledgerVars

\* The entry of a turn is an entry.
LEMMA NewEntryTyped ==
  ASSUME AgentInv, NEW x \in Executions, NEW reply \in Replies, TurnRecorded(x, reply)
  PROVE  EntryOf(x, Answers(x, reply)) \in LedgerEntries
<1> DEFINE turn == Answers(x, reply)
<1>1. exec[x].at = "model" /\ turn.is = "turn" /\ Priced(turn.model)
  BY DEF TurnRecorded, Recordable
<1>2. turn.usage \in [input : Nat, cached : Nat, output : Nat]
  BY <1>1, TurnsAreDecoded DEF Answers
<1>3. Gateway(x) \in Gateways
  BY <1>1, GatewayType
<1>4. today \in Nat /\ sequence \in [Gateways -> Nat]
  BY DEF AgentInv, LedgerTypeOK
<1> HIDE DEF turn
<1>5. Price[turn.model] \in [input : Nat, cached : Nat, output : Nat]
  BY <1>1, PriceAssumption DEF PriceAssumption, Priced
<1>6. Estimate(Price[turn.model], turn.usage) \in Nat
  BY <1>2, <1>5, EstimateIsNat
<1>7. EntryId(x) \in RunIds \X AgentIds \X Nat
  BY <1>3, <1>4 DEF EntryId, RunIds, AgentIds
<1>8. RunOf[x] \in RunIds /\ AgentOf[x] \in AgentIds
  BY DEF RunIds, AgentIds
<1> QED
  BY <1>4, <1>6, <1>7, <1>8 DEF EntryOf, Entry, LedgerEntries, turn

LEMMA TurnRecordedKeepsInv ==
  ASSUME AgentInv, NEW x \in Executions, NEW reply \in Replies, TurnRecorded(x, reply)
  PROVE  AgentInv'
<1> DEFINE turn == Answers(x, reply)
           new == EntryOf(x, turn)
           log == Append(entries, new)
           f == IF Conforms(turn)
                THEN Receive(exec[x], turn, TurnCost(x, log), Decision(x, log), Len(log))
                ELSE TryAgain(exec[x], "schema")
<1>1. /\ exec[x].at = "model" /\ turn.is = "turn"
      /\ sequence' = [sequence EXCEPT ![Gateway(x)] = @ + 1]
      /\ entries' = log /\ today' = today
  BY DEF TurnRecorded, Recordable, Append1
<1>2. exec' = [exec EXCEPT ![x] = f]
  BY <1>1 DEF TurnRecorded
<1>3. turn.calls \in Seq(ToolCalls)
  BY <1>1, TurnsAreDecoded DEF Answers
<1>4. Gateway(x) \in Gateways
  BY <1>1, GatewayType
<1>5. entries \in Seq(LedgerEntries) /\ today \in Nat /\ sequence \in [Gateways -> Nat]
  BY DEF AgentInv, LedgerTypeOK
<1>6. ExecInv(exec[x]) /\ BudgetInv(x, exec[x], entries)
  BY DEF AgentInv, ExecInv
<1> HIDE DEF turn
<1>7. new \in LedgerEntries /\ new.day = today
  BY NewEntryTyped DEF turn, EntryOf, Entry
<1> HIDE DEF new
<1>8. LedgerTypeOK'
  <2>1. sequence' \in [Gateways -> Nat]
    BY <1>1, <1>4, <1>5
  <2>2. log \in Seq(LedgerEntries)
    BY <1>5, <1>7
  <2> QED
    BY <1>1, <1>5, <2>1, <2>2 DEF LedgerTypeOK
<1>9. ExecInv(f) /\ BudgetInv(x, f, log)
  <2>1. CASE Conforms(turn)
    <3>1. f = Receive(exec[x], turn, TurnCost(x, log), Decision(x, log), Len(log))
      BY <2>1
    <3> HIDE DEF f, log
    <3>2. ExecInv(f) /\ Reports(f, Len(log), exec[x].scopes \union Decision(x, log))
      BY <1>1, <1>3, <1>6, <3>1, ReceiveInv
    <3> QED
      BY <1>5, <1>6, <1>7, <3>2, BudgetOfTurn DEF log
  <2>2. CASE ~ Conforms(turn)
    <3>1. f = TryAgain(exec[x], "schema") /\ "schema" \in FailureKinds
      BY <2>2 DEF FailureKinds
    <3> HIDE DEF f, log
    <3>2. ExecInv(f) /\ Reports(f, exec[x].mark, exec[x].scopes)
      BY <1>1, <1>6, <3>1, TryAgainInv
    <3>3. BudgetInv(x, f, entries)
      BY <1>5, <1>6, <3>2, BudgetKept
    <3> QED
      BY <1>5, <1>7, <3>2, <3>3, BudgetOnLongerLog DEF log
  <2> QED
    BY <2>1, <2>2
<1> HIDE DEF f
<1> QED
  BY <1>1, <1>2, <1>7, <1>8, <1>9, MoveKeepsInv

LEMMA ToolReturnsKeepsInv ==
  ASSUME AgentInv, NEW x \in Executions, ToolReturns(x)
  PROVE  AgentInv'
<1> DEFINE e == exec[x]  f == Answered(e)
<1>1. exec' = [exec EXCEPT ![x] = NextCall(f)]
  BY DEF ToolReturns
<1>2. LoopInv(e) /\ RouteInv(e) /\ e.at = "tool"
  BY DEF ToolReturns, AgentInv
<1> HIDE DEF e
<1>3. /\ DOMAIN f = DOMAIN e
      /\ f.pending = Tail(e.pending) /\ f.context = e.context + 1
      /\ f.called = e.called /\ f.route = e.route
      /\ f.error = e.error /\ f.mark = e.mark /\ f.scopes = e.scopes
  BY <1>2 DEF LoopInv, NewExecution, Answered
<1>4. Tail(e.pending) \in Seq(ToolCalls) /\ Len(Tail(e.pending)) = Len(e.pending) - 1
      /\ Len(e.pending) \in Nat
  BY <1>2, HeadTailProperties DEF LoopInv
<1> HIDE DEF f
<1>5. Known(f)
  BY <1>2, <1>3, <1>4 DEF LoopInv, RouteInv, Known
<1>6. ExecInv(NextCall(f)) /\ Reports(NextCall(f), e.mark, e.scopes)
  BY <1>3, <1>5, NextCallInv
<1>7. entries' = entries /\ today' = today /\ sequence' \in [Gateways -> Nat]
  BY DEF ToolReturns, ledgerVars, AgentInv, LedgerTypeOK
<1> QED
  BY <1>1, <1>6, <1>7, QuietMove DEF e

\* The invariant holds of every state of the executions.
THEOREM AgentInvariance == AgentSpec => []AgentInv
<1>1. AgentInv /\ [AgentNext]_agentVars => AgentInv'
  <2> SUFFICES ASSUME AgentInv, [AgentNext]_agentVars PROVE AgentInv'
    OBVIOUS
  <2>1. CASE Midnight
    BY <2>1 DEF Midnight, AgentInv, LedgerTypeOK, LoopInv, RouteInv, BudgetInv, ExceededAt
  <2>2. ASSUME NEW x \in Executions, Start(x) PROVE AgentInv'
    BY <2>2, StartKeepsInv
  <2>3. ASSUME NEW x \in Executions, NEW reply \in Replies, ProviderFails(x, reply)
        PROVE  AgentInv'
    BY <2>3, ProviderFailsKeepsInv
  <2>4. ASSUME NEW x \in Executions, NEW reply \in Replies, AnswerEscapes(x, reply)
        PROVE  AgentInv'
    BY <2>4, FailureKeepsInv DEF AnswerEscapes, ledgerVars, AgentInv, LedgerTypeOK
  <2>5. ASSUME NEW x \in Executions, NEW reply \in Replies, TurnNotRecorded(x, reply)
        PROVE  AgentInv'
    BY <2>5, TurnNotRecordedKeepsInv
  <2>6. ASSUME NEW x \in Executions, NEW reply \in Replies, TurnRecorded(x, reply)
        PROVE  AgentInv'
    BY <2>6, TurnRecordedKeepsInv
  <2>7. ASSUME NEW x \in Executions, ToolReturns(x) PROVE AgentInv'
    BY <2>7, ToolReturnsKeepsInv
  <2>8. ASSUME NEW x \in Executions, ToolFails(x) PROVE AgentInv'
    BY <2>8, FailureKeepsInv DEF ToolFails, ledgerVars, AgentInv, LedgerTypeOK
  <2>9. ASSUME NEW x \in Executions, TimesOut(x) PROVE AgentInv'
    BY <2>9, FailureKeepsInv DEF TimesOut, ledgerVars, AgentInv, LedgerTypeOK
  <2>10. CASE UNCHANGED agentVars
    BY <2>10 DEF agentVars, ledgerVars, AgentInv, LedgerTypeOK, LoopInv, RouteInv, BudgetInv,
                 ExceededAt
  <2> QED
    BY <2>1, <2>2, <2>3, <2>4, <2>5, <2>6, <2>7, <2>8, <2>9, <2>10 DEF AgentNext, AwaitEnds
<1> QED
  BY <1>1, InitInv, PTL DEF AgentSpec

-----------------------------------------------------------------------------
(* What follows *)

\* A model is asked only when every tool call before was answered, and no more
\* calls are executed than the policy allows (BaseAgent._run_bounded).
THEOREM CallsAnsweredHolds == AgentSpec => []CallsAnswered
<1>1. AgentInv => CallsAnswered
  <2> SUFFICES ASSUME AgentInv, NEW x \in Executions
               PROVE  /\ exec[x].context + Len(exec[x].pending) = exec[x].called
                      /\ exec[x].at \in {"model", "returned"} => exec[x].pending = <<>>
                      /\ exec[x].called <= MaxToolCalls
    BY DEF CallsAnswered
  <2>1. LoopInv(exec[x])
    BY DEF AgentInv
  <2> QED
    BY <2>1, AgentAssumption DEF LoopInv, AgentAssumption
<1> QED
  BY <1>1, AgentInvariance, PTL

\* The attempts of a call are those the policy allows, in the order of the
\* candidates, and it is given up only when nothing is left to try
\* (RoutedModelGateway.generate).
THEOREM RouteFollowsPolicyHolds == AgentSpec => []RouteFollowsPolicy
<1>1. AgentInv => RouteFollowsPolicy
  <2> SUFFICES ASSUME AgentInv, NEW x \in Executions
               PROVE  LET a == exec[x].route.attempts IN
                      /\ Len(a) <= MaxTotal
                      /\ \A c \in Candidates : Cardinality(Of(a, c)) <= MaxAttempts[c]
                      /\ a # <<>> => a[1].candidate = 1
                      /\ \A i \in 1..(Len(a) - 1) :
                           \/ a[i + 1].candidate = a[i].candidate /\ a[i].outcome \in Retryable
                           \/ a[i + 1].candidate = a[i].candidate + 1 /\ UsedUp(a, i)
                      /\ exec[x].error = "candidates_failed" =>
                           \/ Len(a) = MaxTotal
                           \/ Last(a).candidate = Len(MaxAttempts) /\ UsedUp(a, Len(a))
    BY Zenon DEF RouteFollowsPolicy, Of, UsedUp
  <2>1. RouteInv(exec[x])
    BY DEF AgentInv
  <2> QED
    BY <2>1 DEF RouteInv, Orderly, Exhausted
<1> QED
  BY <1>1, AgentInvariance, PTL

\* A limit that the ledger exceeds when an agent receives a turn is reported,
\* and none is reported that it never exceeded (UsageLedger._append,
\* BaseAgent._run_bounded).
THEOREM OverrunIsReportedHolds == AgentSpec => []OverrunIsReported
<1>1. AgentInv => OverrunIsReported
  <2> SUFFICES ASSUME AgentInv, NEW x \in Executions, exec[x].mark > 0
               PROVE  /\ ExceededAt(x, entries, exec[x].mark) \subseteq exec[x].scopes
                      /\ exec[x].scopes \subseteq
                           UNION {ExceededAt(x, entries, n) : n \in 1..exec[x].mark}
    BY Zenon DEF OverrunIsReported, ExceededAt
  <2>1. BudgetInv(x, exec[x], entries)
    BY DEF AgentInv
  <2> QED
    BY <2>1 DEF BudgetInv
<1> QED
  BY <1>1, AgentInvariance, PTL

-----------------------------------------------------------------------------
(* What is reported as cost *)

\* The executions of the agent of x in its run.
Same(x) == {y \in Executions : RunOf[y] = RunOf[x] /\ AgentOf[y] = AgentOf[x]}

Paid(x) == AgentTotal(entries, RunOf[x], AgentOf[x])

UsageInv ==
  \A x \in Executions :
    /\ exec[x].usage \in Nat
    /\ SumFunctionOnSet([y \in Executions |-> exec[y].usage], Same(x)) <= Paid(x)

\* A total is a number.
LEMMA AgentTotalIsInt ==
  ASSUME NEW log \in Seq(LedgerEntries), NEW run, NEW agent
  PROVE  AgentTotal(log, run, agent) \in Int
<1> DEFINE g == [i \in DOMAIN log |-> log[i].cost]
           S == {i \in DOMAIN log : log[i].run = run /\ log[i].agent = agent}
<1>1. Len(log) \in Nat /\ DOMAIN log = 1..Len(log) /\ S \subseteq 1..Len(log)
  OBVIOUS
<1>2. IsFiniteSet(S)
  <2>1. IsFiniteSet(1..Len(log))
    BY <1>1, FS_Interval
  <2> HIDE DEF S
  <2> QED
    BY <1>1, <2>1, FS_Subset
<1>3. \A i \in S : g[i] \in Int
  <2>1. \A i \in 1..Len(log) : log[i] \in LedgerEntries
    BY ElementOfSeq
  <2> QED
    BY <1>1, <2>1 DEF LedgerEntries
<1>4. AgentTotal(log, run, agent) = SumFunctionOnSet(g, S)
  BY DEF AgentTotal, CostOf
<1> HIDE DEF g, S
<1> QED
  BY <1>2, <1>3, <1>4, SumRemove

\* The total of an agent grows by its own entries, and by no others.
LEMMA AgentTotalGrows ==
  ASSUME NEW log \in Seq(LedgerEntries), NEW new \in LedgerEntries, NEW run, NEW agent
  PROVE  /\ new.run = run /\ new.agent = agent =>
              AgentTotal(Append(log, new), run, agent) = AgentTotal(log, run, agent) + new.cost
         /\ ~ (new.run = run /\ new.agent = agent) =>
              AgentTotal(Append(log, new), run, agent) = AgentTotal(log, run, agent)
<1> DEFINE longer == Append(log, new)
           n == Len(log) + 1
           g == [i \in DOMAIN log |-> log[i].cost]
           h == [i \in DOMAIN longer |-> longer[i].cost]
           S == {i \in DOMAIN log : log[i].run = run /\ log[i].agent = agent}
           T == {i \in DOMAIN longer : longer[i].run = run /\ longer[i].agent = agent}
<1>1. /\ Len(log) \in Nat /\ DOMAIN log = 1..Len(log) /\ DOMAIN longer = 1..n
      /\ \A i \in 1..Len(log) : longer[i] = log[i] /\ log[i] \in LedgerEntries
      /\ longer[n] = new
  BY ElementOfSeq
<1> HIDE DEF longer
<1>2. /\ \A i \in S : g[i] \in Int /\ h[i] = g[i]
      /\ h[n] = new.cost /\ new.cost \in Int
  <2>1. \A i \in 1..Len(log) : i \in 1..n /\ log[i].cost \in Nat
    BY <1>1 DEF LedgerEntries
  <2>2. n \in 1..n /\ new.cost \in Nat
    BY <1>1 DEF LedgerEntries
  <2> QED
    BY <1>1, <2>1, <2>2
<1>3. /\ n \notin S
      /\ new.run = run /\ new.agent = agent => T = S \union {n}
      /\ ~ (new.run = run /\ new.agent = agent) => T = S
  <2>1. \A i : i \in 1..n <=> i \in 1..Len(log) \/ i = n
    BY <1>1
  <2>2. n \notin 1..Len(log)
    BY <1>1
  <2> QED
    BY <1>1, <2>1, <2>2
<1>4. IsFiniteSet(S)
  <2>1. S \subseteq 1..Len(log) /\ IsFiniteSet(1..Len(log))
    BY <1>1, FS_Interval
  <2> HIDE DEF S
  <2> QED
    BY <2>1, FS_Subset
<1>5. /\ AgentTotal(log, run, agent) = SumFunctionOnSet(g, S)
      /\ AgentTotal(longer, run, agent) = SumFunctionOnSet(h, T)
  BY DEF AgentTotal, CostOf
<1> HIDE DEF g, h, S, T, n
<1>6. SumFunctionOnSet(h, S) = SumFunctionOnSet(g, S) /\ SumFunctionOnSet(g, S) \in Int
  BY <1>2, <1>4, SumSame, SumRemove
<1>7. SumFunctionOnSet(h, S \union {n}) = new.cost + SumFunctionOnSet(h, S)
  <2> DEFINE U == S \union {n}
  <2>1. IsFiniteSet(U)
    BY <1>4, FS_AddElement
  <2>2. \A i \in U : h[i] \in Int
    BY <1>2
  <2>3. n \in U /\ U \ {n} = S
    BY <1>3
  <2> HIDE DEF U
  <2>4. SumFunctionOnSet(h, U) = h[n] + SumFunctionOnSet(h, U \ {n})
    BY <2>1, <2>2, <2>3, SumRemove
  <2> QED
    BY <1>2, <2>3, <2>4 DEF U
<1>8. ASSUME new.run = run, new.agent = agent
      PROVE  AgentTotal(longer, run, agent) = AgentTotal(log, run, agent) + new.cost
  <2>1. T = S \union {n}
    BY <1>3, <1>8
  <2>2. AgentTotal(longer, run, agent) = new.cost + SumFunctionOnSet(h, S)
    BY <1>5, <1>7, <2>1
  <2> QED
    BY <1>2, <1>5, <1>6, <2>2
<1>9. ASSUME ~ (new.run = run /\ new.agent = agent)
      PROVE  AgentTotal(longer, run, agent) = AgentTotal(log, run, agent)
  BY <1>3, <1>5, <1>6, <1>9
<1> QED
  BY <1>5, <1>6, <1>8, <1>9 DEF longer

\* One execution moves and reports at most what its new entry, if there is one,
\* costs more than before.
LEMMA UsageMoves ==
  ASSUME AgentInv, UsageInv, NEW x \in Executions, NEW f, exec' = [exec EXCEPT ![x] = f],
         NEW cost \in Nat, f.usage \in 0..(exec[x].usage + cost),
         \/ entries' = entries /\ cost = 0
         \/ \E new \in LedgerEntries :
              /\ entries' = Append(entries, new) /\ new.cost = cost
              /\ new.run = RunOf[x] /\ new.agent = AgentOf[x]
  PROVE  UsageInv'
<1> DEFINE g == [y \in Executions |-> exec[y].usage]
           h == [y \in Executions |-> exec'[y].usage]
<1>1. /\ \A y \in Executions : g[y] \in Nat /\ h[y] \in Nat /\ (y # x => h[y] = g[y])
      /\ h[x] <= g[x] + cost
  <2>1. DOMAIN exec = Executions /\ \A y \in Executions : exec[y].usage \in Nat
    BY DEF AgentInv, UsageInv
  <2>2. exec'[x] = f /\ \A y \in Executions : y # x => exec'[y] = exec[y]
    BY <2>1
  <2>3. f.usage \in Nat /\ f.usage <= exec[x].usage + cost
    BY <2>1
  <2> QED
    BY <2>1, <2>2, <2>3
<1>2. ASSUME NEW z \in Executions
      PROVE  SumFunctionOnSet(h, Same(z)) <= Paid(z)'
  <2> DEFINE S == Same(z)
             total == AgentTotal(entries', RunOf[z], AgentOf[z])
  <2>1. IsFiniteSet(S) /\ S \subseteq Executions
    BY AgentAssumption, FS_Subset DEF AgentAssumption, Same
  <2>2. SumFunctionOnSet(g, S) <= Paid(z)
    BY DEF UsageInv
  <2>3. entries \in Seq(LedgerEntries)
    BY DEF AgentInv, LedgerTypeOK
  <2>4. /\ Paid(z) \in Int
        /\ x \in S => total = Paid(z) + cost
        /\ x \notin S => total = Paid(z)
    <3>0. Paid(z) \in Int
      BY <2>3, AgentTotalIsInt DEF Paid
    <3>1. x \in S <=> RunOf[x] = RunOf[z] /\ AgentOf[x] = AgentOf[z]
      BY DEF Same
    <3>2. CASE entries' = entries /\ cost = 0
      BY <3>2, <3>0 DEF Paid
    <3>3. CASE \E new \in LedgerEntries :
                 /\ entries' = Append(entries, new) /\ new.cost = cost
                 /\ new.run = RunOf[x] /\ new.agent = AgentOf[x]
      <4>1. PICK new \in LedgerEntries :
                 /\ entries' = Append(entries, new) /\ new.cost = cost
                 /\ new.run = RunOf[x] /\ new.agent = AgentOf[x]
        BY <3>3
      <4> QED
        BY <2>3, <3>0, <3>1, <4>1, AgentTotalGrows DEF Paid
    <3> QED
      BY <3>2, <3>3
  <2> HIDE DEF g, h, S, total
  <2>5. SumFunctionOnSet(g, S) \in Int /\ SumFunctionOnSet(h, S) \in Int
    BY <1>1, <2>1, SumRemove
  <2>6. CASE x \in S
    <3>1. IsFiniteSet(S \ {x})
      BY <2>1, FS_Subset
    <3>2. SumFunctionOnSet(h, S \ {x}) = SumFunctionOnSet(g, S \ {x})
      BY <1>1, <2>1, <3>1, SumSame
    <3>3. SumFunctionOnSet(g, S \ {x}) \in Int
      BY <1>1, <2>1, <3>1, SumRemove
    <3>4. /\ SumFunctionOnSet(g, S) = g[x] + SumFunctionOnSet(g, S \ {x})
          /\ SumFunctionOnSet(h, S) = h[x] + SumFunctionOnSet(h, S \ {x})
      BY <1>1, <2>1, <2>6, SumRemove
    <3> QED
      BY <1>1, <2>2, <2>4, <2>6, <3>2, <3>3, <3>4 DEF S, total, Paid
  <2>7. CASE x \notin S
    <3>1. SumFunctionOnSet(h, S) = SumFunctionOnSet(g, S)
      BY <1>1, <2>1, <2>7, SumSame
    <3> QED
      BY <2>2, <2>4, <2>7, <3>1 DEF S, total, Paid
  <2> QED
    BY <2>6, <2>7
<1> QED
  BY <1>1, <1>2 DEF UsageInv, Same

\* What the operators on an execution do to its usage: it stays, it grows by
\* the cost of a turn that the agent receives, or it is lost with the failure.
Keeps(e, f) == f.usage = e.usage \/ f.usage = 0

LEMMA FailsUsage == \A error : Fails(error).usage = 0
BY DEF Fails, NewExecution

LEMMA NextStepUsage ==
  ASSUME NEW e, "usage" \in DOMAIN e
  PROVE  Keeps(e, NextStep(e))
BY FailsUsage DEF NextStep, Keeps

LEMMA NextCallUsage ==
  ASSUME NEW e, "usage" \in DOMAIN e
  PROVE  Keeps(e, NextCall(e))
<1>1. CASE e.pending = <<>>
  BY <1>1, NextStepUsage DEF NextCall
<1>2. CASE e.pending # <<>>
  BY <1>2, FailsUsage DEF NextCall, Keeps
<1> QED
  BY <1>1, <1>2

LEMMA RequestUsage ==
  ASSUME NEW e, "usage" \in DOMAIN e, NEW calls
  PROVE  Keeps(e, Request(e, calls))
<1> DEFINE f == [e EXCEPT !.called = @ + Len(calls), !.pending = calls]
<1>1. DOMAIN f = DOMAIN e /\ f.usage = e.usage
  OBVIOUS
<1>2. Request(e, calls) = IF e.called + Len(calls) > MaxToolCalls
                          THEN Fails("tool_call_limit_exceeded") ELSE NextCall(f)
  BY DEF Request
<1> HIDE DEF f
<1>3. Keeps(f, NextCall(f))
  BY <1>1, NextCallUsage
<1> QED
  BY <1>1, <1>2, <1>3, FailsUsage DEF Keeps

LEMMA ReceiveUsage ==
  ASSUME NEW e, "usage" \in DOMAIN e, NEW turn, NEW cost, NEW decision, NEW length
  PROVE  Receive(e, turn, cost, decision, length).usage \in {e.usage + cost, 0}
<1> DEFINE known == [e EXCEPT !.usage = @ + cost, !.scopes = @ \union decision, !.mark = length,
                              !.route = Ended(@, "success")]
           f == Receive(e, turn, cost, decision, length)
<1>1. DOMAIN known = DOMAIN e /\ known.usage = e.usage + cost
  OBVIOUS
<1>2. f = IF turn.calls # <<>> THEN Request(known, turn.calls)
          ELSE IF turn.output = "valid" THEN [known EXCEPT !.at = "returned"]
          ELSE Fails("output_validation_error")
  BY DEF Receive
<1> HIDE DEF known, f
<1>3. Keeps(known, Request(known, turn.calls))
  BY <1>1, RequestUsage
<1>4. [known EXCEPT !.at = "returned"].usage = known.usage
  BY <1>1
<1>5. f.usage \in {known.usage, 0}
  BY <1>2, <1>3, <1>4, FailsUsage DEF Keeps
<1> QED
  BY <1>1, <1>5 DEF f

LEMMA TryAgainUsage ==
  ASSUME NEW e, "usage" \in DOMAIN e, NEW kind
  PROVE  Keeps(e, TryAgain(e, kind))
<1>1. \A s : [e EXCEPT !.route = s].usage = e.usage
  OBVIOUS
<1>2. \A s : [Fails("candidates_failed") EXCEPT !.route = s].usage = 0
  BY DEF Fails, NewExecution
<1> QED
  BY <1>1, <1>2 DEF TryAgain, Keeps

\* A step that leaves the ledger alone.
LEMMA QuietUsage ==
  ASSUME AgentInv, UsageInv, NEW x \in Executions, NEW f, exec' = [exec EXCEPT ![x] = f],
         Keeps(exec[x], f), entries' = entries
  PROVE  UsageInv'
<1>1. exec[x].usage \in Nat
  BY DEF UsageInv
<1>2. f.usage \in 0..(exec[x].usage + 0)
  BY <1>1 DEF Keeps
<1> QED
  BY <1>2, UsageMoves

LEMMA HasUsage ==
  ASSUME AgentInv, NEW x \in Executions
  PROVE  "usage" \in DOMAIN exec[x]
BY DEF AgentInv, LoopInv, NewExecution

LEMMA TurnRecordedUsage ==
  ASSUME AgentInv, UsageInv, NEW x \in Executions, NEW reply \in Replies, TurnRecorded(x, reply)
  PROVE  UsageInv'
<1> DEFINE turn == Answers(x, reply)
           new == EntryOf(x, turn)
           log == Append(entries, new)
           f == IF Conforms(turn)
                THEN Receive(exec[x], turn, TurnCost(x, log), Decision(x, log), Len(log))
                ELSE TryAgain(exec[x], "schema")
<1>1. entries' = log /\ entries \in Seq(LedgerEntries)
  BY DEF TurnRecorded, Append1, AgentInv, LedgerTypeOK
<1>2. exec' = [exec EXCEPT ![x] = f]
  BY <1>1 DEF TurnRecorded
<1>3. new \in LedgerEntries /\ new.run = RunOf[x] /\ new.agent = AgentOf[x]
  BY NewEntryTyped DEF EntryOf, Entry
<1> HIDE DEF turn, new
<1>4. TurnCost(x, log) = new.cost /\ new.cost \in Nat
  <2>1. Len(log) = Len(entries) + 1 /\ log[Len(log)] = new
    BY <1>1, <1>3
  <2> QED
    BY <1>3, <2>1 DEF TurnCost, Last, LedgerEntries
<1>5. exec[x].usage \in Nat
  BY DEF UsageInv
<1>6. f.usage \in {exec[x].usage + new.cost, exec[x].usage, 0}
  <2> HIDE DEF log
  <2>1. Receive(exec[x], turn, new.cost, Decision(x, log), Len(log)).usage
          \in {exec[x].usage + new.cost, 0}
    BY HasUsage, ReceiveUsage
  <2>2. Keeps(exec[x], TryAgain(exec[x], "schema"))
    BY HasUsage, TryAgainUsage
  <2> QED
    BY <1>4, <2>1, <2>2 DEF Keeps
<1> HIDE DEF f
<1>7. f.usage \in 0..(exec[x].usage + new.cost)
  BY <1>4, <1>5, <1>6
<1> QED
  BY <1>1, <1>2, <1>3, <1>4, <1>7, UsageMoves DEF log

\* What executions report is covered by entries of their agent and run, whoever
\* else uses the ledger (BudgetedModelGateway.generate, BaseAgent._run_bounded).
THEOREM UsageIsPaidForHolds == AgentSpec => []UsageIsPaidFor
<1>1. AgentInit => UsageInv
  <2> SUFFICES ASSUME AgentInit PROVE UsageInv
    OBVIOUS
  <2> DEFINE g == [y \in Executions |-> exec[y].usage]
  <2>1. \A y \in Executions : exec[y].usage = 0 /\ g[y] = 0
    BY DEF AgentInit, NewExecution
  <2>2. ASSUME NEW x \in Executions
        PROVE  SumFunctionOnSet(g, Same(x)) <= Paid(x)
    <3>1. IsFiniteSet(Same(x)) /\ Same(x) \subseteq Executions
      BY AgentAssumption, FS_Subset DEF AgentAssumption, Same
    <3> HIDE DEF g
    <3>2. SumFunctionOnSet(g, Same(x)) = 0
      BY <2>1, <3>1, SumZero
    <3>3. Paid(x) = 0
      <4>1. entries = <<>>
        BY DEF AgentInit, LedgerInit
      <4>2. {i \in DOMAIN entries : entries[i].run = RunOf[x] /\ entries[i].agent = AgentOf[x]} = {}
        BY <4>1
      <4> QED
        BY <4>2, SumEmpty DEF Paid, AgentTotal, CostOf
    <3> QED
      BY <3>2, <3>3
  <2> QED
    BY <2>1, <2>2 DEF UsageInv
<1>2. AgentInv /\ UsageInv /\ [AgentNext]_agentVars => UsageInv'
  <2> SUFFICES ASSUME AgentInv, UsageInv, [AgentNext]_agentVars PROVE UsageInv'
    OBVIOUS
  <2>1. CASE Midnight
    BY <2>1 DEF Midnight, UsageInv, Paid
  <2>2. ASSUME NEW x \in Executions, Start(x) PROVE UsageInv'
    BY <2>2, HasUsage, NextStepUsage, QuietUsage DEF Start, ledgerVars
  <2>3. ASSUME NEW x \in Executions, NEW reply \in Replies, ProviderFails(x, reply)
        PROVE  UsageInv'
    BY <2>3, HasUsage, TryAgainUsage, QuietUsage DEF ProviderFails, ledgerVars
  <2>4. ASSUME NEW x \in Executions, NEW error, exec' = [exec EXCEPT ![x] = Fails(error)],
               entries' = entries
        PROVE  UsageInv'
    BY <2>4, FailsUsage, QuietUsage DEF Keeps
  <2>5. ASSUME NEW x \in Executions, NEW reply \in Replies, AnswerEscapes(x, reply)
        PROVE  UsageInv'
    BY <2>4, <2>5 DEF AnswerEscapes, ledgerVars
  <2>6. ASSUME NEW x \in Executions, NEW reply \in Replies, TurnNotRecorded(x, reply)
        PROVE  UsageInv'
    BY <2>4, <2>6 DEF TurnNotRecorded, ledgerVars
  <2>7. ASSUME NEW x \in Executions, NEW reply \in Replies, TurnRecorded(x, reply)
        PROVE  UsageInv'
    BY <2>7, TurnRecordedUsage
  <2>8. ASSUME NEW x \in Executions, ToolReturns(x) PROVE UsageInv'
    <3> DEFINE f == Answered(exec[x])
    <3>1. DOMAIN f = DOMAIN exec[x] /\ f.usage = exec[x].usage
      BY HasUsage DEF Answered
    <3> HIDE DEF f
    <3>2. Keeps(exec[x], NextCall(f))
      BY <3>1, HasUsage, NextCallUsage DEF Keeps
    <3> QED
      BY <2>8, <3>2, QuietUsage DEF ToolReturns, ledgerVars, f
  <2>9. ASSUME NEW x \in Executions, ToolFails(x) PROVE UsageInv'
    BY <2>4, <2>9 DEF ToolFails, ledgerVars
  <2>10. ASSUME NEW x \in Executions, TimesOut(x) PROVE UsageInv'
    BY <2>4, <2>10 DEF TimesOut, ledgerVars
  <2>11. CASE UNCHANGED agentVars
    BY <2>11 DEF agentVars, ledgerVars, UsageInv, Paid
  <2> QED
    BY <2>1, <2>2, <2>3, <2>5, <2>6, <2>7, <2>8, <2>9, <2>10, <2>11 DEF AgentNext, AwaitEnds
<1>3. UsageInv => UsageIsPaidFor
  BY Zenon DEF UsageInv, UsageIsPaidFor, Same, Paid
<1> QED
  BY <1>1, <1>2, <1>3, AgentInvariance, PTL DEF AgentSpec
=============================================================================
