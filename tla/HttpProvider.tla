---------------------------- MODULE HttpProvider ----------------------------
(***************************************************************************)
(* ResilientHttpProvider of tools/http_provider.py: one provider with its  *)
(* cache, circuit breaker and rate limiter, shared by concurrent callers.  *)
(* A step runs from one await to the next.  Times are what is left until   *)
(* they come, so that the clock itself need not be kept; a timer that has  *)
(* run out is served before the clock goes on.  Requests are GETs, as all  *)
(* those of the travel tools are.                                          *)
(***************************************************************************)
EXTENDS Integers

CONSTANTS
  Callers,
  Urls,          \* requests, told apart by their hash
  Bodies,        \* what an answer may say
  MaxAttempts,   \* max_attempts
  Threshold,     \* circuit_failure_threshold
  Interval,      \* 1 / requests_per_second
  Backoff,       \* backoff_base_seconds
  Recovery,      \* circuit_recovery_seconds
  CacheTtl,      \* cache_ttl_seconds, not zero
  Flight,        \* the longest that a request is under way: timeout_seconds bounds
                 \* each phase of it, so this is no less than all phases together
  MaxSlot        \* bound on the slots that cancelled callers leave reserved

ASSUME PolicyAssumption ==
  /\ {MaxAttempts, Threshold, Interval, Recovery, CacheTtl, Flight} \subseteq Nat \ {0}
  /\ {Backoff, MaxSlot} \subseteq Nat

VARIABLES
  calls,         \* what each caller is waiting for, or how its request ended
  slot,          \* time until the next free slot of the rate limiter
  failures,      \* _consecutive_failures
  circuit,       \* time until an open circuit lets requests through again
  cache,         \* the answer kept for each url
  seen           \* observed only: failures in a row, time since the last request

httpVars == <<calls, slot, failures, circuit, cache, seen>>

NoEntry == [left |-> 0]
Closed == -1
Idle == [pc |-> "idle"]

HttpInit ==
  /\ calls = [c \in Callers |-> Idle]
  /\ slot = 0
  /\ failures = 0
  /\ circuit = Closed
  /\ cache = [u \in Urls |-> NoEntry]
  /\ seen = [failed |-> 0, gap |-> Interval]

-----------------------------------------------------------------------------
Waiting(c) == calls[c].pc \in {"slot", "sent", "backoff"}
Returned(u, body, age) == [pc |-> "returned", url |-> u, body |-> body, age |-> age]
Failed(error) == [pc |-> "failed", error |-> error]

Cached(u) == cache[u].left > 0

\* A cached answer is given before the circuit is looked at.
HitCache(c, u) ==
  /\ ~ Waiting(c) /\ Cached(u)
  /\ calls' = [calls EXCEPT ![c] = Returned(u, cache[u].body, cache[u].age)]
  /\ UNCHANGED <<slot, failures, circuit, cache, seen>>

CircuitRefuses(c, u) ==
  /\ ~ Waiting(c) /\ ~ Cached(u)
  /\ circuit > 0
  /\ calls' = [calls EXCEPT ![c] = Failed("circuit_open")]
  /\ UNCHANGED <<slot, failures, circuit, cache, seen>>

\* A mutant of SlotAfter: the slots of those who wait are forgotten.
SlotFromNow(taken) == Interval

SlotAfter(taken) == taken + Interval

\* Attempt n of c reserves the next slot, and is sent at once if that is now.
Attempt(c, u, n) ==
  /\ slot' = SlotAfter(slot)
  /\ calls' = [calls EXCEPT ![c] =
       [pc |-> IF slot = 0 THEN "sent" ELSE "slot", url |-> u, attempt |-> n,
        left |-> IF slot = 0 THEN Flight ELSE slot]]
  /\ seen' = [seen EXCEPT !.gap = IF slot = 0 THEN 0 ELSE @]

\* The first request after the recovery time closes the circuit.
Ask(c, u) ==
  /\ ~ Waiting(c) /\ ~ Cached(u)
  /\ circuit <= 0
  /\ circuit' = Closed
  /\ failures' = IF circuit = 0 THEN 0 ELSE failures
  /\ Attempt(c, u, 1)
  /\ UNCHANGED cache

SlotComes(c) ==
  /\ calls[c].pc = "slot" /\ calls[c].left = 0
  /\ calls' = [calls EXCEPT ![c].pc = "sent", ![c].left = Flight]
  /\ seen' = [seen EXCEPT !.gap = 0]
  /\ UNCHANGED <<slot, failures, circuit, cache>>

\* A mutant of NextAttempt: a retry does not count.
SameAttempt(c) == calls[c].attempt

NextAttempt(c) == calls[c].attempt + 1

BackoffEnds(c) ==
  /\ calls[c].pc = "backoff" /\ calls[c].left = 0
  /\ Attempt(c, calls[c].url, NextAttempt(c))
  /\ UNCHANGED <<failures, circuit, cache>>

-----------------------------------------------------------------------------
\* Mutants of FailuresAfter and Kept: a success leaves the count of failures;
\* an answer that came late is kept longer.
FailuresNeverReset(success) == IF success THEN failures ELSE failures + 1
KeptLonger(body, age) == [body |-> body, age |-> age, left |-> CacheTtl + age]

FailuresAfter(success) == IF success THEN 0 ELSE failures + 1
Kept(body, age) == [body |-> body, age |-> age, left |-> CacheTtl]

\* The provider made the answer at some time since the request was sent.  The
\* circuit closes, also when it was opened after that.
Answered(c, body, age) ==
  /\ calls[c].pc = "sent"
  /\ age <= Flight - calls[c].left
  /\ calls' = [calls EXCEPT ![c] = Returned(@.url, body, age)]
  /\ failures' = FailuresAfter(TRUE)
  /\ circuit' = Closed
  /\ cache' = [cache EXCEPT ![calls[c].url] = Kept(body, age)]
  /\ seen' = [seen EXCEPT !.failed = 0]
  /\ UNCHANGED slot

GiveUp(c) ==
  /\ calls' = [calls EXCEPT ![c] = Failed("unavailable")]
  /\ failures' = FailuresAfter(FALSE)
  /\ circuit' = IF failures' >= Threshold THEN Recovery ELSE circuit
  /\ seen' = [seen EXCEPT !.failed = IF @ < Threshold THEN @ + 1 ELSE @]
  /\ UNCHANGED <<slot, cache>>

\* Timeouts, lost connections, 429 and 5xx.
TryLater(c) ==
  /\ calls[c].pc = "sent"
  /\ IF calls[c].attempt < MaxAttempts
     THEN /\ calls' = [calls EXCEPT ![c].pc = "backoff",
                                    ![c].left = Backoff * 2 ^ (calls[c].attempt - 1)]
          /\ UNCHANGED <<slot, failures, circuit, cache, seen>>
     ELSE GiveUp(c)

\* Other statuses, answers that are too large and answers that are not JSON.
Rejected(c) == calls[c].pc = "sent" /\ GiveUp(c)

\* The caller is cancelled at an await; its slot stays reserved.
CancelCall(c) ==
  /\ Waiting(c)
  /\ slot <= MaxSlot
  /\ calls' = [calls EXCEPT ![c] = Idle]
  /\ UNCHANGED <<slot, failures, circuit, cache, seen>>

-----------------------------------------------------------------------------
Less(t) == IF t > 0 THEN t - 1 ELSE t

Tick ==
  /\ \A c \in Callers : Waiting(c) => calls[c].left > 0
  /\ calls' = [c \in Callers |-> IF Waiting(c) THEN [calls[c] EXCEPT !.left = @ - 1]
                                 ELSE calls[c]]
  /\ slot' = Less(slot)
  /\ circuit' = Less(circuit)
  /\ cache' = [u \in Urls |-> IF cache[u].left > 1
                              THEN [cache[u] EXCEPT !.age = @ + 1, !.left = @ - 1]
                              ELSE NoEntry]
  /\ seen' = [seen EXCEPT !.gap = IF @ < Interval THEN @ + 1 ELSE @]
  /\ UNCHANGED failures

Begin(c, u) == HitCache(c, u) \/ CircuitRefuses(c, u) \/ Ask(c, u)

\* What becomes of a request that is under way.
Proceed(c) ==
  \/ SlotComes(c) \/ BackoffEnds(c)
  \/ TryLater(c) \/ Rejected(c)
  \/ \E body \in Bodies, age \in 0..Flight : Answered(c, body, age)

-----------------------------------------------------------------------------
\* The circuit is open only when the last circuit_failure_threshold requests
\* that ended had all failed, whichever callers they were of and however they
\* overlapped (request_json).
OpensAfterFailuresInARow == circuit # Closed => seen.failed >= Threshold

\* What a caller is given was made by the provider no longer ago than a request
\* and cache_ttl_seconds take together, however requests for the same url
\* overlap and overwrite the answer that is kept.
AnswersAreFresh ==
  \A c \in Callers : calls[c].pc = "returned" => calls[c].age <= Flight + CacheTtl - 1

\* Requests leave at least 1 / requests_per_second apart, first attempts and
\* retries of all callers together, also after some are cancelled.
SendsAreSpaced ==
  [][\A c \in Callers :
       (calls[c].pc # "sent" /\ calls[c].pc' = "sent") => seen.gap >= Interval]_httpVars
=============================================================================
