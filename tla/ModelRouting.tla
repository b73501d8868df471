---------------------------- MODULE ModelRouting ----------------------------
(***************************************************************************)
(* The loop of RoutedModelGateway.generate (packages/models/routing.py) as *)
(* operators on its local variables: candidate and local are the places of *)
(* the two loops, total counts the attempts begun, the one in flight       *)
(* included, attempts are those that ended.  The delay before a retry is   *)
(* part of the time until the next answer.                                 *)
(***************************************************************************)
EXTENDS Integers, Sequences, FiniteSets

CONSTANTS
  MaxAttempts,     \* for each candidate, in the order of the candidates
  MaxTotal         \* the policy's max_total_attempts

Candidates == DOMAIN MaxAttempts
Retryable == {"rate_limit", "timeout", "server", "transport"}

ASSUME RoutingAssumption ==
  /\ MaxAttempts \in Seq(1..3) /\ MaxAttempts # <<>>
  /\ MaxTotal \in 1..8

-----------------------------------------------------------------------------
\* build_routed_gateway of packages/models/profiles.py: a candidate for each
\* tier that the agent has a profile for; the first tier asked for is tried
\* twice.
ProfileTiers == <<"default", "advanced", "flagship">>
Chain(configured, tiers) == SelectSeq(tiers, LAMBDA tier : tier \in configured)
ChainAttempts(configured, tiers) ==
  [i \in DOMAIN Chain(configured, tiers) |->
     IF Chain(configured, tiers)[i] = tiers[1] THEN 2 ELSE 1]

NewRoute == [candidate |-> 1, local |-> 0, total |-> 1, attempts |-> <<>>]

Ended(route, outcome) ==
  [route EXCEPT !.attempts = Append(@, [candidate |-> route.candidate, outcome |-> outcome])]

\* can_retry: the kind of the failure, the attempts of the candidate and the
\* attempts of the call.
MayRetry(route, kind) ==
  /\ kind \in Retryable
  /\ route.local + 1 < MaxAttempts[route.candidate]
  /\ route.total < MaxTotal

\* What the first test of the inner loop and the end of the outer loop leave.
MayFallBack(route) == route.candidate < Len(MaxAttempts) /\ route.total < MaxTotal

RetryOf(route) == [route EXCEPT !.local = @ + 1, !.total = @ + 1]
\* A mutant of FallbackOf: only retries count.
FallbackUncounted(route) == [route EXCEPT !.candidate = @ + 1, !.local = 0]

FallbackOf(route) == [route EXCEPT !.candidate = @ + 1, !.local = 0, !.total = @ + 1]

\* _output_conforms: types and required names of the JSON schema, which is
\* less than what the Pydantic model of the agent asks for.
Conforms(turn) == turn.output \in {"none", "valid", "shaped"}
=============================================================================
