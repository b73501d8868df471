---------------------------- MODULE PlanReview ----------------------------
(***************************************************************************)
(* The DeterministicCritic of packages/agents/critic_risk.py and the       *)
(* FinalAggregator of packages/workflow/final_aggregator.py: a review of   *)
(* the candidate plans, and the bundle of those whose review passed.       *)
(*                                                                         *)
(*  facts   [request, destination : [places, claims, evidence, unknowns],  *)
(*           mobility : [evidence, unknowns], routes : Seq(route)]         *)
(*  review  [plans (the ids reviewed), codes : [ids -> set of codes]]      *)
(*                                                                         *)
(* Evidence is a set of pairs of an id and a content.  Scores are left     *)
(* out, but for what the comparison of the plans computes.                 *)
(***************************************************************************)
EXTENDS PlanValidation

PlanIds(plans) == {plan.id : plan \in ToSet(plans)}

EvidenceIds(evidence) == {e[1] : e \in evidence}

-----------------------------------------------------------------------------
(* The critic *)

\* A hard claim that is contradicted and used.
Contradicted(plan, claims) ==
  \E claim \in claims :
    /\ claim.hard /\ claim.status = "contradicted"
    /\ claim.id \in UNION {item.claims : item \in Items(plan)}

\* A place is visited twice on one day.
Backtracks(plan) ==
  \E day \in ToSet(plan.days) : ~ NoRepeats([k \in DOMAIN day.items |-> day.items[k].place])

Validated(plan, facts) ==
  Errors(plan, facts.request, ToSet(facts.destination.places), ToSet(facts.routes),
         facts.destination.claims,
         EvidenceIds(facts.destination.evidence \union facts.mobility.evidence))

\* Mutant of Codes: the rules are not checked again.
CodesOfClaims(plan, facts) ==
  When(Contradicted(plan, facts.destination.claims), "contradicted_hard_claim")
  \union When(Backtracks(plan), "backtracking_detected")

\* The distinct codes of a plan.
Codes(plan, facts) ==
  Validated(plan, facts)
  \union When(Contradicted(plan, facts.destination.claims), "contradicted_hard_claim")
  \union When(Backtracks(plan), "backtracking_detected")

\* review
Review(plans, facts) ==
  [codes |-> [id \in PlanIds(plans) |->
                UNION {Codes(plan, facts) : plan \in {p \in ToSet(plans) : p.id = id}}]]

\* ReviewVerdict.PASS: there is nothing to patch.
Passes(review) == \A id \in DOMAIN review.codes : review.codes[id] = {}

DestinationCodes ==
  {"opening_hours_unknown", "missing_claim_reference", "missing_evidence_reference",
   "unknown_hard_constraint", "contradicted_hard_claim"}

MobilityCodes ==
  {"coordinate_system_mismatch", "missing_route_reference", "route_endpoint_mismatch"}

\* _repair_target
RepairTarget(code) ==
  CASE code \in DestinationCodes -> "destination_intelligence"
    [] code \in MobilityCodes -> "mobility_lodging"
    [] OTHER -> "itinerary_planner"

\* The agents the patches of a review address.
Patched(review) ==
  {RepairTarget(code) : code \in UNION {review.codes[id] : id \in DOMAIN review.codes}}

-----------------------------------------------------------------------------
(* The aggregator *)

\* _merge_evidence
Conflicting(evidence) == \E d, e \in evidence : d[1] = e[1] /\ d # e

WindowLength(request) == request.window.end - request.window.start

Commute(plan) == SumFunction([item \in Items(plan) |-> item.minutes])

\* _build_comparison
Comparison(plan, request, evidence) ==
  LET free == WindowLength(request) * Len(plan.days) - Activity(Items(plan)) - Commute(plan)
  IN  [cost |-> plan.cost, count |-> Cardinality(Items(plan)), commute |-> Commute(plan),
       free |-> Max({0, free}),
       covered |-> \A item \in Items(plan) : item.evidence \subseteq EvidenceIds(evidence)]

\* The codes of FinalAggregationError that hold of the inputs; aggregate raises
\* the first.
Refusals(plans, review, facts) ==
  LET evidence == facts.destination.evidence \union facts.mobility.evidence
  IN  When(~ Passes(review), "review_not_passed")
      \union When(DOMAIN review.codes # PlanIds(plans), "review_coverage_mismatch")
      \union When(Conflicting(evidence), "evidence_conflict")
      \union When(evidence = {}, "missing_evidence")
      \union When(\E plan \in ToSet(plans) :
                    [d \in DOMAIN plan.days |-> plan.days[d].date]
                      # [d \in 1..facts.request.days |-> d], "incomplete_trip_dates")
      \union When(\E plan \in ToSet(plans) : Validated(plan, facts) # {},
                  "deterministic_validation_failed")

\* aggregate
Bundle(plans, facts, rounds) ==
  LET evidence == facts.destination.evidence \union facts.mobility.evidence
  IN  [plans |-> plans, request |-> facts.request, evidence |-> evidence,
       assumptions |-> facts.destination.unknowns \union facts.mobility.unknowns,
       comparison |-> [id \in PlanIds(plans) |->
                         Comparison(CHOOSE p \in ToSet(plans) : p.id = id,
                                    facts.request, evidence)],
       rounds |-> rounds]
=============================================================================
