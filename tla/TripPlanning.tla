--------------------------- MODULE TripPlanning ---------------------------
(***************************************************************************)
(* One trip from its facts to the published bundle: the last three tasks   *)
(* of the workflow, planning, review and aggregation, and the rounds of    *)
(* targeted repair that a review may ask for.                              *)
(*                                                                         *)
(* Planner and critic are agents around a deterministic core: an agent's   *)
(* answer is the artifact of its model, which may be what the core         *)
(* computed or anything else that the contract accepts.  Repair renews the *)
(* artifacts of the agents that the patches address, and everything that   *)
(* is built from them.                                                     *)
(***************************************************************************)
EXTENDS PlanOptimizer, PlanReview

CONSTANTS
  Requests, Destinations, Mobilities, Matrices,  \* what a trip may start from
  Drafts,    \* itineraries a planner's model writes: Seq of days of Seq of visits
  MaxRounds  \* rounds of repair

ASSUME TripPlanningAssumption ==
  /\ MaxRounds \in Nat
  /\ \A request \in Requests : RequestIsValid(request)
  /\ \A destination \in Destinations :
       /\ IsSequence(destination.places) /\ destination.places # <<>>
       /\ \A place \in ToSet(destination.places) : PlaceIsValid(place)
       /\ NoRepeats([k \in DOMAIN destination.places |-> destination.places[k].id])
       /\ \A claim \in destination.claims : ClaimIsValid(claim)
       /\ destination.evidence # {} /\ ~ Conflicting(destination.evidence)
       /\ \A x \in ToSet(destination.places) \union destination.claims :
            x.evidence \subseteq EvidenceIds(destination.evidence)
  /\ \A routes \in Matrices :
       /\ IsSequence(routes) /\ \A route \in ToSet(routes) : RouteIsValid(route)
       /\ NoRepeats([k \in DOMAIN routes |-> routes[k].id])
  /\ \A draft \in Drafts : IsSequence(draft) /\
       \A visits \in ToSet(draft) :
         IsSequence(visits) /\ \A visit \in ToSet(visits) :
           {visit.start, visit.end, visit.ahead.start, visit.ahead.end} \subseteq Int

VARIABLES
  phase,     \* the next task, or how the trip ended
  facts,     \* the request and the artifacts the plans are made of
  plans,     \* PlanCandidatesArtifact.plans
  planner,   \* who wrote them
  review,    \* ReviewArtifact
  reviewer,  \* who wrote it
  rounds,    \* completed revision rounds
  bundle     \* the set of what was published

vars == <<phase, facts, plans, planner, review, reviewer, rounds, bundle>>

NoReview == [codes |-> <<>>]

Init ==
  /\ phase = "planning"
  /\ facts \in [request : Requests, destination : Destinations,
                mobility : Mobilities, routes : Matrices]
  /\ plans = <<>> /\ planner = "nobody"
  /\ review = NoReview /\ reviewer = "nobody"
  /\ rounds = 0
  /\ bundle = {}

-----------------------------------------------------------------------------
(* Planning *)

\* What solve is given.
Given ==
  [request |-> facts.request, places |-> facts.destination.places, routes |-> facts.routes,
   claims |-> facts.destination.claims, evidence |-> EvidenceIds(facts.destination.evidence)]

Publish(candidates, author) ==
  /\ phase' = "review"
  /\ plans' = candidates
  /\ planner' = author
  /\ UNCHANGED <<facts, review, reviewer, rounds, bundle>>

\* solve, one variant after the other.
Solve ==
  /\ phase = "planning"
  /\ \E b \in Variants("balanced", Given) :
       \E e \in Variants("economy", Given) :
         \E r \in Variants("relaxed", Given) : Publish(<<b, e, r>>, "optimizer")

SolveFails ==
  /\ phase = "planning"
  /\ \E strategy \in Strategies : Infeasible(strategy, Given)
  /\ phase' = "infeasible"
  /\ UNCHANGED <<facts, plans, planner, review, reviewer, rounds, bundle>>

\* A visit of a draft as an item.  The model writes a start and an end by clocks that
\* may be ahead of the trip's; it quotes what it was given, of a place that nobody
\* knows all the evidence and no price.
DraftItem(d, visits, k) ==
  LET visit == visits[k]
      known == {place \in ToSet(facts.destination.places) : place.id = visit.place}
      place == CHOOSE p \in known : TRUE
      led == k > 1 /\ Connected(facts.routes, visits[k - 1].place, visit.place)
      leg == Leg(facts.routes, visits[k - 1].place, visit.place)
  IN  [id |-> <<"draft", d, k>>, place |-> visit.place,
       start |-> Moment(d, visit.start) - visit.ahead.start,
       end |-> Moment(d, visit.end) - visit.ahead.end,
       clock |-> [start |-> Moment(d, visit.start), end |-> Moment(d, visit.end)],
       cost |-> IF known = {} THEN Unknown(facts.request.budget.currency) ELSE place.price,
       route |-> IF led THEN leg.id ELSE NoRoute,
       minutes |-> IF led THEN leg.minutes ELSE 0,
       claims |-> {claim.id : claim \in {c \in facts.destination.claims : c.about = visit.place}},
       evidence |-> IF known = {} THEN EvidenceIds(facts.destination.evidence)
                    ELSE place.evidence]

DraftDay(d, visits) ==
  LET items == [k \in DOMAIN visits |-> DraftItem(d, visits, k)]
  IN  [date |-> d, items |-> items,
       cost |-> CostTotal(ToSet(items), facts.request.budget.currency)]

\* The planner's model answers with a plan of its own.
Draft ==
  /\ phase = "planning"
  /\ \E draft \in Drafts :
       LET plan == Plan("draft", Given, [d \in DOMAIN draft |-> DraftDay(d, draft[d])])
       IN  CandidatesAreValid(<<plan>>) /\ Publish(<<plan>>, "model")

-----------------------------------------------------------------------------
(* Review and repair *)

Reviewed(verdict, author) ==
  /\ phase = "review"
  /\ phase' = "reviewed"
  /\ review' = verdict
  /\ reviewer' = author
  /\ UNCHANGED <<facts, plans, planner, rounds, bundle>>

Critique == Reviewed(Review(plans, facts), "critic")

\* The critic's model lets the plans pass.
WaveThrough == Reviewed([codes |-> [id \in PlanIds(plans) |-> {}]], "model")

Renewed(agent, current, others) == IF agent \in Patched(review) THEN others ELSE {current}

\* The round of repair that a review asks for: the facts that the patches
\* address are found anew, and with them the routes; then there is planning.
Repair ==
  /\ phase = "reviewed"
  /\ ~ Passes(review) /\ rounds < MaxRounds
  /\ \E destination \in Renewed("destination_intelligence", facts.destination, Destinations),
        mobility \in Renewed("mobility_lodging", facts.mobility, Mobilities),
        routes \in IF {"destination_intelligence", "mobility_lodging"} \intersect Patched(review)
                        = {} THEN {facts.routes} ELSE Matrices :
       facts' = [facts EXCEPT !.destination = destination, !.mobility = mobility,
                              !.routes = routes]
  /\ phase' = "planning"
  /\ rounds' = rounds + 1
  /\ plans' = <<>> /\ planner' = "nobody"
  /\ review' = NoReview /\ reviewer' = "nobody"
  /\ UNCHANGED bundle

-----------------------------------------------------------------------------
(* Aggregation *)

Final == Passes(review) \/ rounds = MaxRounds

Aggregate ==
  /\ phase = "reviewed" /\ Final
  /\ Refusals(plans, review, facts) = {}
  /\ phase' = "published"
  /\ bundle' = {Bundle(plans, facts, rounds)}
  /\ UNCHANGED <<facts, plans, planner, review, reviewer, rounds>>

\* FinalAggregationError
AggregateRefuses ==
  /\ phase = "reviewed" /\ Final
  /\ Refusals(plans, review, facts) # {}
  /\ phase' = "refused"
  /\ UNCHANGED <<facts, plans, planner, review, reviewer, rounds, bundle>>

Next ==
  \/ Solve \/ SolveFails \/ Draft
  \/ Critique \/ WaveThrough \/ Repair
  \/ Aggregate \/ AggregateRefuses

Spec == Init /\ [][Next]_vars

-----------------------------------------------------------------------------
(* Properties *)

PlaceOf(item) == {place \in ToSet(facts.destination.places) : place.id = item.place}

Disjoint(i, j) == i.end <= j.start \/ j.end <= i.start

\* Written by one clock.
SameClock(i, j) ==
  LET ahead == i.clock.start - i.start
  IN  \A item \in {i, j} :
        item.clock.start - item.start = ahead /\ item.clock.end - item.end = ahead

\* Of a span [start, end], by whatever clock.
Admits(place, span) ==
  LET date == DateOf(span.start)
  IN  date \notin place.closures /\
      \E period \in ToSet(place.hours) :
        /\ period.date = date
        /\ Moment(date, period.opens) <= span.start /\ span.end <= Moment(date, period.closes)

InWindow(span, request) ==
  \E date \in 1..request.days :
    /\ Moment(date, request.window.start) <= span.start
    /\ span.end <= Moment(date, request.window.end)

Affordable(plan) ==
  facts.request.budget.hard =>
    /\ \A item \in Items(plan) : ~ IsUnknown(item.cost)
    /\ UpperSum(Items(plan)) <= facts.request.budget.total

\* Whatever the models of planner and critic answer, even a pass for plans nobody
\* looked at, what final_aggregator.py publishes has every day of the trip; no two
\* activities overlap, unless they are of different days and not written by one
\* clock; a hard budget is kept, all evidence is there, and in a review by the
\* critic itself no hard claim that is contradicted was used and no place visited
\* twice a day.  Each activity is in the daily window and inside the hours of a known
\* place by the clock it is written by, which may be another one than the trip's.
BundleIsFeasible ==
  \A b \in bundle : \A plan \in ToSet(b.plans) :
    /\ {day.date : day \in ToSet(plan.days)} = 1..facts.request.days
    /\ \A day, other \in ToSet(plan.days) :
         \A i \in ToSet(day.items), j \in ToSet(other.items) :
           i = j \/ Disjoint(i, j) \/ (day # other /\ ~ SameClock(i, j))
    /\ \A item \in Items(plan) :
         /\ InWindow(item.clock, facts.request)
         /\ \E place \in PlaceOf(item) : Admits(place, item.clock)
         /\ \A e \in item.evidence : Cardinality({x \in b.evidence : x[1] = e}) = 1
    /\ Affordable(plan)
    /\ b.comparison[plan.id].covered
    /\ reviewer = "critic" =>
         ~ Contradicted(plan, facts.destination.claims) /\ ~ Backtracks(plan)

\* What HardConstraints asks for, on the clock of the trip.
KeepsHardConstraints(plan, request) ==
  LET visited == {item.place : item \in Items(plan)}
  IN  /\ request.required \subseteq visited
      /\ request.excluded \intersect visited = {}
      /\ \A a \in ToSet(request.appointments) : \E item \in Items(plan) :
           /\ item.place = a.place
           /\ item.start = Moment(a.date, a.at.start) /\ item.end = Moment(a.date, a.at.end)
      /\ \A item \in Items(plan) : InWindow(item, request)

\* Of the plans of the optimizer (itinerary_planning.py) this is true from the
\* start, although no validator looks: required places are visited and excluded
\* ones avoided, appointments kept to the minute, each activity is in the window and
\* inside the hours of its place by the clock of the trip, between two activities of
\* a day there is the time of a route that the matrix has, and so the free time that
\* the comparison reports is never cut off at zero.
OptimizerKeepsHardRules ==
  planner = "optimizer" => \A plan \in ToSet(plans) :
    /\ KeepsHardConstraints(plan, facts.request)
    /\ \A item \in Items(plan) : \E place \in PlaceOf(item) : Admits(place, item)
    /\ \A day \in ToSet(plan.days) : \A k \in 2..Len(day.items) :
         \E route \in ToSet(facts.routes) :
           /\ route.from = day.items[k - 1].place /\ route.to = day.items[k].place
           /\ day.items[k - 1].end + route.minutes <= day.items[k].start
    /\ Activity(Items(plan)) + Commute(plan) <= WindowLength(facts.request) * facts.request.days

\* The three plans differ the way their titles say: economy costs no more than
\* relaxed, which asks for no longer visits than economy, and neither visits more
\* places than balanced.
StrategiesDeliver ==
  planner = "optimizer" =>
    LET least(plan) ==
          SumFunction([item \in Items(plan) |-> (CHOOSE p \in PlaceOf(item) : TRUE).shortest])
        size(plan) == Cardinality(Items(plan))
    IN  /\ UpperSum(Items(plans[2])) <= UpperSum(Items(plans[3]))
        /\ least(plans[3]) <= least(plans[2])
        /\ size(plans[2]) <= size(plans[1]) /\ size(plans[3]) <= size(plans[1])

\* A review by the critic finds in the optimizer's plans only what the optimizer
\* could not see: contradicted claims, and the coordinate system of a place that the
\* request excludes.
ReviewFindsOnlyUnseen ==
  planner = "optimizer" /\ reviewer = "critic" =>
    \A id \in DOMAIN review.codes :
      review.codes[id] \subseteq
        {"contradicted_hard_claim"} \union
        IF facts.request.excluded = {} THEN {} ELSE {"coordinate_system_mismatch"}

\* When the critic itself let the plans pass, the aggregator finds fault with
\* them no more, except for a day that is missing in a model's plan and for
\* evidence that two agents describe differently.
PassIsFinal ==
  phase = "refused" /\ reviewer = "critic" /\ Passes(review) =>
    Refusals(plans, review, facts) \subseteq
      {"evidence_conflict"} \union IF planner = "model" THEN {"incomplete_trip_dates"} ELSE {}

\* "Even if someone forges a PASS review, as long as a plan lacks evidence or
\* violates a hard constraint, FinalAggregator still blocks it" (the guide to
\* chapter five); the places to visit, the places to avoid, the appointments and the
\* "local-time window" are HardConstraints.  final_aggregator.py looks at none of the
\* first three, and at the window by the clock of an offset that nobody checks.
PublishedKeepsHardConstraints ==
  \A b \in bundle : \A plan \in ToSet(b.plans) : KeepsHardConstraints(plan, b.request)
=============================================================================
