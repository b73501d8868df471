-------------------------- MODULE PlanValidation --------------------------
(***************************************************************************)
(* packages/domain/validators.py: the checks that planner, critic and      *)
(* aggregator share.  An operator returns the codes of the errors a check  *)
(* finds; warnings, which never block a plan, and the places where an      *)
(* error was found are left out.                                           *)
(***************************************************************************)
EXTENDS PlanContracts, FiniteSetsExt

When(condition, code) == IF condition THEN {code} ELSE {}

SomeUnknown(items) == \E item \in items : IsUnknown(item.cost)

\* The sums of the known amounts.
LowerSum(items) ==
  SumFunction([item \in items |-> IF IsUnknown(item.cost) THEN 0 ELSE item.cost.lower])
UpperSum(items) ==
  SumFunction([item \in items |-> IF IsUnknown(item.cost) THEN 0 ELSE item.cost.upper])

Misstated(cost, items) ==
  ~ SomeUnknown(items) /\ <<cost.lower, cost.upper>> # <<LowerSum(items), UpperSum(items)>>

Costs(plan) ==
  {plan.cost} \union {day.cost : day \in ToSet(plan.days)}
              \union {item.cost : item \in Items(plan)}

\* validate_budget
BudgetErrors(plan, request) ==
  LET items == Items(plan)
      total == request.budget.total
  IN  When(\E cost \in Costs(plan) : cost.currency # request.budget.currency,
           "currency_mismatch")
      \union When(\/ Misstated(plan.cost, items)
                  \/ \E day \in ToSet(plan.days) : Misstated(day.cost, ToSet(day.items)),
                  "budget_total_mismatch")
      \union When(request.budget.hard /\ SomeUnknown(items), "budget_unverifiable")
      \union When(request.budget.hard /\ ~ SomeUnknown(items) /\ UpperSum(items) > total,
                  "budget_exceeded")

Activity(items) == SumFunction([item \in items |-> item.end - item.start])

\* validate_time_windows: the clock is the item's, durations are real.
TimeErrors(plan, request) ==
  LET window == request.window
      OffDate(item, date) == DateOf(item.clock.start) # date \/ DateOf(item.clock.end) # date
      Outside(item) ==
        TimeOf(item.clock.start) < window.start \/ TimeOf(item.clock.end) > window.end
  IN  When(\E day \in ToSet(plan.days) : \E item \in ToSet(day.items) : OffDate(item, day.date),
           "item_date_mismatch")
      \union When(\E item \in Items(plan) : Outside(item), "item_outside_daily_window")
      \union When(\E day \in ToSet(plan.days) : Activity(ToSet(day.items)) > request.limit,
                  "activity_time_exceeded")

\* In the order of their starts, current may come right after previous.  Which one
\* of several with the same start comes first makes no difference to a check of
\* overlaps: activities take time, so that these overlap one another.
ComesAfter(previous, current, items) ==
  /\ previous # current /\ previous.start <= current.start
  /\ \A item \in items : ~ (previous.start < item.start /\ item.start < current.start)

\* Mutant of OverlapErrors: the start of the preceding activity is compared.
OverlapOfStarts(plan) ==
  When(\E day \in ToSet(plan.days) : \E previous, current \in ToSet(day.items) :
         /\ ComesAfter(previous, current, ToSet(day.items))
         /\ current.start < previous.start, "item_overlap")

\* validate_overlaps: each activity of a day against the one before it.
OverlapErrors(plan) ==
  When(\E day \in ToSet(plan.days) : \E previous, current \in ToSet(day.items) :
         /\ ComesAfter(previous, current, ToSet(day.items))
         /\ current.start < previous.end, "item_overlap")

\* validate_opening_hours; no hours at all are hours nobody knows.
OpeningErrors(plan, places) ==
  LET At(item) == {place \in places : place.id = item.place}
      Open(place, date, item) ==
        /\ date \notin place.closures
        /\ \E period \in ToSet(place.hours) :
             /\ period.date = date
             /\ period.opens <= TimeOf(item.clock.start)
             /\ TimeOf(item.clock.end) <= period.closes
  IN  When(\E item \in Items(plan) : \E place \in At(item) : place.hours = <<>>,
           "opening_hours_unknown")
      \union When(\E day \in ToSet(plan.days) : \E item \in ToSet(day.items) :
                    \E place \in At(item) :
                      place.hours # <<>> /\ ~ Open(place, day.date, item),
                  "opening_hours_conflict")

\* validate_coordinates
CoordinateErrors(places, routes) ==
  LET systems == {place.system : place \in places}
  IN  When(\/ Cardinality(systems) > 1
           \/ systems # {} /\ \E route \in routes : route.system \notin systems,
           "coordinate_system_mismatch")

\* validate_references.  Places and routes are told apart by their ids: the contracts
\* of the artifacts they come from let no id repeat.
ReferenceErrors(plan, places, routes, claims, evidence) ==
  LET placeIds == {place.id : place \in places}
      claimIds == {claim.id : claim \in claims}
      cited == UNION {x.evidence : x \in places \union routes \union claims \union Items(plan)}
      Led(day, k) == day.items[k].route # NoRoute
      Referenced(item) == {route \in routes : route.id = item.route}
      Connects(route, day, k) ==
        k > 1 /\ route.from = day.items[k - 1].place /\ route.to = day.items[k].place
  IN  When(~ cited \subseteq evidence, "missing_evidence_reference")
      \union When(\/ \E route \in routes : ~ {route.from, route.to} \subseteq placeIds
                  \/ \E item \in Items(plan) : item.place \notin placeIds,
                  "missing_place_reference")
      \union When(\E claim \in claims : claim.hard /\ claim.status = "unknown",
                  "unknown_hard_constraint")
      \union When(\E item \in Items(plan) : ~ item.claims \subseteq claimIds,
                  "missing_claim_reference")
      \union When(\E item \in Items(plan) : item.route # NoRoute /\ Referenced(item) = {},
                  "missing_route_reference")
      \union When(\E day \in ToSet(plan.days) : \E k \in DOMAIN day.items :
                    Led(day, k) /\ \E route \in Referenced(day.items[k]) :
                                     ~ Connects(route, day, k),
                  "route_endpoint_mismatch")

\* validate_itinerary; a report passes when this is empty.
Errors(plan, request, places, routes, claims, evidence) ==
  BudgetErrors(plan, request)
  \union TimeErrors(plan, request)
  \union OverlapErrors(plan)
  \union OpeningErrors(plan, places)
  \union CoordinateErrors(places, routes)
  \union ReferenceErrors(plan, places, routes, claims, evidence)
=============================================================================
