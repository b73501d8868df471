--------------------------- MODULE PlanOptimizer ---------------------------
(***************************************************************************)
(* The DeterministicItineraryOptimizer of                                  *)
(* packages/agents/itinerary_planning.py.  Variants(f) is the set of the   *)
(* plans that a strategy may make of the facts f:                          *)
(*                                                                         *)
(*  f  [request, places : Seq(place), routes : Seq(route), claims,         *)
(*      evidence]                                                          *)
(*                                                                         *)
(* The solver returns an optimal selection; which one of several, the code *)
(* leaves to its seed.  The operators follow solve: what stops a variant   *)
(* is a condition of its own (Blocked, Infeasible), its code is left out.  *)
(***************************************************************************)
EXTENDS PlanValidation

Strategies == {"balanced", "economy", "relaxed"}

\* The candidates, as positions among the places.
Candidates(f) == {k \in DOMAIN f.places : f.places[k].id \notin f.request.excluded}

CandidatePlaces(f) == {f.places[k] : k \in Candidates(f)}

Required(request) == request.required \union Booked(request)

\* The errors that solve and the price check raise before anything is selected.
Blocked(f) ==
  \/ Cardinality(Booked(f.request)) # Len(f.request.appointments)
  \/ ~ Required(f.request) \subseteq {place.id : place \in CandidatePlaces(f)}
  \/ Cardinality(Candidates(f)) < f.request.days
  \/ f.request.budget.hard /\ \E place \in CandidatePlaces(f) : IsUnknown(place.price)

\* known_upper_cents
KnownUpper(place) == IF IsUnknown(place.price) THEN 0 ELSE place.price.upper

\* Mutant of Weight: the cheaper a selection is, the less it weighs.
SpendingWeight(strategy, f, k) ==
  CASE strategy = "balanced" -> 10000 - Cardinality({j \in Candidates(f) : j < k})
    [] strategy = "economy" -> KnownUpper(f.places[k])
    [] strategy = "relaxed" -> - f.places[k].shortest

Weight(strategy, f, k) ==
  CASE strategy = "balanced" -> 10000 - Cardinality({j \in Candidates(f) : j < k})
    [] strategy = "economy" -> - KnownUpper(f.places[k])
    [] strategy = "relaxed" -> - f.places[k].shortest

\* The constraints of the CP-SAT model on a set of candidates.
Admissible(strategy, f, S) ==
  LET required == {k \in Candidates(f) : f.places[k].id \in Required(f.request)}
      least == Max({f.request.days, Cardinality(required)})
  IN  /\ required \subseteq S
      /\ IF strategy = "balanced" THEN Cardinality(S) >= least ELSE Cardinality(S) = least
      /\ f.request.budget.hard =>
           SumFunction([k \in S |-> KnownUpper(f.places[k])]) <= f.request.budget.total

Selections(strategy, f) ==
  LET worth(S) == SumFunction([k \in S |-> Weight(strategy, f, k)])
      admissible == {S \in SUBSET Candidates(f) : Admissible(strategy, f, S)}
  IN  {S \in admissible : \A T \in admissible : worth(T) <= worth(S)}

-----------------------------------------------------------------------------
(* _partition: a bucket of a selection's places, by their positions, for every day *)

\* The buckets after each of the appointments.
BookedBuckets(f, S) ==
  LET appointment == f.request.appointments
      named(name) == CHOOSE k \in S : f.places[k].id = name
      buckets[a \in 0..Len(appointment)] ==
        IF a = 0 THEN [d \in 1..f.request.days |-> <<>>]
        ELSE [buckets[a - 1] EXCEPT
                ![appointment[a].date] = Append(@, named(appointment[a].place))]
  IN  buckets

Emptiest(buckets) ==
  Min({d \in DOMAIN buckets : \A e \in DOMAIN buckets : Len(buckets[d]) <= Len(buckets[e])})

\* The buckets after each of the places, the booked ones being in theirs already.
FilledBuckets(f, S) ==
  LET free == {k \in S : f.places[k].id \notin Booked(f.request)}
      buckets[k \in 0..Len(f.places)] ==
        IF k = 0 THEN BookedBuckets(f, S)[Len(f.request.appointments)]
        ELSE IF k \notin free THEN buckets[k - 1]
        ELSE [buckets[k - 1] EXCEPT ![Emptiest(buckets[k - 1])] = Append(@, k)]
  IN  buckets

Partition(f, S) == FilledBuckets(f, S)[Len(f.places)]

-----------------------------------------------------------------------------
(* One day *)

\* route_by_edge keeps the last route of an edge.
Leg(routes, from, to) ==
  routes[SelectLastInSeq(routes, LAMBDA route : route.from = from /\ route.to = to)]

Connected(routes, from, to) ==
  \E route \in ToSet(routes) : route.from = from /\ route.to = to

Orders(places, routes) ==
  {o \in Bijection(DOMAIN places, DOMAIN places) :
     \A k \in DOMAIN places \ {1} : Connected(routes, places[o[k - 1]].id, places[o[k]].id)}

\* _route_order: the walk that tries the places in their order.
FirstOrder(orders) ==
  CHOOSE o \in orders : \A p \in orders :
    o = p \/ \E k \in DOMAIN o : o[k] < p[k] /\ \A j \in 1..(k - 1) : o[j] = p[j]

\* _opening_period: the period of a day that is listed first, none if the place is
\* closed.
Opening(place, date) ==
  LET listed == {n \in DOMAIN place.hours :
                   place.hours[n].date = date /\ date \notin place.closures}
  IN  {place.hours[n] : n \in {m \in listed : \A l \in listed : m <= l}}

AppointmentAt(request, date, place) ==
  {a \in ToSet(request.appointments) : a.date = date /\ a.place = place.id}

Stay(strategy, place) == IF strategy = "balanced" THEN place.longest ELSE place.shortest

\* Mutant of Arrival: the next activity begins when the last one ends.
ArrivalAtOnce(routes, ordered, k, left) == left

\* The cursor when the k-th place is reached.
Arrival(routes, ordered, k, left) ==
  left + IF k = 1 THEN 0 ELSE Leg(routes, ordered[k - 1].id, ordered[k].id).minutes

\* Start and end of the activity at place, for a traveller who arrives there at
\* the given time of the day; places that do not open take no time.
Slot(strategy, request, date, place, arrival) ==
  LET booked == AppointmentAt(request, date, place)
      opens == {period.opens : period \in Opening(place, date)}
      start == Max({arrival} \union opens)
  IN  IF booked # {} THEN (CHOOSE a \in booked : TRUE).at
      ELSE [start |-> start, end |-> start + Stay(strategy, place)]

\* The slots of a day, one after the other; the day starts with the window.
Timetable(strategy, f, date, ordered) ==
  LET slot[k \in 0..Len(ordered)] ==
        IF k = 0 THEN [start |-> f.request.window.start, end |-> f.request.window.start]
        ELSE Slot(strategy, f.request, date, ordered[k],
                  Arrival(f.routes, ordered, k, slot[k - 1].end))
  IN  slot

\* closed_place, fixed_appointment_conflict, time_window_infeasible and
\* daily_activity_limit_exceeded
DayFits(f, date, ordered, slot) ==
  /\ \A k \in DOMAIN ordered :
       /\ slot[k].start >= Arrival(f.routes, ordered, k, slot[k - 1].end)
       /\ \E period \in Opening(ordered[k], date) :
            /\ period.opens <= slot[k].start
            /\ slot[k].end <= Min({period.closes, f.request.window.end})
  /\ SumFunction([k \in DOMAIN ordered |-> slot[k].end - slot[k].start]) <= f.request.limit

\* _cost_total
CostTotal(items, currency) ==
  IF SomeUnknown(items) THEN Unknown(currency)
  ELSE [currency |-> currency, lower |-> LowerSum(items), upper |-> UpperSum(items)]

ItemAt(strategy, f, date, ordered, slot, k) ==
  LET place == ordered[k]
      led == k > 1
      leg == Leg(f.routes, ordered[k - 1].id, place.id)
  IN  [id |-> <<strategy, place.id>>, place |-> place.id,
       start |-> Moment(date, slot[k].start), end |-> Moment(date, slot[k].end),
       clock |-> [start |-> Moment(date, slot[k].start), end |-> Moment(date, slot[k].end)],
       cost |-> place.price,
       route |-> IF led THEN leg.id ELSE NoRoute,
       minutes |-> IF led THEN leg.minutes ELSE 0,
       claims |-> {claim.id : claim \in {c \in f.claims : c.about = place.id}},
       evidence |-> place.evidence \union IF led THEN leg.evidence ELSE {}]

\* _schedule_day, a set that is empty when it raises.
Schedule(strategy, f, date, places) ==
  LET orders == Orders(places, f.routes)
      first == FirstOrder(orders)
      ordered == [k \in DOMAIN places |-> places[first[k]]]
      slot == Timetable(strategy, f, date, ordered)
      items == [k \in DOMAIN ordered |-> ItemAt(strategy, f, date, ordered, slot, k)]
  IN  IF orders = {} \/ ~ DayFits(f, date, ordered, slot) THEN {}
      ELSE {[date |-> date, items |-> items,
             cost |-> CostTotal(ToSet(items), f.request.budget.currency)]}

-----------------------------------------------------------------------------
(* Variants *)

Plan(strategy, f, days) ==
  LET items == UNION {ToSet(day.items) : day \in ToSet(days)}
      unknown == SomeUnknown(items)
  IN  [id |-> strategy, days |-> days,
       cost |-> CostTotal(items, f.request.budget.currency),
       executable |-> ~ unknown, risks |-> IF unknown THEN {"cost"} ELSE {}]

\* The days of a selection, where a day that cannot be scheduled is no day at all.
DaysOf(strategy, f, S) ==
  LET bucket == Partition(f, S)
  IN  [d \in 1..f.request.days |->
         Schedule(strategy, f, d, [k \in DOMAIN bucket[d] |-> f.places[bucket[d][k]]])]

\* Mutant of Builds: the validators are not asked.
BuildsUnchecked(strategy, f, S) == \A day \in ToSet(DaysOf(strategy, f, S)) : day # {}

\* The plan of a selection, and whether it can be scheduled and passes the
\* contract and the validators, which see the candidates and the evidence of the
\* destination only.
VariantOf(strategy, f, S) ==
  LET days == DaysOf(strategy, f, S)
  IN  Plan(strategy, f, [d \in DOMAIN days |-> CHOOSE day \in days[d] : TRUE])

Builds(strategy, f, S) ==
  /\ \A day \in ToSet(DaysOf(strategy, f, S)) : day # {}
  /\ LET plan == VariantOf(strategy, f, S)
     IN  /\ PlanIsValid(plan)
         /\ Errors(plan, f.request, CandidatePlaces(f), ToSet(f.routes), f.claims, f.evidence) = {}

\* _build_variant
Variants(strategy, f) ==
  IF Blocked(f) THEN {}
  ELSE {VariantOf(strategy, f, S) : S \in {T \in Selections(strategy, f) : Builds(strategy, f, T)}}

\* It raises: PlanningInfeasibleError, or the contract's error on a day that got
\* no place.
Infeasible(strategy, f) ==
  \/ Blocked(f)
  \/ Selections(strategy, f) = {}
  \/ \E S \in Selections(strategy, f) : ~ Builds(strategy, f, S)
=============================================================================
