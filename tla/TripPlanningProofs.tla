------------------------- MODULE TripPlanningProofs -------------------------
(***************************************************************************)
(* Theorems about TripPlanning, for any requests, facts and drafts that    *)
(* the contracts accept.                                                   *)
(*                                                                         *)
(* The steps of a trip are few, and PlanInv says what each has left        *)
(* behind; the work is in what the optimizer and the validators compute.   *)
(***************************************************************************)
EXTENDS TripPlanning, SumTheorems

-----------------------------------------------------------------------------
(* The steps of a trip *)

\* The plans are those of the optimizer or one of a model.
Planned ==
  \/ /\ planner = "optimizer"
     /\ \E b \in Variants("balanced", Given) :
          \E e \in Variants("economy", Given) :
            \E r \in Variants("relaxed", Given) : plans = <<b, e, r>>
  \/ /\ planner = "model"
     /\ CandidatesAreValid(plans)
     /\ \E draft \in Drafts :
          plans = <<Plan("draft", Given, [d \in DOMAIN draft |-> DraftDay(d, draft[d])])>>

FactsOK ==
  facts \in [request : Requests, destination : Destinations,
             mobility : Mobilities, routes : Matrices]

\* A review by the critic itself is of these plans and these facts.
ReviewInv ==
  /\ reviewer \in {"critic", "model"}
  /\ reviewer = "critic" => review = Review(plans, facts)

BundleInv ==
  bundle # {} =>
    /\ phase = "published"
    /\ bundle = {Bundle(plans, facts, rounds)}
    /\ Refusals(plans, review, facts) = {}

PlanInv ==
  /\ FactsOK
  /\ phase \in {"planning", "infeasible", "review", "reviewed", "published", "refused"}
  /\ phase \in {"planning", "infeasible"} => planner = "nobody" /\ reviewer = "nobody"
  /\ phase = "review" => reviewer = "nobody"
  /\ phase \in {"review", "reviewed", "published", "refused"} => Planned
  /\ phase \in {"reviewed", "published", "refused"} => ReviewInv
  /\ BundleInv

LEMMA InitPlanInv == Init => PlanInv
<1> SUFFICES ASSUME Init PROVE PlanInv
  OBVIOUS
<1> QED
  BY DEF Init, PlanInv, FactsOK, BundleInv

LEMMA StepPlanInv == PlanInv /\ [Next]_vars => PlanInv'
<1> SUFFICES ASSUME PlanInv, [Next]_vars PROVE PlanInv'
  OBVIOUS
<1>0. ASSUME facts' = facts
      PROVE  /\ Given' = Given
             /\ plans' = plans /\ planner' = planner => Planned' = Planned
  <2>1. Given' = Given
    BY <1>0 DEF Given
  <2>2. \A d, visits : DraftDay(d, visits)' = DraftDay(d, visits)
    BY <1>0 DEF DraftDay, DraftItem
  <2> QED
    BY <2>1, <2>2 DEF Planned
<1>1. CASE Solve
  <2>1. Planned'
    BY <1>0, <1>1 DEF Solve, Publish, Planned
  <2> QED
    BY <1>1, <2>1 DEF Solve, Publish, PlanInv, FactsOK, BundleInv
<1>2. CASE SolveFails
  BY <1>2 DEF SolveFails, PlanInv, FactsOK, BundleInv
<1>3. CASE Draft
  <2>1. PICK draft \in Drafts :
          LET plan == Plan("draft", Given, [d \in DOMAIN draft |-> DraftDay(d, draft[d])])
          IN  CandidatesAreValid(<<plan>>) /\ Publish(<<plan>>, "model")
    BY <1>3 DEF Draft
  <2>2. facts' = facts /\ planner' = "model"
    BY <2>1 DEF Publish
  <2>3. \A d, visits : DraftDay(d, visits)' = DraftDay(d, visits)
    BY <2>2 DEF DraftDay, DraftItem
  <2>4. Planned'
    BY <1>0, <2>1, <2>2, <2>3 DEF Publish, Planned
  <2> QED
    BY <1>3, <2>1, <2>4 DEF Draft, Publish, PlanInv, FactsOK, BundleInv
<1>4. ASSUME NEW verdict, NEW author \in {"critic", "model"}, Reviewed(verdict, author),
             author = "critic" => verdict = Review(plans, facts)
      PROVE  PlanInv'
  <2>1. Planned'
    BY <1>0, <1>4 DEF Reviewed, PlanInv
  <2> QED
    BY <1>4, <2>1 DEF Reviewed, PlanInv, FactsOK, ReviewInv, BundleInv
<1>5. CASE Critique
  BY <1>4, <1>5 DEF Critique
<1>6. CASE WaveThrough
  BY <1>4, <1>6 DEF WaveThrough
<1>7. CASE Repair
  <2>1. FactsOK'
    BY <1>7 DEF Repair, Renewed, PlanInv, FactsOK
  <2> QED
    BY <1>7, <2>1 DEF Repair, PlanInv, BundleInv
<1>8. CASE Aggregate
  <2>1. Planned'
    BY <1>0, <1>8 DEF Aggregate, PlanInv
  <2> QED
    BY <1>8, <2>1 DEF Aggregate, PlanInv, FactsOK, ReviewInv, BundleInv
<1>9. CASE AggregateRefuses
  <2>1. Planned'
    BY <1>0, <1>9 DEF AggregateRefuses, PlanInv
  <2> QED
    BY <1>9, <2>1 DEF AggregateRefuses, PlanInv, FactsOK, ReviewInv, BundleInv
<1>10. CASE UNCHANGED vars
  <2>1. Planned' = Planned
    BY <1>0, <1>10 DEF vars
  <2> QED
    BY <1>10, <2>1 DEF vars, PlanInv, FactsOK, ReviewInv, BundleInv
<1> QED
  BY <1>1, <1>2, <1>3, <1>5, <1>6, <1>7, <1>8, <1>9, <1>10 DEF Next

\* At any moment the plans, the review and the bundle are what the last planning,
\* review and aggregation made of the present facts (itinerary_planning.py,
\* critic_risk.py and final_aggregator.py).
THEOREM PlanInvariance == Spec => []PlanInv
BY InitPlanInv, StepPlanInv, PTL DEF Spec

-----------------------------------------------------------------------------
(* What passed the critic is not refused *)

\* A critic who passes the plans has found nothing in any of them.
LEMMA PassMeansNoCodes ==
  ASSUME review = Review(plans, facts), Passes(review)
  PROVE  /\ DOMAIN review.codes = PlanIds(plans)
         /\ \A plan \in ToSet(plans) : Codes(plan, facts) = {}
<1>1. DOMAIN review.codes = PlanIds(plans)
  BY DEF Review
<1>2. ASSUME NEW plan \in ToSet(plans)
      PROVE  Codes(plan, facts) = {}
  <2>1. plan.id \in PlanIds(plans)
    BY DEF PlanIds
  <2>2. review.codes[plan.id] = {}
    BY <1>1, <2>1 DEF Passes
  <2>3. Codes(plan, facts) \subseteq review.codes[plan.id]
    BY <2>1 DEF Review
  <2> QED
    BY <2>2, <2>3
<1> QED
  BY <1>1, <1>2

\* The days of a plan of the optimizer.
LEMMA VariantDays ==
  ASSUME NEW strategy, NEW f, NEW plan \in Variants(strategy, f)
  PROVE  \E S \in Selections(strategy, f) :
           /\ Builds(strategy, f, S) /\ plan = VariantOf(strategy, f, S)
           /\ DOMAIN plan.days = 1..f.request.days
           /\ \A d \in 1..f.request.days : plan.days[d] \in DaysOf(strategy, f, S)[d]
<1>1. PICK S \in Selections(strategy, f) :
        Builds(strategy, f, S) /\ plan = VariantOf(strategy, f, S)
  BY DEF Variants
<1> DEFINE days == DaysOf(strategy, f, S)
<1>2. DOMAIN days = 1..f.request.days
  BY DEF DaysOf
<1>3. \A d \in 1..f.request.days : days[d] # {}
  <2>1. \A d \in DOMAIN days : days[d] \in ToSet(days)
    BY DEF ToSet
  <2> QED
    BY <1>1, <1>2, <2>1 DEF Builds
<1> HIDE DEF days
<1>4. plan.days = [d \in DOMAIN days |-> CHOOSE day \in days[d] : TRUE]
  BY <1>1 DEF VariantOf, Plan, days
<1>5. \A d \in 1..f.request.days : plan.days[d] \in days[d]
  BY <1>2, <1>3, <1>4
<1> QED
  BY <1>1, <1>2, <1>4, <1>5 DEF days

\* A day of the schedule has the date it was made for.
LEMMA ScheduleDate ==
  ASSUME NEW strategy, NEW f, NEW date, NEW places,
         NEW day \in Schedule(strategy, f, date, places)
  PROVE  day.date = date
BY DEF Schedule

\* The days of a plan of the optimizer are those of the request, in their order.
LEMMA VariantDates ==
  ASSUME NEW strategy, NEW f, NEW plan \in Variants(strategy, f)
  PROVE  [d \in DOMAIN plan.days |-> plan.days[d].date] = [d \in 1..f.request.days |-> d]
<1>1. PICK S : /\ DOMAIN plan.days = 1..f.request.days
               /\ \A d \in 1..f.request.days : plan.days[d] \in DaysOf(strategy, f, S)[d]
  BY VariantDays
<1>2. \A d \in 1..f.request.days : plan.days[d].date = d
  BY <1>1, ScheduleDate DEF DaysOf
<1> QED
  BY <1>1, <1>2

\* The aggregator makes the tests of the critic again, and finds nothing more.
LEMMA PassIsFinalInv == PlanInv => PassIsFinal
<1> SUFFICES ASSUME PlanInv, phase = "refused", reviewer = "critic", Passes(review)
             PROVE  Refusals(plans, review, facts) \subseteq
                      {"evidence_conflict"} \union
                      IF planner = "model" THEN {"incomplete_trip_dates"} ELSE {}
  BY DEF PassIsFinal
<1>1. /\ DOMAIN review.codes = PlanIds(plans)
      /\ \A plan \in ToSet(plans) : Codes(plan, facts) = {}
  BY PassMeansNoCodes DEF PlanInv, ReviewInv
<1>2. \A plan \in ToSet(plans) : Validated(plan, facts) = {}
  BY <1>1 DEF Codes
<1>3. facts.destination.evidence \union facts.mobility.evidence # {}
  BY TripPlanningAssumption DEF PlanInv, FactsOK
<1>4. \/ planner = "model"
      \/ \A plan \in ToSet(plans) :
           [d \in DOMAIN plan.days |-> plan.days[d].date] = [d \in 1..facts.request.days |-> d]
  <2> SUFFICES ASSUME planner # "model"
               PROVE  \A plan \in ToSet(plans) :
                        [d \in DOMAIN plan.days |-> plan.days[d].date]
                          = [d \in 1..facts.request.days |-> d]
    OBVIOUS
  <2>1. PICK b \in Variants("balanced", Given), e \in Variants("economy", Given),
             r \in Variants("relaxed", Given) : plans = <<b, e, r>>
    BY DEF PlanInv, Planned
  <2>2. ToSet(plans) = {b, e, r}
    BY <2>1 DEF ToSet
  <2>3. Given.request = facts.request
    BY DEF Given
  <2> QED
    BY <2>2, <2>3, VariantDates
<1> QED
  BY <1>1, <1>2, <1>3, <1>4 DEF Refusals, When

\* Plans that a review by the critic passed are not refused by the aggregator: its
\* tests are those of the critic (final_aggregator.py, critic_risk.py).
THEOREM PassIsFinalHolds == Spec => []PassIsFinal
BY PlanInvariance, PassIsFinalInv, PTL

-----------------------------------------------------------------------------
(* One day of the optimizer *)

\* What the contracts say of the facts that an agent is given.
GivenOK(f) ==
  /\ RequestIsValid(f.request)
  /\ IsSequence(f.places)
  /\ \A place \in ToSet(f.places) : PlaceIsValid(place)
  /\ NoRepeats([k \in DOMAIN f.places |-> f.places[k].id])
  /\ IsSequence(f.routes)
  /\ \A route \in ToSet(f.routes) : RouteIsValid(route)

\* The facts of a run are such facts.
LEMMA GivenIsOK == FactsOK => GivenOK(Given)
<1> SUFFICES ASSUME FactsOK PROVE GivenOK(Given)
  OBVIOUS
<1>1. facts.request \in Requests /\ facts.destination \in Destinations /\ facts.routes \in Matrices
  BY DEF FactsOK
<1>2. /\ Given.request = facts.request /\ Given.places = facts.destination.places
      /\ Given.routes = facts.routes
  BY DEF Given
<1>3. RequestIsValid(facts.request)
  BY <1>1, TripPlanningAssumption
<1>4. /\ IsSequence(facts.destination.places)
      /\ \A place \in ToSet(facts.destination.places) : PlaceIsValid(place)
      /\ NoRepeats([k \in DOMAIN facts.destination.places |-> facts.destination.places[k].id])
  BY <1>1, TripPlanningAssumption
<1>5. IsSequence(facts.routes) /\ \A route \in ToSet(facts.routes) : RouteIsValid(route)
  BY <1>1, TripPlanningAssumption
<1> QED
  BY <1>2, <1>3, <1>4, <1>5 DEF GivenOK

\* The walk that comes first exists.
LEMMA FirstOrderIsOne ==
  ASSUME NEW n \in Nat, NEW orders \in SUBSET [1..n -> Nat], orders # {}
  PROVE  FirstOrder(orders) \in orders
<1> DEFINE Same(o, p, k) == \A j \in 1..k : o[j] = p[j]
           Before(o, p, k) == \E i \in 1..k : o[i] < p[i] /\ \A j \in 1..(i - 1) : o[j] = p[j]
           Leads(o, k) == \A p \in orders : Same(o, p, k) \/ Before(o, p, k)
           Good == {k \in 0..n : \E o \in orders : Leads(o, k)}
<1>1. 0 \in Good
  <2>1. PICK o \in orders : TRUE
    OBVIOUS
  <2>2. Leads(o, 0)
    OBVIOUS
  <2> QED
    BY <2>1, <2>2
<1>2. ASSUME NEW k \in 1..n, k - 1 \in Good PROVE k \in Good
  <2>1. PICK o \in orders : Leads(o, k - 1)
    BY <1>2
  <2> DEFINE alike == {p \in orders : Same(o, p, k - 1)}
             nexts == {p[k] : p \in alike}
  <2>2. o \in alike /\ nexts \in SUBSET Nat
    OBVIOUS
  <2>3. PICK m \in nexts : \A x \in nexts : m <= x
    BY <2>2, NatMin
  <2>4. PICK q \in alike : q[k] = m
    BY <2>3
  <2>5. ASSUME NEW p \in orders PROVE Same(q, p, k) \/ Before(q, p, k)
    <3>0. q[k] \in Nat /\ p[k] \in Nat
      BY <2>4
    <3>1. CASE Same(o, p, k - 1)
      <4>1. q[k] <= p[k]
        BY <2>3, <2>4, <3>1
      <4>2. \A j \in 1..(k - 1) : q[j] = p[j]
        BY <2>4, <3>1
      <4>3. CASE q[k] = p[k]
        <5>1. \A j \in 1..k : j = k \/ j \in 1..(k - 1)
          OBVIOUS
        <5> QED
          BY <4>2, <4>3, <5>1
      <4>4. CASE q[k] < p[k]
        BY <4>2, <4>4
      <4>5. q[k] = p[k] \/ q[k] < p[k]
        BY <3>0, <4>1
      <4> HIDE DEF Same, Before
      <4> QED
        BY <4>3, <4>4, <4>5
    <3>2. CASE Before(o, p, k - 1)
      <4>1. PICK i \in 1..(k - 1) : o[i] < p[i] /\ \A j \in 1..(i - 1) : o[j] = p[j]
        BY <3>2
      <4>2. q[i] = o[i] /\ \A j \in 1..(i - 1) : q[j] = o[j]
        BY <2>4
      <4>3. i \in 1..k /\ q[i] < p[i] /\ \A j \in 1..(i - 1) : q[j] = p[j]
        BY <4>1, <4>2
      <4> QED
        BY <4>3
    <3> QED
      BY <2>1, <3>1, <3>2
  <2>6. Leads(q, k)
    BY <2>5
  <2>7. q \in orders
    BY <2>4
  <2> HIDE DEF Leads
  <2> QED
    BY <2>6, <2>7
<1>3. n \in Good
  <2> HIDE DEF Good
  <2>1. \A k \in 0..n : k \in Good
    BY <1>1, <1>2, UpTo
  <2> QED
    BY <2>1
<1>4. PICK o \in orders : Leads(o, n)
  BY <1>3
<1>5. DOMAIN o = 1..n
  OBVIOUS
<1>6. \A p \in orders : o = p \/ Before(o, p, n)
  <2> SUFFICES ASSUME NEW p \in orders, Same(o, p, n) PROVE o = p
    BY <1>4
  <2> QED
    OBVIOUS
<1>7. \A p \in orders :
        o = p \/ \E k \in DOMAIN o : o[k] < p[k] /\ \A j \in 1..(k - 1) : o[j] = p[j]
  BY <1>5, <1>6
<1>8. \E w \in orders : \A p \in orders :
        w = p \/ \E k \in DOMAIN w : w[k] < p[k] /\ \A j \in 1..(k - 1) : w[j] = p[j]
  BY <1>7
<1> QED
  BY <1>8 DEF FirstOrder

\* The route between two places that are connected is one of the routes.
LEMMA LegConnects ==
  ASSUME NEW routes, IsSequence(routes), NEW from, NEW to, Connected(routes, from, to)
  PROVE  LET leg == Leg(routes, from, to)
         IN  leg \in ToSet(routes) /\ leg.from = from /\ leg.to = to
<1> DEFINE those == {i \in 1..Len(routes) : routes[i].from = from /\ routes[i].to = to}
<1>1. Len(routes) \in Nat /\ DOMAIN routes = 1..Len(routes)
  BY DEF IsSequence
<1>2. those \in SUBSET (0..Len(routes)) /\ those # {}
  BY <1>1 DEF Connected, ToSet
<1>3. Max(those) \in those
  BY <1>1, <1>2, MaxUpTo
<1>4. SelectLastInSeq(routes, LAMBDA route : route.from = from /\ route.to = to) = Max(those)
  BY <1>2 DEF SelectLastInSeq
<1> QED
  BY <1>1, <1>3, <1>4 DEF Leg, ToSet

\* What a day's slots may be: times, and those of the appointments.
Slots(f) == [start : Int, end : Int] \union {a.at : a \in ToSet(f.request.appointments)}

\* Slots begin and end at times.
LEMMA SlotsAreTimes ==
  ASSUME NEW f, GivenOK(f)
  PROVE  \A s \in Slots(f) : s.start \in Int /\ s.end \in Int
BY DEF Slots, GivenOK, RequestIsValid, WindowIsValid, Times

\* A slot that is not booked begins on arrival or when the place opens.
LEMMA SlotTyped ==
  ASSUME NEW f, GivenOK(f), NEW strategy, NEW date, NEW place, PlaceIsValid(place),
         NEW arrival \in Int
  PROVE  Slot(strategy, f.request, date, place, arrival) \in Slots(f)
<1> DEFINE booked == AppointmentAt(f.request, date, place)
           opens == {period.opens : period \in Opening(place, date)}
<1>1. CASE booked # {}
  <2>1. (CHOOSE a \in booked : TRUE) \in booked
    BY <1>1
  <2>2. booked \subseteq ToSet(f.request.appointments)
    BY DEF AppointmentAt
  <2> QED
    BY <1>1, <2>1, <2>2 DEF Slot, Slots
<1>2. CASE booked = {}
  <2>1. opens \subseteq Int /\ \A x, y \in opens : x = y
    <3>1. DOMAIN place.hours \subseteq Int
      BY DEF PlaceIsValid, IsSequence
    <3>2. \A p, q \in Opening(place, date) : p \in ToSet(place.hours) /\ p = q
      BY <3>1 DEF Opening, ToSet
    <3>3. \A p \in ToSet(place.hours) : p.opens \in Int
      BY PlanContractsAssumption DEF PlaceIsValid, Times
    <3> QED
      BY <3>2, <3>3
  <2>2. Max({arrival} \union opens) \in Int
    <3> HIDE DEF opens
    <3> QED
      BY <2>1, MaxOfTwo
  <2>3. Stay(strategy, place) \in Int
    BY DEF Stay, PlaceIsValid
  <2> DEFINE start == Max({arrival} \union opens)
  <2>4. Slot(strategy, f.request, date, place, arrival)
          = [start |-> start, end |-> start + Stay(strategy, place)]
    BY <1>2 DEF Slot
  <2> HIDE DEF start
  <2>5. start \in Int
    BY <2>2 DEF start
  <2> QED
    BY <2>3, <2>4, <2>5 DEF Slots
<1> QED
  BY <1>1, <1>2

\* One arrives at a time.
LEMMA ArrivalTyped ==
  ASSUME NEW routes, IsSequence(routes), \A route \in ToSet(routes) : RouteIsValid(route),
         NEW ordered, NEW k \in Nat \ {0}, NEW left \in Int,
         k # 1 => Connected(routes, ordered[k - 1].id, ordered[k].id)
  PROVE  Arrival(routes, ordered, k, left) \in Int
<1>1. CASE k = 1
  BY <1>1 DEF Arrival
<1>2. CASE k # 1
  <2> DEFINE leg == Leg(routes, ordered[k - 1].id, ordered[k].id)
  <2>1. leg \in ToSet(routes)
    BY <1>2, LegConnects
  <2>2. leg.minutes \in Nat
    BY <2>1 DEF RouteIsValid
  <2>3. Arrival(routes, ordered, k, left) = left + leg.minutes
    BY <1>2 DEF Arrival
  <2> HIDE DEF leg
  <2> QED
    BY <2>2, <2>3
<1> QED
  BY <1>1, <1>2

\* Places in an order that the routes allow.
Walk(f, ordered) ==
  /\ ordered \in Seq(ToSet(f.places))
  /\ \A k \in 2..Len(ordered) : Connected(f.routes, ordered[k - 1].id, ordered[k].id)

\* Each slot follows from the one before it.
IsTimetable(strategy, f, date, ordered, slot) ==
  /\ slot[0] = [start |-> f.request.window.start, end |-> f.request.window.start]
  /\ \A k \in 1..Len(ordered) :
       slot[k] = Slot(strategy, f.request, date, ordered[k],
                      Arrival(f.routes, ordered, k, slot[k - 1].end))
  /\ \A k \in 0..Len(ordered) : slot[k].start \in Int /\ slot[k].end \in Int

\* The timetable of a walk is defined by its recursion.
LEMMA TimetableIsOne ==
  ASSUME NEW f, GivenOK(f), NEW strategy, NEW date, NEW ordered, Walk(f, ordered)
  PROVE  IsTimetable(strategy, f, date, ordered, Timetable(strategy, f, date, ordered))
<1> DEFINE n == Len(ordered)
           V == Slots(f)
           v0 == [start |-> f.request.window.start, end |-> f.request.window.start]
           Next1(k, s) == Slot(strategy, f.request, date, ordered[k],
                               Arrival(f.routes, ordered, k, s.end))
           step == [k \in 1..n |-> [s \in V |-> Next1(k, s)]]
           Eqn(g) == g = [k \in 0..n |-> IF k = 0 THEN v0 ELSE Next1(k, g[k - 1])]
           slot == Timetable(strategy, f, date, ordered)
<1>1. n \in Nat /\ DOMAIN ordered = 1..n /\ \A k \in 1..n : ordered[k] \in ToSet(f.places)
  BY DEF Walk
<1>2. v0 \in V
  BY DEF GivenOK, RequestIsValid, WindowIsValid, Times, Slots
<1>3. ASSUME NEW k \in 1..n, NEW s \in V PROVE Next1(k, s) \in V
  <2>1. s.end \in Int
    BY SlotsAreTimes
  <2>2. PlaceIsValid(ordered[k])
    BY <1>1 DEF GivenOK
  <2>3. k \in Nat \ {0} /\ (k # 1 => Connected(f.routes, ordered[k - 1].id, ordered[k].id))
    BY <1>1 DEF Walk
  <2>4. Arrival(f.routes, ordered, k, s.end) \in Int
    <3>1. IsSequence(f.routes) /\ \A route \in ToSet(f.routes) : RouteIsValid(route)
      BY DEF GivenOK
    <3> QED
      BY <2>1, <2>3, <3>1, ArrivalTyped
  <2> QED
    BY <2>2, <2>4, SlotTyped
<1> HIDE DEF V, v0, Next1, n
<1>4. step \in [1..n -> [V -> V]]
  BY <1>3
<1>5. PICK g : IsRun(g, n, V, v0, step)
  <2>1. n \in Nat
    BY <1>1
  <2> HIDE DEF step
  <2> QED
    BY <1>2, <1>4, <2>1, Recursion
<1>6. Eqn(g)
  <2>1. ASSUME NEW k \in 1..n
        PROVE  g[k] = Next1(k, g[k - 1])
    <3>1. k - 1 \in 0..n
      BY <1>1, <2>1
    <3> QED
      BY <1>5, <3>1 DEF IsRun
  <2> HIDE DEF step
  <2>2. \A k \in 0..n : g[k] = IF k = 0 THEN v0 ELSE Next1(k, g[k - 1])
    BY <1>1, <1>5, <2>1 DEF IsRun
  <2> QED
    BY <1>5, <2>2 DEF IsRun
<1>7. slot = CHOOSE h : Eqn(h)
  BY DEF Timetable, Next1, v0, n
<1>8. Eqn(slot)
  <2> HIDE DEF Eqn, slot
  <2> QED
    BY <1>6, <1>7
<1>9. slot[0] = v0 /\ \A k \in 1..n : slot[k] = Next1(k, slot[k - 1])
  <2> HIDE DEF slot
  <2> QED
    BY <1>1, <1>8
<1>10. \A k \in 0..n : slot[k] \in V
  <2> DEFINE Good == {k \in 0..n : slot[k] \in V}
  <2> HIDE DEF slot
  <2>1. 0 \in Good
    BY <1>1, <1>2, <1>9
  <2>2. \A k \in 1..n : k - 1 \in Good => k \in Good
    BY <1>1, <1>3, <1>9
  <2> HIDE DEF Good
  <2>3. \A k \in 0..n : k \in Good
    BY <1>1, <2>1, <2>2, UpTo
  <2> QED
    BY <2>3 DEF Good
<1> HIDE DEF slot
<1>11. \A k \in 0..n : slot[k].start \in Int /\ slot[k].end \in Int
  BY <1>10, SlotsAreTimes DEF V
<1> QED
  BY <1>9, <1>11 DEF slot, Next1, v0, n, IsTimetable

-----------------------------------------------------------------------------
(* The days get their places *)

\* Nothing is in two buckets, or twice in one.
NoneTwice(b) ==
  \A d, e \in DOMAIN b : \A i \in DOMAIN b[d], j \in DOMAIN b[e] :
    b[d][i] = b[e][j] => d = e /\ i = j

\* What is in the buckets.
Dealt(b) == UNION {ToSet(b[d]) : d \in DOMAIN b}

\* c are the buckets b with x, which is in none of them, put into bucket d.
Adds(c, b, d, x, days, S) ==
  /\ b \in [1..days -> Seq(S)] /\ c \in [1..days -> Seq(S)]
  /\ d \in 1..days /\ x \in S /\ x \notin Dealt(b)
  /\ c[d] = Append(b[d], x)
  /\ \A e \in 1..days : e # d => c[e] = b[e]

\* What was dealt once stays dealt once when something new is put into a bucket.
LEMMA DealOne ==
  ASSUME NEW c, NEW b, NEW d, NEW x, NEW days, NEW S, Adds(c, b, d, x, days, S), NoneTwice(b)
  PROVE  /\ NoneTwice(c)
         /\ \A e \in 1..days : \A y : y \in ToSet(c[e]) <=> y \in ToSet(b[e]) \/ (e = d /\ y = x)
<1> USE DEF Adds
<1> DEFINE n == Len(b[d])
<1>1. /\ n \in Nat /\ c[d] = Append(b[d], x) /\ \A e \in 1..days : e # d => c[e] = b[e]
  OBVIOUS
<1>2. DOMAIN c[d] = 1..(n + 1) /\ c[d][n + 1] = x /\ \A i \in 1..n : c[d][i] = b[d][i]
  BY <1>1
<1>3. DOMAIN b[d] = 1..n /\ \A e \in 1..days : \A i \in DOMAIN b[e] : b[e][i] # x
  BY DEF Dealt, ToSet
<1>4. DOMAIN c = 1..days /\ DOMAIN b = 1..days
  BY <1>1
<1> HIDE DEF n
<1>5. ASSUME NEW e \in 1..days, NEW y
      PROVE  y \in ToSet(c[e]) <=> y \in ToSet(b[e]) \/ (e = d /\ y = x)
  <2>1. CASE e = d
    <3>1. \A i \in 1..(n + 1) : i = n + 1 \/ i \in 1..n
      BY <1>1
    <3>2. n + 1 \in 1..(n + 1) /\ \A i \in 1..n : i \in 1..(n + 1)
      BY <1>1
    <3> QED
      BY <1>2, <1>3, <2>1, <3>1, <3>2 DEF ToSet
  <2>2. CASE e # d
    BY <1>1, <2>2
  <2> QED
    BY <2>1, <2>2
<1>6. NoneTwice(c)
  <2> SUFFICES ASSUME NEW e \in 1..days, NEW g \in 1..days, NEW i \in DOMAIN c[e],
                      NEW j \in DOMAIN c[g], c[e][i] = c[g][j]
               PROVE  e = g /\ i = j
    BY <1>4 DEF NoneTwice
  <2>1. \A h \in 1..days : \A k \in DOMAIN c[h] :
          \/ h = d /\ k = n + 1 /\ c[h][k] = x
          \/ k \in DOMAIN b[h] /\ c[h][k] = b[h][k] /\ c[h][k] # x
    <3> SUFFICES ASSUME NEW h \in 1..days, NEW k \in DOMAIN c[h]
                 PROVE  \/ h = d /\ k = n + 1 /\ c[h][k] = x
                        \/ k \in DOMAIN b[h] /\ c[h][k] = b[h][k] /\ c[h][k] # x
      OBVIOUS
    <3>1. CASE h # d
      BY <1>1, <1>3, <3>1
    <3>2. CASE h = d
      <4>1. k = n + 1 \/ k \in 1..n
        BY <1>1, <1>2, <3>2
      <4> QED
        BY <1>2, <1>3, <3>2, <4>1
    <3> QED
      BY <3>1, <3>2
  <2>2. CASE c[e][i] = x
    <3>1. e = d /\ i = n + 1
      BY <2>1, <2>2
    <3>2. g = d /\ j = n + 1
      BY <2>1, <2>2
    <3> QED
      BY <3>1, <3>2
  <2>3. CASE c[e][i] # x
    <3>1. i \in DOMAIN b[e] /\ j \in DOMAIN b[g] /\ b[e][i] = b[g][j]
      BY <2>1, <2>3
    <3> QED
      BY <1>4, <3>1 DEF NoneTwice
  <2> QED
    BY <2>2, <2>3
<1> QED
  BY <1>1, <1>5, <1>6

\* One of the buckets has the fewest places.
LEMMA EmptiestIsOne ==
  ASSUME NEW days \in Nat \ {0}, NEW S, NEW b \in [1..days -> Seq(S)]
  PROVE  Emptiest(b) \in 1..days
<1> DEFINE lengths == {Len(b[d]) : d \in 1..days}
           least == {d \in DOMAIN b : \A e \in DOMAIN b : Len(b[d]) <= Len(b[e])}
<1>1. lengths \in SUBSET Nat /\ lengths # {}
  <2>1. \A d \in 1..days : Len(b[d]) \in Nat
    OBVIOUS
  <2>2. 1 \in 1..days
    OBVIOUS
  <2>3. Len(b[1]) \in lengths
    BY <2>2
  <2> HIDE DEF lengths
  <2>4. lengths \subseteq Nat
    BY <2>1 DEF lengths
  <2> QED
    BY <2>3, <2>4
<1>2. PICK m \in lengths : \A l \in lengths : m <= l
  BY <1>1, NatMin
<1>3. PICK d \in 1..days : Len(b[d]) = m
  BY <1>2
<1>4. d \in least
  BY <1>2, <1>3
<1>5. least \in SUBSET Nat /\ least \subseteq 1..days
  OBVIOUS
<1>6. Min(least) \in least
  BY <1>4, <1>5, MinUpTo
<1> QED
  BY <1>5, <1>6 DEF Emptiest

\* In a request that is not blocked no two appointments are at one place.
LEMMA AppointmentsDiffer ==
  ASSUME NEW f, GivenOK(f), ~ Blocked(f)
  PROVE  LET appointment == f.request.appointments
         IN  \A a, b \in 1..Len(appointment) :
               appointment[a].place = appointment[b].place => a = b
<1> DEFINE appointment == f.request.appointments
           n == Len(appointment)
           g == [a \in 1..n |-> appointment[a].place]
<1>1. n \in Nat /\ DOMAIN appointment = 1..n
  BY DEF GivenOK, RequestIsValid, IsSequence
<1>2. Booked(f.request) = {appointment[a].place : a \in 1..n}
  BY <1>1 DEF Booked, ToSet
<1>3. g \in Surjection(1..n, Booked(f.request))
  BY <1>2 DEF Surjection
<1>4. IsFiniteSet(1..n) /\ Cardinality(1..n) = n
  BY <1>1, FS_Interval
<1>5. Cardinality(Booked(f.request)) = n
  BY DEF Blocked
<1>6. g \in Injection(1..n, Booked(f.request))
  <2> HIDE DEF g, n
  <2> QED
    BY <1>3, <1>4, <1>5, FS_Surjection
<1>7. \A a, b \in 1..n : g[a] = g[b] => a = b
  BY <1>6 DEF Injection, IsInjective
<1> QED
  BY <1>7

\* What is selected: places that are not excluded, those required among them.
LEMMA SelectionFacts ==
  ASSUME NEW f, GivenOK(f), ~ Blocked(f), NEW strategy, NEW S \in Selections(strategy, f)
  PROVE  /\ S \subseteq Candidates(f) /\ S \subseteq 1..Len(f.places) /\ IsFiniteSet(S)
         /\ Len(f.places) \in Nat
         /\ \A j, k \in S : f.places[j].id = f.places[k].id => j = k
         /\ \A name \in Required(f.request) : \E k \in S : f.places[k].id = name
<1>1. S \subseteq Candidates(f) /\ Admissible(strategy, f, S)
  BY DEF Selections
<1>2. Len(f.places) \in Nat /\ DOMAIN f.places = 1..Len(f.places)
  BY DEF GivenOK, IsSequence
<1>3. S \subseteq 1..Len(f.places)
  BY <1>1, <1>2 DEF Candidates
<1>4. IsFiniteSet(S)
  <2>1. IsFiniteSet(1..Len(f.places))
    BY <1>2, FS_Interval
  <2> QED
    BY <1>3, <2>1, FS_Subset
<1>5. \A j, k \in S : f.places[j].id = f.places[k].id => j = k
  BY <1>2, <1>3 DEF GivenOK, NoRepeats
<1>6. ASSUME NEW name \in Required(f.request)
      PROVE  \E k \in S : f.places[k].id = name
  <2>1. PICK place \in CandidatePlaces(f) : place.id = name
    BY DEF Blocked
  <2>2. PICK k \in Candidates(f) : place = f.places[k]
    BY DEF CandidatePlaces
  <2>3. k \in S
    BY <1>1, <2>1, <2>2 DEF Admissible
  <2> QED
    BY <2>1, <2>2, <2>3
<1> QED
  BY <1>1, <1>2, <1>3, <1>4, <1>5, <1>6

\* The places of the first a appointments are in the buckets b.
BookedUpTo(f, S, b, a) ==
  /\ b \in [1..f.request.days -> Seq(S)]
  /\ NoneTwice(b)
  /\ \A d \in 1..f.request.days : \A k \in S :
       k \in ToSet(b[d])
         <=> \E c \in 1..a : /\ f.request.appointments[c].date = d
                            /\ f.request.appointments[c].place = f.places[k].id

\* The places with an appointment go into the bucket of its date.
LEMMA BookedBucketsHold ==
  ASSUME NEW f, GivenOK(f), ~ Blocked(f), NEW strategy, NEW S \in Selections(strategy, f),
         NEW m \in 0..Len(f.request.appointments)
  PROVE  BookedUpTo(f, S, BookedBuckets(f, S)[m], m)
<1> DEFINE appointment == f.request.appointments
           n == Len(appointment)
           days == f.request.days
           V == [1..days -> Seq(S)]
           v0 == [d \in 1..days |-> <<>>]
           named(name) == CHOOSE k \in S : f.places[k].id = name
           Next1(a, b) == [b EXCEPT ![appointment[a].date] = Append(@, named(appointment[a].place))]
           step == [a \in 1..n |-> [b \in V |-> Next1(a, b)]]
           Eqn(g) == g = [a \in 0..n |-> IF a = 0 THEN v0 ELSE Next1(a, g[a - 1])]
           buckets == BookedBuckets(f, S)
<1>0. /\ \A j, k \in S : f.places[j].id = f.places[k].id => j = k
      /\ \A name \in Required(f.request) : \E k \in S : f.places[k].id = name
  BY SelectionFacts
<1>1. n \in Nat /\ \A a \in 1..n : appointment[a] \in ToSet(appointment)
  BY DEF GivenOK, RequestIsValid, IsSequence, ToSet
<1>2. v0 \in V
  OBVIOUS
<1>3. \A a \in 1..n : appointment[a].date \in 1..days
  BY <1>1 DEF GivenOK, RequestIsValid
<1>4. ASSUME NEW i \in 1..n
      PROVE  /\ named(appointment[i].place) \in S
             /\ f.places[named(appointment[i].place)].id = appointment[i].place
  <2>1. appointment[i].place \in Required(f.request)
    BY <1>1 DEF Required, Booked
  <2>2. \E k \in S : f.places[k].id = appointment[i].place
    BY <1>0, <2>1
  <2> QED
    BY <2>2
<1>5. ASSUME NEW i \in 1..n, NEW b \in V
      PROVE  Next1(i, b) \in V
  <2> HIDE DEF named, n, appointment
  <2> QED
    BY <1>3, <1>4, <1>5
<1>6. buckets = CHOOSE g : Eqn(g)
  BY DEF BookedBuckets
<1> HIDE DEF V, v0, Next1, buckets, n
<1>7. step \in [1..n -> [V -> V]]
  BY <1>5
<1>8. PICK g : IsRun(g, n, V, v0, step)
  <2>1. n \in Nat
    BY <1>1
  <2> HIDE DEF step
  <2> QED
    BY <1>2, <1>7, <2>1, Recursion
<1>9. Eqn(g)
  <2>1. ASSUME NEW k \in 1..n
        PROVE  g[k] = Next1(k, g[k - 1])
    <3>1. k - 1 \in 0..n
      BY <1>1, <2>1
    <3> QED
      BY <1>8, <3>1 DEF IsRun
  <2> HIDE DEF step
  <2>2. \A k \in 0..n : g[k] = IF k = 0 THEN v0 ELSE Next1(k, g[k - 1])
    BY <1>1, <1>8, <2>1 DEF IsRun
  <2> QED
    BY <1>8, <2>2 DEF IsRun
<1>10. Eqn(buckets)
  <2> HIDE DEF Eqn
  <2> QED
    BY <1>6, <1>9
<1>11. buckets[0] = v0 /\ \A a \in 1..n : buckets[a] = Next1(a, buckets[a - 1])
  BY <1>1, <1>10
<1> DEFINE Holds(i) == BookedUpTo(f, S, buckets[i], i)
           Good == {i \in 0..n : Holds(i)}
<1>12. 0 \in Good
  <2>1. v0 \in V /\ NoneTwice(v0) /\ \A d \in 1..days : ToSet(v0[d]) = {}
    BY <1>2 DEF v0, NoneTwice, ToSet
  <2>2. \A c : c \notin 1..0
    OBVIOUS
  <2>3. \A d \in 1..days : \A k \in S :
          k \in ToSet(v0[d])
            <=> \E c \in 1..0 : /\ f.request.appointments[c].date = d
                               /\ f.request.appointments[c].place = f.places[k].id
    BY <2>1, <2>2
  <2>4. BookedUpTo(f, S, v0, 0)
    BY <2>1, <2>3 DEF BookedUpTo, V
  <2>5. Holds(0)
    BY <1>11, <2>4
  <2> HIDE DEF Holds
  <2> QED
    BY <1>1, <2>5
<1>13. ASSUME NEW i \in 1..n, i - 1 \in Good PROVE i \in Good
  <2> DEFINE prior == buckets[i - 1]
             spot == named(appointment[i].place)
             date == appointment[i].date
  <2>1. Holds(i - 1)
    BY <1>13
  <2>2. spot \in S /\ f.places[spot].id = appointment[i].place /\ date \in 1..days
    BY <1>3, <1>4
  <2>3. prior \in [1..days -> Seq(S)] /\ NoneTwice(prior)
    BY <2>1 DEF BookedUpTo
  <2>4. spot \notin Dealt(prior)
    <3> SUFFICES ASSUME NEW d \in 1..days, spot \in ToSet(prior[d]) PROVE FALSE
      BY <2>3 DEF Dealt
    <3>1. PICK c \in 1..(i - 1) : appointment[c].place = f.places[spot].id
      BY <2>1, <2>2 DEF BookedUpTo
    <3>2. c \in 1..n /\ c # i
      BY <1>1
    <3>3. \A h, j \in 1..n : appointment[h].place = appointment[j].place => h = j
      BY AppointmentsDiffer DEF n
    <3> QED
      BY <2>2, <3>1, <3>2, <3>3
  <2>5. buckets[i] = [prior EXCEPT ![date] = Append(@, spot)]
    BY <1>11 DEF Next1
  <2> HIDE DEF prior, spot, date, named
  <2>A. /\ buckets[i] \in [1..days -> Seq(S)]
        /\ buckets[i][date] = Append(prior[date], spot)
        /\ \A e \in 1..days : e # date => buckets[i][e] = prior[e]
    BY <2>2, <2>3, <2>5
  <2>6. /\ NoneTwice(buckets[i])
        /\ \A e \in 1..days : \A y :
             y \in ToSet(buckets[i][e]) <=> y \in ToSet(prior[e]) \/ (e = date /\ y = spot)
    <3>1. Adds(buckets[i], prior, date, spot, days, S)
      BY <2>2, <2>3, <2>4, <2>A DEF Adds
    <3>0. NoneTwice(prior)
      BY <2>3
    <3>2. NoneTwice(buckets[i])
      BY <3>0, <3>1, DealOne
    <3>3. \A e \in 1..days : \A y :
           y \in ToSet(buckets[i][e]) => y \in ToSet(prior[e]) \/ (e = date /\ y = spot)
      BY <3>0, <3>1, DealOne
    <3>4. \A e \in 1..days : \A y :
           y \in ToSet(prior[e]) \/ (e = date /\ y = spot) => y \in ToSet(buckets[i][e])
      <4>1. \A e \in 1..days : \A y : y \in ToSet(prior[e]) => y \in ToSet(buckets[i][e])
        BY <3>0, <3>1, DealOne
      <4>2. \A e \in 1..days : e = date => spot \in ToSet(buckets[i][e])
        BY <3>0, <3>1, DealOne
      <4> QED
        BY <4>1, <4>2
    <3> QED
      BY <3>2, <3>3, <3>4
  <2>7. ASSUME NEW d \in 1..days, NEW k \in S
        PROVE  k \in ToSet(buckets[i][d])
                 <=> \E c \in 1..i : appointment[c].date = d /\ appointment[c].place = f.places[k].id
    <3>1. \A c : c \in 1..i <=> c \in 1..(i - 1) \/ c = i
      BY <1>1
    <3>2. k \in ToSet(prior[d])
            <=> \E c \in 1..(i - 1) : appointment[c].date = d /\ appointment[c].place = f.places[k].id
      BY <2>1 DEF prior, BookedUpTo
    <3>3. k = spot <=> appointment[i].place = f.places[k].id
      BY <1>0, <2>2
    <3> QED
      BY <2>6, <3>1, <3>2, <3>3 DEF date
  <2>8. Holds(i)
    BY <2>6, <2>7, <2>A DEF BookedUpTo
  <2> HIDE DEF Holds
  <2> QED
    BY <2>8
<1> HIDE DEF Good
<1>14. \A i \in 0..n : i \in Good
  BY <1>1, <1>12, <1>13, UpTo
<1> QED
  BY <1>14 DEF Good, buckets, n

\* The other places are added one by one to what is booked.
LEMMA FilledBucketsHold ==
  ASSUME NEW f, GivenOK(f), ~ Blocked(f), NEW strategy, NEW S \in Selections(strategy, f)
  PROVE  LET booked == BookedBuckets(f, S)[Len(f.request.appointments)]
             buckets == FilledBuckets(f, S)
         IN  \A k \in 0..Len(f.places) :
               /\ buckets[k] \in [1..f.request.days -> Seq(S)]
               /\ NoneTwice(buckets[k])
               /\ Dealt(buckets[k]) = {j \in S : f.places[j].id \in Booked(f.request) \/ j <= k}
               /\ \A d \in 1..f.request.days : ToSet(booked[d]) \subseteq ToSet(buckets[k][d])
<1> DEFINE n == Len(f.places)
           days == f.request.days
           V == [1..days -> Seq(S)]
           v0 == BookedBuckets(f, S)[Len(f.request.appointments)]
           free == {k \in S : f.places[k].id \notin Booked(f.request)}
           Next1(k, b) == IF k \notin free THEN b
                          ELSE [b EXCEPT ![Emptiest(b)] = Append(@, k)]
           step == [k \in 1..n |-> [b \in V |-> Next1(k, b)]]
           Eqn(g) == g = [k \in 0..n |-> IF k = 0 THEN v0 ELSE Next1(k, g[k - 1])]
           buckets == FilledBuckets(f, S)
<1>0. Len(f.request.appointments) \in Nat /\ Len(f.request.appointments) \in 0..Len(f.request.appointments)
  BY DEF GivenOK, RequestIsValid, IsSequence
<1>1. n \in Nat /\ S \subseteq 1..n /\ days \in Nat \ {0}
  BY SelectionFacts DEF GivenOK, RequestIsValid
<1>B. BookedUpTo(f, S, v0, Len(f.request.appointments))
  BY <1>0, BookedBucketsHold
<1>2. v0 \in V /\ NoneTwice(v0)
  BY <1>B DEF BookedUpTo
<1>3. ASSUME NEW b \in V, NEW k \in 1..n
      PROVE  Next1(k, b) \in V
  <2>1. Emptiest(b) \in 1..days
    BY <1>1, EmptiestIsOne
  <2> QED
    BY <2>1
<1>4. buckets = CHOOSE g : Eqn(g)
  BY DEF FilledBuckets
<1>5. Dealt(v0) = {j \in S : f.places[j].id \in Booked(f.request)}
  <2>1. Booked(f.request) = {f.request.appointments[a].place : a \in 1..Len(f.request.appointments)}
    BY DEF Booked, ToSet, GivenOK, RequestIsValid, IsSequence
  <2>2. \A d \in 1..days : \A k \in S :
          k \in ToSet(v0[d]) <=> \E b \in 1..Len(f.request.appointments) :
                                   /\ f.request.appointments[b].date = d
                                   /\ f.request.appointments[b].place = f.places[k].id
    BY <1>B DEF BookedUpTo
  <2>3. \A a \in 1..Len(f.request.appointments) : f.request.appointments[a].date \in 1..days
    <3>1. \A a \in ToSet(f.request.appointments) : a.date \in 1..days
      BY DEF GivenOK, RequestIsValid
    <3>2. DOMAIN f.request.appointments = 1..Len(f.request.appointments)
      BY DEF GivenOK, RequestIsValid, IsSequence
    <3> QED
      BY <3>1, <3>2 DEF ToSet
  <2>4. \A d \in 1..days : ToSet(v0[d]) \subseteq S
    <3> SUFFICES ASSUME NEW d \in 1..days PROVE ToSet(v0[d]) \subseteq S
      OBVIOUS
    <3>1. v0[d] \in Seq(S)
      BY <1>2
    <3> HIDE DEF v0
    <3> QED
      BY <3>1 DEF ToSet
  <2>5. DOMAIN v0 = 1..days
    BY <1>2
  <2> HIDE DEF v0
  <2>6. ASSUME NEW k PROVE k \in Dealt(v0) <=> k \in S /\ f.places[k].id \in Booked(f.request)
    <3>1. k \in Dealt(v0) <=> \E d \in 1..days : k \in ToSet(v0[d])
      BY <2>5 DEF Dealt
    <3>2. ASSUME k \in Dealt(v0) PROVE k \in S /\ f.places[k].id \in Booked(f.request)
      BY <2>1, <2>2, <2>4, <3>1, <3>2
    <3>3. ASSUME k \in S, f.places[k].id \in Booked(f.request) PROVE k \in Dealt(v0)
      <4>1. PICK a \in 1..Len(f.request.appointments) : f.request.appointments[a].place = f.places[k].id
        BY <2>1, <3>3
      <4>2. k \in ToSet(v0[f.request.appointments[a].date])
        BY <2>2, <2>3, <3>3, <4>1
      <4> QED
        BY <2>3, <3>1, <4>2
    <3> QED
      BY <3>2, <3>3
  <2> QED
    BY <2>6
<1> HIDE DEF V, v0, Next1, buckets, n
<1>7. step \in [1..n -> [V -> V]]
  BY <1>3
<1>8. PICK g : IsRun(g, n, V, v0, step)
  <2>1. n \in Nat
    BY <1>1
  <2> HIDE DEF step
  <2> QED
    BY <1>2, <1>7, <2>1, Recursion
<1>9. Eqn(g)
  <2>1. ASSUME NEW k \in 1..n
        PROVE  g[k] = Next1(k, g[k - 1])
    <3>1. k - 1 \in 0..n
      BY <1>1, <2>1
    <3> QED
      BY <1>8, <3>1 DEF IsRun
  <2> HIDE DEF step
  <2>2. \A k \in 0..n : g[k] = IF k = 0 THEN v0 ELSE Next1(k, g[k - 1])
    <3>1. g[0] = v0 /\ \A k \in 0..n : k = 0 \/ k \in 1..n
      BY <1>1, <1>8 DEF IsRun
    <3> QED
      BY <2>1, <3>1
  <2> QED
    BY <1>8, <2>2 DEF IsRun
<1>10. Eqn(buckets)
  <2> HIDE DEF Eqn
  <2> QED
    BY <1>4, <1>9
<1>11. buckets[0] = v0 /\ \A k \in 1..n : buckets[k] = Next1(k, buckets[k - 1])
  BY <1>1, <1>10
<1> DEFINE Holds(k) ==
             /\ buckets[k] \in V
             /\ NoneTwice(buckets[k])
             /\ Dealt(buckets[k]) = {j \in S : f.places[j].id \in Booked(f.request) \/ j <= k}
             /\ \A d \in 1..days : ToSet(v0[d]) \subseteq ToSet(buckets[k][d])
           Good == {k \in 0..n : Holds(k)}
<1>12. 0 \in Good
  <2>1. \A j \in S : ~ (j <= 0)
    BY <1>1
  <2>2. Holds(0)
    BY <1>2, <1>5, <1>11, <2>1
  <2> HIDE DEF Holds
  <2> QED
    BY <1>1, <2>2
<1>13. ASSUME NEW k \in 1..n, k - 1 \in Good PROVE k \in Good
  <2> DEFINE prior == buckets[k - 1]
  <2>1. Holds(k - 1)
    BY <1>13
  <2>2. prior \in [1..days -> Seq(S)] /\ NoneTwice(prior)
    BY <2>1 DEF V
  <2>3. \A j \in S : j <= k <=> j <= k - 1 \/ j = k
    BY <1>1
  <2>4. Holds(k)
    <3>1. CASE k \notin free
      <4>1. buckets[k] = prior
        BY <1>11, <3>1 DEF Next1
      <4>2. \A j \in S : j = k => f.places[j].id \in Booked(f.request)
        BY <3>1
      <4>3. {j \in S : f.places[j].id \in Booked(f.request) \/ j <= k}
              = {j \in S : f.places[j].id \in Booked(f.request) \/ j <= k - 1}
        BY <2>3, <4>2
      <4> QED
        BY <2>1, <4>1, <4>3
    <3>2. CASE k \in free
      <4> DEFINE target == Emptiest(prior)
      <4>1. target \in 1..days
        BY <1>1, <2>2, EmptiestIsOne
      <4>2. buckets[k] = [prior EXCEPT ![target] = Append(@, k)]
        BY <1>11, <3>2 DEF Next1
      <4>3. k \in S /\ k \notin Dealt(prior)
        <5>1. Dealt(prior) = {j \in S : f.places[j].id \in Booked(f.request) \/ j <= k - 1}
          BY <2>1
        <5>2. ~ (k <= k - 1)
          BY <1>1
        <5> QED
          BY <3>2, <5>1, <5>2
      <4> HIDE DEF prior, target
      <4>A. /\ buckets[k] \in [1..days -> Seq(S)]
            /\ buckets[k][target] = Append(prior[target], k)
            /\ \A e \in 1..days : e # target => buckets[k][e] = prior[e]
        BY <2>2, <4>1, <4>2, <4>3
      <4>4. /\ NoneTwice(buckets[k])
            /\ \A e \in 1..days : \A y :
                 y \in ToSet(buckets[k][e]) <=> y \in ToSet(prior[e]) \/ (e = target /\ y = k)
        <5>1. Adds(buckets[k], prior, target, k, days, S)
          BY <2>2, <4>1, <4>3, <4>A DEF Adds
        <5>0. NoneTwice(prior)
          BY <2>2
        <5>2. NoneTwice(buckets[k])
          BY <5>0, <5>1, DealOne
        <5>3. \A e \in 1..days : \A y :
               y \in ToSet(buckets[k][e]) => y \in ToSet(prior[e]) \/ (e = target /\ y = k)
          BY <5>0, <5>1, DealOne
        <5>4. \A e \in 1..days : \A y :
               y \in ToSet(prior[e]) \/ (e = target /\ y = k) => y \in ToSet(buckets[k][e])
          BY <5>0, <5>1, DealOne
        <5> QED
          BY <5>2, <5>3, <5>4
      <4>5. Dealt(buckets[k]) = Dealt(prior) \union {k}
        <5>1. DOMAIN prior = 1..days /\ DOMAIN buckets[k] = 1..days
          BY <2>2, <4>A
        <5> QED
          BY <4>1, <4>4, <5>1 DEF Dealt
      <4>6. Dealt(buckets[k]) = {j \in S : f.places[j].id \in Booked(f.request) \/ j <= k}
        <5>1. Dealt(prior) = {j \in S : f.places[j].id \in Booked(f.request) \/ j <= k - 1}
          BY <2>1 DEF prior
        <5> QED
          BY <2>3, <4>3, <4>5, <5>1
      <4>7. \A e \in 1..days : ToSet(v0[e]) \subseteq ToSet(buckets[k][e])
        BY <2>1, <4>4 DEF prior
      <4> QED
        BY <4>4, <4>6, <4>7, <4>A DEF V
    <3> QED
      BY <3>1, <3>2
  <2> HIDE DEF Holds
  <2> QED
    BY <2>4
<1> HIDE DEF Good
<1>14. \A k \in 0..n : k \in Good
  BY <1>1, <1>12, <1>13, UpTo
<1> QED
  BY <1>14 DEF Good, V, buckets, n, v0

\* Every selected place is in one bucket, once, the booked ones in that of their date.
LEMMA PartitionHolds ==
  ASSUME NEW f, GivenOK(f), ~ Blocked(f), NEW strategy, NEW S \in Selections(strategy, f)
  PROVE  LET bucket == Partition(f, S)
         IN  /\ bucket \in [1..f.request.days -> Seq(S)]
             /\ NoneTwice(bucket)
             /\ Dealt(bucket) = S
             /\ \A a \in ToSet(f.request.appointments) :
                  \E k \in ToSet(bucket[a.date]) : f.places[k].id = a.place
<1> DEFINE n == Len(f.places)
           m == Len(f.request.appointments)
           bucket == Partition(f, S)
<1>1. n \in Nat /\ S \subseteq 1..n /\ n \in 0..n
  BY SelectionFacts
<1>2. m \in Nat /\ m \in 0..m /\ DOMAIN f.request.appointments = 1..m
  BY DEF GivenOK, RequestIsValid, IsSequence
<1>3. /\ bucket \in [1..f.request.days -> Seq(S)]
      /\ NoneTwice(bucket)
      /\ Dealt(bucket) = {j \in S : f.places[j].id \in Booked(f.request) \/ j <= n}
      /\ \A d \in 1..f.request.days : ToSet(BookedBuckets(f, S)[m][d]) \subseteq ToSet(bucket[d])
  BY <1>1, FilledBucketsHold DEF Partition
<1>4. Dealt(bucket) = S
  <2>1. \A j \in S : j <= n
    BY <1>1
  <2> HIDE DEF bucket, n
  <2> QED
    BY <1>3, <2>1
<1>5. ASSUME NEW a \in ToSet(f.request.appointments)
      PROVE  \E k \in ToSet(bucket[a.date]) : f.places[k].id = a.place
  <2>1. PICK i \in 1..m : a = f.request.appointments[i]
    BY <1>2 DEF ToSet
  <2>2. a.date \in 1..f.request.days
    BY DEF GivenOK, RequestIsValid
  <2>3. PICK k \in S : f.places[k].id = a.place
    <3>1. a.place \in Required(f.request)
      BY DEF Required, Booked
    <3> QED
      BY <3>1, SelectionFacts
  <2>4. k \in ToSet(BookedBuckets(f, S)[m][a.date])
    <3>1. BookedUpTo(f, S, BookedBuckets(f, S)[m], m)
      BY <1>2, BookedBucketsHold
    <3> QED
      BY <2>1, <2>2, <2>3, <3>1 DEF BookedUpTo
  <2> HIDE DEF bucket, m
  <2> QED
    BY <1>3, <2>2, <2>3, <2>4
<1> QED
  BY <1>3, <1>4, <1>5

-----------------------------------------------------------------------------
(* The plans of the optimizer *)

\* The activities of a day.
ItemsOf(strategy, f, date, ordered) ==
  [k \in DOMAIN ordered |->
     ItemAt(strategy, f, date, ordered, Timetable(strategy, f, date, ordered), k)]

\* A day that is the walk through these places in this order.
DayShape(strategy, f, date, ordered, day) ==
  /\ Walk(f, ordered)
  /\ DayFits(f, date, ordered, Timetable(strategy, f, date, ordered))
  /\ day = [date |-> date, items |-> ItemsOf(strategy, f, date, ordered),
            cost |-> CostTotal(ToSet(ItemsOf(strategy, f, date, ordered)), f.request.budget.currency)]

\* A day of the optimizer is a walk through its places in some order.
LEMMA ScheduleShape ==
  ASSUME NEW f, GivenOK(f), NEW strategy, NEW date, NEW places \in Seq(ToSet(f.places)),
         NEW day \in Schedule(strategy, f, date, places)
  PROVE  \E o \in Bijection(1..Len(places), 1..Len(places)) :
           DayShape(strategy, f, date, [k \in 1..Len(places) |-> places[o[k]]], day)
<1> DEFINE n == Len(places)
           orders == Orders(places, f.routes)
           first == FirstOrder(orders)
           ordered == [k \in 1..n |-> places[first[k]]]
<1>1. n \in Nat /\ DOMAIN places = 1..n /\ \A k \in 1..n : places[k] \in ToSet(f.places)
  OBVIOUS
<1>2. orders # {} /\ orders \subseteq Bijection(1..n, 1..n)
  BY <1>1 DEF Schedule, Orders
<1>3. orders \in SUBSET [1..n -> Nat]
  BY <1>1, <1>2 DEF Bijection, Injection
<1>4. first \in orders
  <2> HIDE DEF orders, n
  <2> QED
    BY <1>1, <1>2, <1>3, FirstOrderIsOne
<1>5. first \in Bijection(1..n, 1..n)
  BY <1>2, <1>4
<1>6. \A k \in 1..n : first[k] \in 1..n
  BY <1>5 DEF Bijection, Injection
<1>7. ordered \in Seq(ToSet(f.places)) /\ Len(ordered) = n /\ DOMAIN ordered = 1..n
  <2>1. ordered \in [1..n -> ToSet(f.places)]
    BY <1>1, <1>6
  <2> HIDE DEF ordered
  <2> QED
    BY <1>1, <2>1
<1>8. \A k \in 2..n : Connected(f.routes, ordered[k - 1].id, ordered[k].id)
  <2> SUFFICES ASSUME NEW k \in 2..n
               PROVE  Connected(f.routes, ordered[k - 1].id, ordered[k].id)
    OBVIOUS
  <2>1. k \in (1..n) \ {1} /\ k - 1 \in 1..n
    BY <1>1
  <2>2. Connected(f.routes, places[first[k - 1]].id, places[first[k]].id)
    BY <1>1, <1>4, <2>1 DEF Orders
  <2> QED
    BY <2>1, <2>2
<1>9. Walk(f, ordered)
  BY <1>7, <1>8 DEF Walk
<1>10. ordered = [k \in DOMAIN places |-> places[first[k]]]
  BY <1>1
<1>11. DayShape(strategy, f, date, ordered, day)
  <2> HIDE DEF orders, first
  <2>1. /\ DayFits(f, date, ordered, Timetable(strategy, f, date, ordered))
        /\ day = [date |-> date, items |-> ItemsOf(strategy, f, date, ordered),
                  cost |-> CostTotal(ToSet(ItemsOf(strategy, f, date, ordered)),
                                     f.request.budget.currency)]
    BY <1>10 DEF Schedule, ItemsOf, orders, first
  <2> QED
    BY <1>9, <2>1 DEF DayShape
<1> QED
  BY <1>5, <1>11

\* The days of a plan for the selection S: what it visits on day d, in which order.
PlanShape(strategy, f, S, order, plan) ==
  /\ S \in Selections(strategy, f)
  /\ DOMAIN plan.days = 1..f.request.days
  /\ \A d \in 1..f.request.days :
       /\ DayShape(strategy, f, d, order[d], plan.days[d])
       /\ \A i, j \in DOMAIN order[d] : order[d][i] = order[d][j] => i = j
       /\ ToSet(order[d]) = {f.places[k] : k \in ToSet(Partition(f, S)[d])}

\* A plan of the optimizer is made of such days, and passed the validators.
LEMMA VariantShape ==
  ASSUME NEW f, GivenOK(f), NEW strategy, NEW plan \in Variants(strategy, f)
  PROVE  /\ ~ Blocked(f)
         /\ plan.id = strategy
         /\ PlanIsValid(plan)
         /\ Errors(plan, f.request, CandidatePlaces(f), ToSet(f.routes), f.claims, f.evidence) = {}
         /\ \E S, order : PlanShape(strategy, f, S, order, plan)
<1>1. ~ Blocked(f)
  BY DEF Variants
<1>2. PICK S \in Selections(strategy, f) :
        /\ Builds(strategy, f, S) /\ plan = VariantOf(strategy, f, S)
        /\ DOMAIN plan.days = 1..f.request.days
        /\ \A d \in 1..f.request.days : plan.days[d] \in DaysOf(strategy, f, S)[d]
  BY VariantDays
<1>3. /\ PlanIsValid(plan)
      /\ Errors(plan, f.request, CandidatePlaces(f), ToSet(f.routes), f.claims, f.evidence) = {}
  BY <1>2 DEF Builds
<1>4. plan.id = strategy
  BY <1>2 DEF VariantOf, Plan
<1> DEFINE bucket == Partition(f, S)
           places(d) == [k \in DOMAIN bucket[d] |-> f.places[bucket[d][k]]]
<1>5. bucket \in [1..f.request.days -> Seq(S)] /\ NoneTwice(bucket)
  BY <1>1, PartitionHolds
<1>6. /\ \A j, k \in S : f.places[j].id = f.places[k].id => j = k
      /\ S \subseteq 1..Len(f.places)
  BY <1>1, SelectionFacts
<1>7. DOMAIN f.places = 1..Len(f.places)
  BY DEF GivenOK, IsSequence
<1> HIDE DEF bucket
<1>8. ASSUME NEW d \in 1..f.request.days
      PROVE  \E ordered :
               /\ DayShape(strategy, f, d, ordered, plan.days[d])
               /\ \A i, j \in DOMAIN ordered : ordered[i] = ordered[j] => i = j
               /\ ToSet(ordered) = {f.places[k] : k \in ToSet(bucket[d])}
  <2> DEFINE n == Len(bucket[d])
  <2>1. n \in Nat /\ DOMAIN bucket[d] = 1..n /\ \A k \in 1..n : bucket[d][k] \in S
    BY <1>5
  <2>2. places(d) \in [1..n -> ToSet(f.places)]
    BY <1>6, <1>7, <2>1 DEF ToSet
  <2>3. places(d) \in Seq(ToSet(f.places)) /\ Len(places(d)) = n
    <3> HIDE DEF places, n
    <3> QED
      BY <2>1, <2>2
  <2>4. plan.days[d] \in Schedule(strategy, f, d, places(d))
    BY <1>2 DEF DaysOf, bucket
  <2>5. PICK o \in Bijection(1..n, 1..n) :
          DayShape(strategy, f, d, [k \in 1..n |-> places(d)[o[k]]], plan.days[d])
    <3> HIDE DEF places, n
    <3> QED
      BY <2>3, <2>4, ScheduleShape
  <2> DEFINE ordered == [k \in 1..n |-> places(d)[o[k]]]
  <2>6. /\ \A k \in 1..n : o[k] \in 1..n
        /\ \A i, j \in 1..n : o[i] = o[j] => i = j
        /\ \A j \in 1..n : \E k \in 1..n : o[k] = j
    BY <2>5 DEF Bijection, Injection, Surjection, IsInjective
  <2>7. \A k \in 1..n : ordered[k] = f.places[bucket[d][o[k]]]
    BY <2>1, <2>6
  <2>8. \A i, j \in 1..n : bucket[d][i] = bucket[d][j] => i = j
    <3>1. DOMAIN bucket = 1..f.request.days
      BY <1>5
    <3> QED
      BY <1>5, <2>1, <3>1 DEF NoneTwice
  <2>9. ASSUME NEW i \in 1..n, NEW j \in 1..n, ordered[i] = ordered[j]
        PROVE  i = j
    <3>1. f.places[bucket[d][o[i]]].id = f.places[bucket[d][o[j]]].id
      BY <2>7, <2>9
    <3>2. bucket[d][o[i]] \in S /\ bucket[d][o[j]] \in S
      BY <2>1, <2>6
    <3>3. bucket[d][o[i]] = bucket[d][o[j]]
      BY <1>6, <3>1, <3>2
    <3>4. o[i] \in 1..n /\ o[j] \in 1..n
      BY <2>6
    <3>5. o[i] = o[j]
      BY <2>8, <3>3, <3>4
    <3> QED
      BY <2>6, <3>5
  <2>10. DOMAIN ordered = 1..n
    OBVIOUS
  <2>11. DayShape(strategy, f, d, ordered, plan.days[d])
    BY <2>5
  <2> HIDE DEF ordered, n
  <2>12. ToSet(ordered) = {f.places[k] : k \in ToSet(bucket[d])}
    <3>1. ToSet(ordered) = {ordered[k] : k \in 1..n} /\ ToSet(bucket[d]) = {bucket[d][k] : k \in 1..n}
      BY <2>1, <2>10 DEF ToSet
    <3>2. ASSUME NEW k \in 1..n PROVE ordered[k] \in {f.places[i] : i \in ToSet(bucket[d])}
      <4>1. bucket[d][o[k]] \in ToSet(bucket[d])
        BY <2>6, <3>1
      <4>2. ordered[k] = f.places[bucket[d][o[k]]]
        BY <2>7
      <4> QED
        BY <4>1, <4>2
    <3>3. ASSUME NEW i \in ToSet(bucket[d]) PROVE f.places[i] \in ToSet(ordered)
      <4>1. PICK j \in 1..n : i = bucket[d][j]
        BY <3>1
      <4>2. PICK k \in 1..n : o[k] = j
        BY <2>6
      <4>3. f.places[i] = ordered[k]
        BY <2>7, <4>1, <4>2
      <4> QED
        BY <3>1, <4>3
    <3> QED
      BY <3>1, <3>2, <3>3
  <2> QED
    BY <2>9, <2>10, <2>11, <2>12
<1> DEFINE order == [d \in 1..f.request.days |->
                       CHOOSE ordered :
                         /\ DayShape(strategy, f, d, ordered, plan.days[d])
                         /\ \A i, j \in DOMAIN ordered : ordered[i] = ordered[j] => i = j
                         /\ ToSet(ordered) = {f.places[k] : k \in ToSet(bucket[d])}]
<1>9. ASSUME NEW d \in 1..f.request.days
      PROVE  /\ DayShape(strategy, f, d, order[d], plan.days[d])
             /\ \A i, j \in DOMAIN order[d] : order[d][i] = order[d][j] => i = j
             /\ ToSet(order[d]) = {f.places[k] : k \in ToSet(bucket[d])}
  BY <1>8
<1> HIDE DEF order
<1>10. PlanShape(strategy, f, S, order, plan)
  BY <1>2, <1>9 DEF PlanShape, bucket
<1> QED
  BY <1>1, <1>3, <1>4, <1>10

\* What an activity is made of.
ItemTyped(item) ==
  /\ item.start \in Int /\ item.end \in Int
  /\ item.clock.start \in Int /\ item.clock.end \in Int
  /\ CostIsValid(item.cost)
  /\ item.minutes \in Nat

\* A plan of days with such activities.
PlanTyped(plan) ==
  /\ IsSequence(plan.days)
  /\ \A day \in ToSet(plan.days) : IsSequence(day.items)
  /\ \A item \in Items(plan) : ItemTyped(item)

\* A function on 1..n is a sequence of length n.
LEMMA SeqIsSequence == \A n \in Nat : \A s : DOMAIN s = 1..n /\ s = [k \in 1..n |-> s[k]] =>
                         IsSequence(s) /\ Len(s) = n
<1> SUFFICES ASSUME NEW n \in Nat, NEW s, DOMAIN s = 1..n, s = [k \in 1..n |-> s[k]]
             PROVE  IsSequence(s) /\ Len(s) = n
  OBVIOUS
<1>1. s \in [1..n -> ToSet(s)]
  BY DEF ToSet
<1> QED
  BY <1>1 DEF IsSequence

\* The activities of a day of the optimizer, in the terms of its timetable.
\* item is the activity at the k-th place.
IsActivity(strategy, f, date, ordered, k, item) ==
  /\ item = ItemAt(strategy, f, date, ordered, Timetable(strategy, f, date, ordered), k)
  /\ item.id = <<strategy, item.place>>
  /\ item.place = ordered[k].id
  /\ ordered[k] \in ToSet(f.places)
  /\ ItemTyped(item)

\* The activities of a day are those of the places of its walk.
LEMMA DayActivities ==
  ASSUME NEW f, GivenOK(f), NEW strategy, NEW date \in Int, NEW ordered, NEW day,
         DayShape(strategy, f, date, ordered, day)
  PROVE  /\ day.date = date
         /\ IsSequence(day.items) /\ DOMAIN day.items = 1..Len(ordered)
         /\ Len(ordered) \in Nat /\ DOMAIN ordered = 1..Len(ordered)
         /\ \A k \in 1..Len(ordered) : IsActivity(strategy, f, date, ordered, k, day.items[k])
<1> DEFINE slot == Timetable(strategy, f, date, ordered)
           n == Len(ordered)
<1>1. n \in Nat /\ DOMAIN ordered = 1..n /\ \A k \in 1..n : ordered[k] \in ToSet(f.places)
  BY DEF DayShape, Walk
<1>2. day.date = date /\ day.items = [k \in 1..n |-> ItemAt(strategy, f, date, ordered, slot, k)]
  BY <1>1 DEF DayShape, ItemsOf
<1>3. IsSequence(day.items) /\ DOMAIN day.items = 1..n
  <2> HIDE DEF n, slot
  <2> QED
    BY <1>1, <1>2, SeqIsSequence
<1>4. \A k \in 0..n : slot[k].start \in Int /\ slot[k].end \in Int
  <2>1. IsTimetable(strategy, f, date, ordered, slot)
    BY TimetableIsOne DEF DayShape
  <2> HIDE DEF slot
  <2> QED
    BY <2>1 DEF IsTimetable
<1>5. ASSUME NEW k \in 1..n
      PROVE  IsActivity(strategy, f, date, ordered, k, day.items[k])
  <2> DEFINE item == ItemAt(strategy, f, date, ordered, slot, k)
             leg == Leg(f.routes, ordered[k - 1].id, ordered[k].id)
  <2>1. k \in 0..n
    BY <1>1
  <2>2. slot[k].start \in Int /\ slot[k].end \in Int
    BY <1>4, <2>1
  <2>3. /\ item.start = DayLength * date + slot[k].start
        /\ item.end = DayLength * date + slot[k].end
        /\ item.clock.start = item.start /\ item.clock.end = item.end
    BY DEF ItemAt, Moment
  <2>4. item.cost = ordered[k].price /\ item.minutes = IF k > 1 THEN leg.minutes ELSE 0
    BY DEF ItemAt
  <2>5. CostIsValid(ordered[k].price)
    BY <1>1 DEF GivenOK, PlaceIsValid
  <2>B. item.id = <<strategy, item.place>> /\ item.place = ordered[k].id
    BY DEF ItemAt
  <2>6. k > 1 => leg.minutes \in Nat
    <3> SUFFICES ASSUME k > 1 PROVE leg.minutes \in Nat
      OBVIOUS
    <3>1. k \in 2..n
      BY <1>1
    <3>2. Connected(f.routes, ordered[k - 1].id, ordered[k].id)
      BY <3>1 DEF DayShape, Walk
    <3>3. leg \in ToSet(f.routes)
      BY <3>2, LegConnects DEF GivenOK
    <3> QED
      BY <3>3 DEF GivenOK, RouteIsValid
  <2> HIDE DEF slot, item, leg
  <2>7. item.start \in Int /\ item.end \in Int
    BY <2>2, <2>3, PlanContractsAssumption
  <2>C. item.clock.start \in Int /\ item.clock.end \in Int
    BY <2>3, <2>7
  <2>8. day.items[k] = item
    BY <1>2 DEF item
  <2>9. ItemTyped(item)
    BY <2>4, <2>5, <2>6, <2>7, <2>C DEF ItemTyped
  <2> QED
    BY <1>1, <2>8, <2>9, <2>B DEF IsActivity, item, slot
<1> QED
  BY <1>1, <1>2, <1>3, <1>5

\* The plans of the optimizer are typed,
LEMMA VariantTyped ==
  ASSUME NEW f, GivenOK(f), NEW strategy, NEW plan \in Variants(strategy, f)
  PROVE  PlanTyped(plan)
<1>1. PICK S, order : PlanShape(strategy, f, S, order, plan)
  BY VariantShape
<1> DEFINE m == f.request.days
<1>2. m \in Nat /\ DOMAIN plan.days = 1..m
  BY <1>1 DEF PlanShape, GivenOK, RequestIsValid
<1>3. IsSequence(plan.days)
  <2>1. plan.days = [d \in 1..m |-> plan.days[d]]
    <3>1. PICK S2 \in Selections(strategy, f) : plan = VariantOf(strategy, f, S2)
      BY VariantDays
    <3> QED
      BY <1>2, <3>1 DEF VariantOf, Plan
  <2> QED
    BY <1>2, <2>1, SeqIsSequence
<1>4. ASSUME NEW day \in ToSet(plan.days)
      PROVE  IsSequence(day.items) /\ \A item \in ToSet(day.items) : ItemTyped(item)
  <2>1. PICK d \in 1..m : day = plan.days[d]
    BY <1>2 DEF ToSet
  <2>2. d \in Int /\ DayShape(strategy, f, d, order[d], day)
    BY <1>1, <1>2, <2>1 DEF PlanShape
  <2>3. /\ IsSequence(day.items) /\ DOMAIN day.items = 1..Len(order[d])
        /\ \A k \in 1..Len(order[d]) : ItemTyped(day.items[k])
    BY <2>2, DayActivities DEF IsActivity
  <2> QED
    BY <2>3 DEF ToSet
<1> QED
  BY <1>3, <1>4 DEF PlanTyped, Items

\* and so are the drafts of a model,
LEMMA DraftTyped ==
  ASSUME FactsOK, NEW draft \in Drafts
  PROVE  PlanTyped(Plan("draft", Given, [d \in DOMAIN draft |-> DraftDay(d, draft[d])]))
<1> DEFINE days == [d \in DOMAIN draft |-> DraftDay(d, draft[d])]
           plan == Plan("draft", Given, days)
<1>1. /\ Len(draft) \in Nat /\ DOMAIN draft = 1..Len(draft)
      /\ \A visits \in ToSet(draft) :
           /\ Len(visits) \in Nat /\ DOMAIN visits = 1..Len(visits)
           /\ \A visit \in ToSet(visits) :
                {visit.start, visit.end, visit.ahead.start, visit.ahead.end} \subseteq Int
  BY TripPlanningAssumption DEF IsSequence
<1>2. plan.days = days
  BY DEF Plan
<1>3. IsSequence(days)
  BY <1>1, SeqIsSequence
<1>4. ASSUME NEW d \in DOMAIN draft, NEW k \in DOMAIN draft[d]
      PROVE  ItemTyped(DraftItem(d, draft[d], k))
  <2> DEFINE visits == draft[d]
             visit == visits[k]
             item == DraftItem(d, visits, k)
             known == {place \in ToSet(facts.destination.places) : place.id = visit.place}
             place == CHOOSE p \in known : TRUE
             led == k > 1 /\ Connected(facts.routes, visits[k - 1].place, visit.place)
             leg == Leg(facts.routes, visits[k - 1].place, visit.place)
  <2>1. /\ d \in Int /\ visit.start \in Int /\ visit.end \in Int
        /\ visit.ahead.start \in Int /\ visit.ahead.end \in Int
    BY <1>1 DEF ToSet
  <2>2. /\ item.clock.start = DayLength * d + visit.start
        /\ item.clock.end = DayLength * d + visit.end
        /\ item.start = (DayLength * d + visit.start) - visit.ahead.start
        /\ item.end = (DayLength * d + visit.end) - visit.ahead.end
    BY DEF DraftItem, Moment
  <2>3. /\ item.cost = IF known = {} THEN Unknown(facts.request.budget.currency) ELSE place.price
        /\ item.minutes = IF led THEN leg.minutes ELSE 0
    BY DEF DraftItem
  <2>4. known # {} => CostIsValid(place.price)
    <3>1. known # {} => place \in ToSet(facts.destination.places)
      OBVIOUS
    <3>2. \A p \in ToSet(facts.destination.places) : PlaceIsValid(p)
      BY TripPlanningAssumption DEF FactsOK
    <3> HIDE DEF place
    <3> QED
      BY <3>1, <3>2 DEF PlaceIsValid
  <2>5. CostIsValid(item.cost)
    <3>1. CostIsValid(Unknown(facts.request.budget.currency))
      BY DEF CostIsValid, Unknown
    <3> HIDE DEF place, known, item
    <3> QED
      BY <2>3, <2>4, <3>1
  <2>6. led => leg.minutes \in Nat
    <3> SUFFICES ASSUME led PROVE leg.minutes \in Nat
      OBVIOUS
    <3>1. IsSequence(facts.routes) /\ \A route \in ToSet(facts.routes) : RouteIsValid(route)
      BY TripPlanningAssumption DEF FactsOK
    <3>2. leg \in ToSet(facts.routes)
      BY <3>1, LegConnects
    <3> QED
      BY <3>1, <3>2 DEF RouteIsValid
  <2>7. /\ item.start \in Int /\ item.end \in Int
        /\ item.clock.start \in Int /\ item.clock.end \in Int
    <3> DEFINE base == DayLength * d
    <3>1. base \in Int
      BY <2>1, PlanContractsAssumption
    <3> HIDE DEF item, visit, base
    <3> QED
      BY <2>1, <2>2, <3>1 DEF base
  <2> HIDE DEF item, leg, led
  <2>8. item.minutes \in Nat
    BY <2>3, <2>6
  <2> QED
    BY <2>5, <2>7, <2>8 DEF ItemTyped, item
<1>5. ASSUME NEW d \in DOMAIN draft
      PROVE  /\ IsSequence(days[d].items)
             /\ \A item \in ToSet(days[d].items) : ItemTyped(item)
  <2>1. days[d].items = [k \in DOMAIN draft[d] |-> DraftItem(d, draft[d], k)]
    BY DEF DraftDay
  <2>2. Len(draft[d]) \in Nat /\ DOMAIN draft[d] = 1..Len(draft[d])
    BY <1>1 DEF ToSet
  <2> HIDE DEF days
  <2> QED
    BY <1>4, <2>1, <2>2, SeqIsSequence DEF ToSet
<1>6. ASSUME NEW day \in ToSet(days)
      PROVE  IsSequence(day.items) /\ \A item \in ToSet(day.items) : ItemTyped(item)
  <2>1. PICK d \in DOMAIN draft : day = days[d]
    BY DEF ToSet
  <2> HIDE DEF days
  <2> QED
    BY <1>5, <2>1
<1> HIDE DEF days, plan
<1> QED
  BY <1>2, <1>3, <1>6 DEF PlanTyped, Items, plan, days

\* and therefore all plans on the blackboard, which the contracts accepted.
LEMMA PlansTyped ==
  ASSUME FactsOK, Planned
  PROVE  \A plan \in ToSet(plans) : PlanTyped(plan) /\ PlanIsValid(plan)
<1>1. GivenOK(Given)
  BY GivenIsOK
<1>2. CASE \E b \in Variants("balanced", Given) :
             \E e \in Variants("economy", Given) :
               \E r \in Variants("relaxed", Given) : plans = <<b, e, r>>
  <2>1. PICK b \in Variants("balanced", Given), e \in Variants("economy", Given),
             r \in Variants("relaxed", Given) : plans = <<b, e, r>>
    BY <1>2
  <2>2. ToSet(plans) = {b, e, r}
    BY <2>1 DEF ToSet
  <2>3. \A plan \in ToSet(plans) : \E strategy : plan \in Variants(strategy, Given)
    BY <2>2
  <2> QED
    BY <1>1, <2>3, VariantTyped, VariantShape
<1>3. CASE /\ CandidatesAreValid(plans)
           /\ \E draft \in Drafts :
                plans = <<Plan("draft", Given, [d \in DOMAIN draft |-> DraftDay(d, draft[d])])>>
  <2>1. PICK draft \in Drafts :
               plans = <<Plan("draft", Given, [d \in DOMAIN draft |-> DraftDay(d, draft[d])])>>
    BY <1>3
  <2>2. \A plan \in ToSet(plans) :
          plan = Plan("draft", Given, [d \in DOMAIN draft |-> DraftDay(d, draft[d])])
    BY <2>1 DEF ToSet
  <2>3. \A plan \in ToSet(plans) : PlanTyped(plan)
    BY <2>2, DraftTyped
  <2> QED
    BY <1>3, <2>3 DEF CandidatesAreValid
<1> QED
  BY <1>2, <1>3 DEF Planned

-----------------------------------------------------------------------------
(* The bundle is feasible *)

\* The elements of a sequence are finitely many.
LEMMA SequencesAreFinite ==
  ASSUME NEW s, IsSequence(s)
  PROVE  IsFiniteSet(ToSet(s))
<1> DEFINE n == Len(s)
           g == [k \in 1..n |-> s[k]]
<1>1. n \in Nat /\ DOMAIN s = 1..n
  BY DEF IsSequence
<1>2. g \in Surjection(1..n, ToSet(s))
  BY <1>1 DEF Surjection, ToSet
<1>3. IsFiniteSet(1..n)
  BY <1>1, FS_Interval
<1> HIDE DEF g, n
<1> QED
  BY <1>2, <1>3, FS_Surjection

\* So are the activities of a plan.
LEMMA ItemsAreFinite ==
  ASSUME NEW plan, PlanTyped(plan)
  PROVE  IsFiniteSet(Items(plan))
<1> DEFINE sets == {ToSet(day.items) : day \in ToSet(plan.days)}
           n == Len(plan.days)
           g == [d \in 1..n |-> ToSet(plan.days[d].items)]
<1>1. n \in Nat /\ DOMAIN plan.days = 1..n
  BY DEF PlanTyped, IsSequence
<1>2. sets = {ToSet(plan.days[d].items) : d \in 1..n}
  BY <1>1 DEF ToSet
<1>3. g \in Surjection(1..n, sets)
  BY <1>2 DEF Surjection
<1>4. IsFiniteSet(1..n)
  BY <1>1, FS_Interval
<1>5. IsFiniteSet(sets)
  <2> HIDE DEF g, n, sets
  <2> QED
    BY <1>3, <1>4, FS_Surjection
<1>6. \A s \in sets : IsFiniteSet(s)
  BY SequencesAreFinite DEF PlanTyped
<1> QED
  BY <1>5, <1>6, FS_UNION DEF Items

\* A moment is a time of a date.
LEMMA Moments ==
  \A m \in Int : /\ DateOf(m) \in Int /\ TimeOf(m) \in 0..(DayLength - 1)
                 /\ m = DayLength * DateOf(m) + TimeOf(m)
BY PlanContractsAssumption DEF DateOf, TimeOf

\* Earlier dates come before later ones.
LEMMA MomentOrder ==
  ASSUME NEW d \in Int, NEW e \in Int, d < e
  PROVE  DayLength * d + DayLength <= DayLength * e
<1>1. e - d >= 1 /\ DayLength >= 1 /\ DayLength \in Nat
  BY PlanContractsAssumption
<1>2. DayLength * (e - d) >= DayLength
  BY <1>1
<1>3. DayLength * (e - d) = DayLength * e - DayLength * d
  BY <1>1
<1>4. DayLength * e \in Int /\ DayLength * d \in Int
  BY <1>1
<1> QED
  BY <1>1, <1>2, <1>3, <1>4

\* Activities of one day: each is over when the next one starts.
LEMMA DisjointOnADay ==
  ASSUME NEW plan, PlanTyped(plan), OverlapErrors(plan) = {},
         NEW day \in ToSet(plan.days), NEW i \in ToSet(day.items), NEW j \in ToSet(day.items),
         i # j, i.start <= j.start
  PROVE  i.end <= j.start
<1> DEFINE items == ToSet(day.items)
           later == {x \in items : x # i /\ i.start <= x.start}
           gaps == {x.start - i.start : x \in later}
<1>1. \A x \in items : x.start \in Int /\ x.end \in Int
  BY DEF PlanTyped, Items, ItemTyped
<1>2. gaps \in SUBSET Nat /\ j.start - i.start \in gaps
  BY <1>1
<1>3. PICK m \in gaps : \A k \in gaps : m <= k
  BY <1>2, NatMin
<1>4. PICK c \in later : m = c.start - i.start
  BY <1>3
<1>5. \A x \in later : c.start <= x.start
  <2> SUFFICES ASSUME NEW x \in later PROVE c.start <= x.start
    OBVIOUS
  <2>1. m <= x.start - i.start
    BY <1>3
  <2> QED
    BY <1>1, <1>4, <2>1
<1>6. ComesAfter(i, c, items)
  <2>1. ASSUME NEW x \in items, i.start < x.start, x.start < c.start PROVE FALSE
    <3>1. x \in later
      BY <1>1, <2>1
    <3> QED
      BY <1>1, <1>5, <2>1, <3>1
  <2> QED
    BY <1>4, <2>1 DEF ComesAfter
<1>7. ~ (c.start < i.end)
  BY <1>4, <1>6 DEF OverlapErrors, When
<1>8. c.start <= j.start
  BY <1>5
<1> QED
  BY <1>1, <1>4, <1>7, <1>8

\* In a plan that the validators accept no two activities of a day overlap,
LEMMA SameDayIsDisjoint ==
  ASSUME NEW plan, PlanTyped(plan), OverlapErrors(plan) = {}, NEW day \in ToSet(plan.days),
         NEW i \in ToSet(day.items), NEW j \in ToSet(day.items), i # j
  PROVE  Disjoint(i, j)
<1>1. i.start \in Int /\ j.start \in Int
  BY DEF PlanTyped, Items, ItemTyped
<1>2. i.start <= j.start => i.end <= j.start
  BY DisjointOnADay
<1>3. j.start <= i.start => j.end <= i.start
  BY DisjointOnADay
<1> QED
  BY <1>1, <1>2, <1>3 DEF Disjoint

\* and those of two days do not if one clock puts each on the date of its day.
LEMMA OtherDayIsDisjoint ==
  ASSUME NEW plan, PlanTyped(plan), PlanIsValid(plan), NEW request, TimeErrors(plan, request) = {},
         NEW x \in ToSet(plan.days), NEW y \in ToSet(plan.days), x # y,
         NEW i \in ToSet(x.items), NEW j \in ToSet(y.items), SameClock(i, j)
  PROVE  Disjoint(i, j)
<1>1. /\ i.start \in Int /\ i.end \in Int /\ i.clock.start \in Int /\ i.clock.end \in Int
      /\ j.start \in Int /\ j.end \in Int /\ j.clock.start \in Int /\ j.clock.end \in Int
  BY DEF PlanTyped, Items, ItemTyped
<1>2. /\ DateOf(i.clock.start) = x.date /\ DateOf(i.clock.end) = x.date
      /\ DateOf(j.clock.start) = y.date /\ DateOf(j.clock.end) = y.date
  BY DEF TimeErrors, When
<1>3. x.date # y.date
  BY DEF PlanIsValid, NoRepeats, ToSet
<1>4. x.date \in Int /\ y.date \in Int
  BY <1>1, <1>2, Moments
<1>5. ASSUME NEW a \in Int, NEW b \in Int, DateOf(a) < DateOf(b) PROVE a <= b
  <2>1. /\ DateOf(a) \in Int /\ DateOf(b) \in Int
        /\ TimeOf(a) \in 0..(DayLength - 1) /\ TimeOf(b) \in 0..(DayLength - 1)
        /\ a = DayLength * DateOf(a) + TimeOf(a) /\ b = DayLength * DateOf(b) + TimeOf(b)
    BY Moments
  <2> DEFINE p == DayLength * DateOf(a)
             q == DayLength * DateOf(b)
  <2>2. p + DayLength <= q
    BY <1>5, <2>1, MomentOrder
  <2>3. p \in Int /\ q \in Int /\ DayLength \in Nat
    BY <2>1, PlanContractsAssumption
  <2>4. a = p + TimeOf(a) /\ b = q + TimeOf(b)
    BY <2>1
  <2> HIDE DEF p, q
  <2> QED
    BY <2>1, <2>2, <2>3, <2>4
<1>6. i.clock.end <= j.clock.start \/ j.clock.end <= i.clock.start
  <2>1. CASE x.date < y.date
    BY <1>1, <1>2, <1>5, <2>1
  <2>2. CASE y.date < x.date
    BY <1>1, <1>2, <1>5, <2>2
  <2> QED
    BY <1>3, <1>4, <2>1, <2>2
<1>7. /\ i.clock.end - i.end = j.clock.start - j.start
      /\ j.clock.end - j.end = i.clock.start - i.start
  BY DEF SameClock
<1> QED
  BY <1>1, <1>6, <1>7 DEF Disjoint

\* An activity that the validators accept is in the window of its day and in the hours
\* of its place, by the clock it is written by.
LEMMA ValidItemIsInTime ==
  ASSUME FactsOK, NEW plan, PlanTyped(plan), TimeErrors(plan, facts.request) = {},
         NEW places \in SUBSET ToSet(facts.destination.places), OpeningErrors(plan, places) = {},
         \A day \in ToSet(plan.days) : day.date \in 1..facts.request.days,
         NEW item \in Items(plan), item.place \in {place.id : place \in places}
  PROVE  /\ InWindow(item.clock, facts.request)
         /\ \E place \in PlaceOf(item) : Admits(place, item.clock)
<1> DEFINE request == facts.request
           clock == item.clock
<1>1. PICK day \in ToSet(plan.days) : item \in ToSet(day.items)
  BY DEF Items
<1>2. clock.start \in Int /\ clock.end \in Int
  BY DEF PlanTyped, ItemTyped
<1>4. DateOf(clock.start) = day.date /\ DateOf(clock.end) = day.date
  BY <1>1 DEF TimeErrors, When
<1>8. ~ (TimeOf(clock.start) < request.window.start) /\ ~ (TimeOf(clock.end) > request.window.end)
  BY DEF TimeErrors, When
<1>10. PICK place \in places : place.id = item.place
  OBVIOUS
<1>11. place.hours # <<>>
  BY <1>10 DEF OpeningErrors, When
<1>12. /\ day.date \notin place.closures
       /\ \E period \in ToSet(place.hours) :
            /\ period.date = day.date
            /\ period.opens <= TimeOf(clock.start) /\ TimeOf(clock.end) <= period.closes
  BY <1>1, <1>10, <1>11 DEF OpeningErrors, When
<1> HIDE DEF clock
<1>5. /\ TimeOf(clock.start) \in Int /\ TimeOf(clock.end) \in Int /\ day.date \in Int
      /\ clock.start = DayLength * day.date + TimeOf(clock.start)
      /\ clock.end = DayLength * day.date + TimeOf(clock.end)
  BY <1>2, <1>4, Moments
<1> DEFINE base == DayLength * day.date
<1>6. /\ base \in Int
      /\ clock.start = base + TimeOf(clock.start) /\ clock.end = base + TimeOf(clock.end)
  BY <1>5, PlanContractsAssumption
<1>7. request.window.start \in Int /\ request.window.end \in Int
  <2>1. RequestIsValid(request)
    BY TripPlanningAssumption DEF FactsOK
  <2> QED
    BY <2>1, PlanContractsAssumption DEF RequestIsValid, WindowIsValid, Times
<1>9. InWindow(clock, request)
  <2>1. day.date \in 1..request.days
    BY <1>1
  <2>2. Moment(day.date, request.window.start) = base + request.window.start
        /\ Moment(day.date, request.window.end) = base + request.window.end
    BY DEF Moment
  <2>3. base + request.window.start <= clock.start /\ clock.end <= base + request.window.end
    <3> HIDE DEF base, request
    <3> QED
      BY <1>5, <1>6, <1>7, <1>8
  <2> QED
    BY <2>1, <2>2, <2>3 DEF InWindow
<1>13. PICK period \in ToSet(place.hours) :
         /\ period.date = day.date
         /\ period.opens <= TimeOf(clock.start) /\ TimeOf(clock.end) <= period.closes
  BY <1>12
<1>14. period.opens \in Int /\ period.closes \in Int
  <2>1. PlaceIsValid(place)
    BY TripPlanningAssumption DEF FactsOK
  <2> QED
    BY <2>1, PlanContractsAssumption DEF PlaceIsValid, Times
<1>15. /\ Moment(DateOf(clock.start), period.opens) = base + period.opens
       /\ Moment(DateOf(clock.start), period.closes) = base + period.closes
  BY <1>4 DEF Moment
<1>16. base + period.opens <= clock.start /\ clock.end <= base + period.closes
  <2> HIDE DEF base
  <2> QED
    BY <1>5, <1>6, <1>13, <1>14
<1>17. Admits(place, clock)
  BY <1>4, <1>12, <1>13, <1>15, <1>16 DEF Admits
<1>18. place \in PlaceOf(item)
  BY <1>10 DEF PlaceOf
<1> QED
  BY <1>9, <1>17, <1>18 DEF clock

\* The costs of a plan add up to a number.
LEMMA SumOfItems ==
  ASSUME NEW plan, PlanTyped(plan)
  PROVE  UpperSum(Items(plan)) \in Int
<1> DEFINE g == [item \in Items(plan) |-> IF IsUnknown(item.cost) THEN 0 ELSE item.cost.upper]
<1>1. \A item \in Items(plan) : g[item] \in Int
  BY DEF PlanTyped, ItemTyped, CostIsValid, IsUnknown
<1>2. IsFiniteSet(Items(plan))
  BY ItemsAreFinite
<1>3. UpperSum(Items(plan)) = SumFunctionOnSet(g, Items(plan))
  BY DEF UpperSum, SumFunction, SumFunctionOnSet, FoldFunction
<1> HIDE DEF g
<1> QED
  BY <1>1, <1>2, <1>3, SumRemove

\* A valid plan does not exceed a hard budget.
LEMMA ValidPlanIsAffordable ==
  ASSUME FactsOK, NEW plan, PlanTyped(plan), Validated(plan, facts) = {}
  PROVE  Affordable(plan)
<1> SUFFICES ASSUME facts.request.budget.hard
             PROVE  /\ \A item \in Items(plan) : ~ IsUnknown(item.cost)
                    /\ UpperSum(Items(plan)) <= facts.request.budget.total
  BY DEF Affordable
<1>1. BudgetErrors(plan, facts.request) = {}
  BY DEF Validated, Errors
<1>2. ~ SomeUnknown(Items(plan))
  BY <1>1 DEF BudgetErrors, When
<1>3. ~ (UpperSum(Items(plan)) > facts.request.budget.total)
  BY <1>1, <1>2 DEF BudgetErrors, When
<1>4. facts.request.budget.total \in Nat
  BY TripPlanningAssumption DEF FactsOK, RequestIsValid
<1>5. UpperSum(Items(plan)) \in Int
  BY SumOfItems
<1> QED
  BY <1>2, <1>3, <1>4, <1>5 DEF SomeUnknown

\* What is published is valid in itself: the aggregator refused nothing of it.
LEMMA BundleIsFeasibleInv == PlanInv => BundleIsFeasible
<1> SUFFICES ASSUME PlanInv, bundle # {} PROVE BundleIsFeasible
  BY DEF BundleIsFeasible
<1> DEFINE evidence == facts.destination.evidence \union facts.mobility.evidence
           b == Bundle(plans, facts, rounds)
<1>1. /\ FactsOK /\ Planned /\ ReviewInv
      /\ bundle = {b} /\ Refusals(plans, review, facts) = {}
  BY DEF PlanInv, BundleInv
<1>2. \A plan \in ToSet(plans) : PlanTyped(plan) /\ PlanIsValid(plan)
  BY <1>1, PlansTyped
<1>3. \A plan \in ToSet(plans) :
        /\ Validated(plan, facts) = {}
        /\ [d \in DOMAIN plan.days |-> plan.days[d].date] = [d \in 1..facts.request.days |-> d]
  BY <1>1 DEF Refusals, When
<1>4. ~ Conflicting(evidence) /\ Passes(review)
  BY <1>1 DEF Refusals, When
<1>5. b.plans = plans /\ b.evidence = evidence
  BY DEF Bundle
<1>6. ASSUME NEW plan \in ToSet(plans), NEW item \in Items(plan), NEW e \in item.evidence
      PROVE  e \in EvidenceIds(evidence) /\ Cardinality({x \in evidence : x[1] = e}) = 1
  <2>1. e \in EvidenceIds(evidence)
    <3> DEFINE all == ToSet(facts.destination.places) \union ToSet(facts.routes)
                        \union facts.destination.claims \union Items(plan)
    <3>1. ReferenceErrors(plan, ToSet(facts.destination.places), ToSet(facts.routes),
                          facts.destination.claims, EvidenceIds(evidence)) = {}
      BY <1>3 DEF Validated, Errors
    <3>2. UNION {x.evidence : x \in all} \subseteq EvidenceIds(evidence)
      BY <3>1 DEF ReferenceErrors, When
    <3>3. item \in all
      OBVIOUS
    <3> HIDE DEF all
    <3> QED
      BY <3>2, <3>3
  <2>2. PICK x \in evidence : x[1] = e
    BY <2>1 DEF EvidenceIds
  <2>3. {y \in evidence : y[1] = e} = {x}
    BY <1>4, <2>2 DEF Conflicting
  <2>4. Cardinality({x}) = 1
    BY FS_Singleton
  <2> QED
    BY <2>1, <2>3, <2>4
<1>7. ASSUME NEW plan \in ToSet(plans)
      PROVE  b.comparison[plan.id].covered
  <2> DEFINE same == CHOOSE p \in ToSet(plans) : p.id = plan.id
  <2>1. plan.id \in PlanIds(plans) /\ same \in ToSet(plans)
    BY DEF PlanIds
  <2>2. b.comparison[plan.id] = Comparison(same, facts.request, evidence)
    BY <2>1 DEF Bundle
  <2> HIDE DEF same
  <2>3. \A item \in Items(same) : item.evidence \subseteq EvidenceIds(evidence)
    BY <1>6, <2>1
  <2>4. Comparison(same, facts.request, evidence).covered
          = (\A item \in Items(same) : item.evidence \subseteq EvidenceIds(evidence))
    BY DEF Comparison
  <2> QED
    BY <2>2, <2>3, <2>4
<1>8. ASSUME NEW plan \in ToSet(plans), reviewer = "critic"
      PROVE  ~ Contradicted(plan, facts.destination.claims) /\ ~ Backtracks(plan)
  <2>1. Codes(plan, facts) = {}
    BY <1>1, <1>4, <1>8, PassMeansNoCodes DEF ReviewInv
  <2> QED
    BY <2>1 DEF Codes, When
<1>9. ASSUME NEW plan \in ToSet(plans)
      PROVE  /\ {day.date : day \in ToSet(plan.days)} = 1..facts.request.days
             /\ \A day \in ToSet(plan.days) : day.date \in 1..facts.request.days
  <2>1. DOMAIN plan.days = 1..facts.request.days /\ \A d \in DOMAIN plan.days : plan.days[d].date = d
    <3> DEFINE dates == [d \in DOMAIN plan.days |-> plan.days[d].date]
    <3>1. dates = [d \in 1..facts.request.days |-> d]
      BY <1>3
    <3>2. DOMAIN dates = DOMAIN plan.days /\ \A d \in DOMAIN plan.days : dates[d] = plan.days[d].date
      OBVIOUS
    <3> HIDE DEF dates
    <3> QED
      BY <3>1, <3>2
  <2> QED
    BY <2>1 DEF ToSet
<1>10. ASSUME NEW plan \in ToSet(plans), NEW day \in ToSet(plan.days),
              NEW other \in ToSet(plan.days), NEW i \in ToSet(day.items),
              NEW j \in ToSet(other.items), i # j, day = other \/ SameClock(i, j)
       PROVE  Disjoint(i, j)
  <2>1. OverlapErrors(plan) = {} /\ TimeErrors(plan, facts.request) = {}
    BY <1>3 DEF Validated, Errors
  <2>2. CASE day = other
    BY <1>2, <1>10, <2>1, <2>2, SameDayIsDisjoint
  <2>3. CASE day # other
    BY <1>2, <1>10, <2>1, <2>3, OtherDayIsDisjoint
  <2> QED
    BY <2>2, <2>3
<1>11. ASSUME NEW plan \in ToSet(plans), NEW item \in Items(plan)
       PROVE  /\ InWindow(item.clock, facts.request)
              /\ \E place \in PlaceOf(item) : Admits(place, item.clock)
  <2> DEFINE places == ToSet(facts.destination.places)
  <2>1. /\ TimeErrors(plan, facts.request) = {} /\ OpeningErrors(plan, places) = {}
        /\ item.place \in {place.id : place \in places}
    BY <1>3 DEF Validated, Errors, ReferenceErrors, When
  <2> HIDE DEF places
  <2>2. places \in SUBSET ToSet(facts.destination.places)
    BY DEF places
  <2> QED
    BY <1>1, <1>2, <1>9, <2>1, <2>2, ValidItemIsInTime
<1>12. ASSUME NEW plan \in ToSet(plans) PROVE Affordable(plan)
  BY <1>1, <1>2, <1>3, ValidPlanIsAffordable
<1> HIDE DEF b, evidence
<1> QED
  BY <1>1, <1>5, <1>6, <1>7, <1>8, <1>9, <1>10, <1>11, <1>12 DEF BundleIsFeasible

\* What is published, whoever made the plans and whatever the review said
\* (validators.py, final_aggregator.py): no two activities of a day overlap, and those
\* of different days not if one clock wrote them; each is in the window of its day and
\* in the hours of its place by the clock that wrote it, which nobody compares with the
\* trip's; the cost is within a hard budget.
THEOREM BundleIsFeasibleHolds == Spec => []BundleIsFeasible
BY PlanInvariance, BundleIsFeasibleInv, PTL

-----------------------------------------------------------------------------
(* The critic finds what the optimizer does not test *)

\* What the critic can still find in a plan of the optimizer.
Unseen(request) ==
  {"contradicted_hard_claim"} \union
  IF request.excluded = {} THEN {} ELSE {"coordinate_system_mismatch"}

\* No place is visited twice on a day: the ids of the activities would be the same.
LEMMA VariantsDoNotBacktrack ==
  ASSUME NEW f, GivenOK(f), NEW strategy, NEW plan \in Variants(strategy, f)
  PROVE  ~ Backtracks(plan)
<1> SUFFICES ASSUME NEW day \in ToSet(plan.days),
                    NEW k \in DOMAIN day.items, NEW l \in DOMAIN day.items,
                    day.items[k].place = day.items[l].place
             PROVE  k = l
  BY DEF Backtracks, NoRepeats
<1>1. PICK S, order : PlanShape(strategy, f, S, order, plan)
  BY VariantShape
<1>2. PICK d \in DOMAIN plan.days : day = plan.days[d]
  BY DEF ToSet
<1>3. d \in Int /\ DayShape(strategy, f, d, order[d], day)
  BY <1>1, <1>2 DEF PlanShape, GivenOK, RequestIsValid
<1> DEFINE o == order[d]
<1>4. d \in Int
  BY <1>3
<1>5. DayShape(strategy, f, d, o, day)
  BY <1>3
<1> HIDE DEF o
<1>6. DOMAIN day.items = 1..Len(o)
  BY <1>4, <1>5, DayActivities
<1>7. \A i \in 1..Len(o) : IsActivity(strategy, f, d, o, i, day.items[i])
  BY <1>4, <1>5, DayActivities
<1>8. \A i \in DOMAIN day.items : day.items[i].id = <<strategy, day.items[i].place>>
  BY <1>6, <1>7 DEF IsActivity
<1>9. ItemIdsDiffer(plan)
  BY VariantShape DEF PlanIsValid
<1> QED
  BY <1>2, <1>8, <1>9 DEF ItemIdsDiffer

\* The critic makes the tests that the optimizer made, and a few more.
LEMMA CodesOfVariant ==
  ASSUME FactsOK, NEW strategy, NEW plan \in Variants(strategy, Given)
  PROVE  Codes(plan, facts) \subseteq Unseen(facts.request)
<1> DEFINE all == ToSet(facts.destination.places)
           some == CandidatePlaces(Given)
           routes == ToSet(facts.routes)
           claims == facts.destination.claims
           seen == EvidenceIds(facts.destination.evidence)
           evidence == EvidenceIds(facts.destination.evidence \union facts.mobility.evidence)
           request == facts.request
<1>1. GivenOK(Given)
  BY GivenIsOK
<1>2. Errors(plan, request, some, routes, claims, seen) = {}
  <2>1. Errors(plan, Given.request, CandidatePlaces(Given), ToSet(Given.routes), Given.claims,
               Given.evidence) = {}
    BY <1>1, VariantShape
  <2> QED
    BY <2>1 DEF Given
<1>3. some \subseteq all
  BY DEF CandidatePlaces, Candidates, Given, ToSet
<1>4. \A p, q \in all : p.id = q.id => p = q
  <2>1. NoRepeats([k \in DOMAIN facts.destination.places |-> facts.destination.places[k].id])
    BY TripPlanningAssumption DEF FactsOK
  <2> QED
    BY <2>1 DEF NoRepeats, ToSet
<1>5. seen \subseteq evidence
  BY DEF EvidenceIds
<1>6. request.excluded = {} => some = all
  BY DEF CandidatePlaces, Candidates, Given, ToSet
<1>17. \A place \in all : place.evidence \subseteq seen
  BY TripPlanningAssumption DEF FactsOK
<1>7. ~ Backtracks(plan)
  BY <1>1, VariantsDoNotBacktrack
<1>8. Codes(plan, facts) = Errors(plan, request, all, routes, claims, evidence)
                             \union When(Contradicted(plan, claims), "contradicted_hard_claim")
  BY <1>7 DEF Codes, Validated, When
<1> HIDE DEF all, some, routes, claims, seen, evidence, request
<1>9. \A item \in Items(plan) : \A place \in all : place.id = item.place => place \in some
  <2>1. \A item \in Items(plan) : item.place \in {place.id : place \in some}
    BY <1>2 DEF Errors, ReferenceErrors, When
  <2> QED
    BY <1>3, <1>4, <2>1
<1>10. OpeningErrors(plan, all) = {}
  <2>1. OpeningErrors(plan, some) = {}
    BY <1>2 DEF Errors
  <2>2. \A item \in Items(plan) :
          {place \in all : place.id = item.place} = {place \in some : place.id = item.place}
    BY <1>3, <1>9
  <2>3. \A day \in ToSet(plan.days) : \A item \in ToSet(day.items) : item \in Items(plan)
    BY DEF Items
  <2>4. ASSUME NEW item \in Items(plan), NEW place \in all, place.id = item.place
        PROVE  place.hours # <<>>
    <3>1. place \in some
      BY <1>9, <2>4
    <3> QED
      BY <2>1, <2>4, <3>1 DEF OpeningErrors, When
  <2>5. ASSUME NEW day \in ToSet(plan.days), NEW item \in ToSet(day.items),
               NEW place \in all, place.id = item.place
        PROVE  /\ day.date \notin place.closures
               /\ \E period \in ToSet(place.hours) :
                    /\ period.date = day.date
                    /\ period.opens <= TimeOf(item.clock.start)
                    /\ TimeOf(item.clock.end) <= period.closes
    <3>1. place \in some /\ place.hours # <<>>
      BY <1>9, <2>3, <2>4, <2>5
    <3> QED
      BY <2>1, <2>5, <3>1 DEF OpeningErrors, When
  <2> QED
    BY <2>4, <2>5 DEF OpeningErrors, When
<1>11. CoordinateErrors(all, routes) \subseteq
         IF request.excluded = {} THEN {} ELSE {"coordinate_system_mismatch"}
  <2>1. CoordinateErrors(some, routes) = {}
    BY <1>2 DEF Errors
  <2>2. CoordinateErrors(all, routes) \subseteq {"coordinate_system_mismatch"}
    BY DEF CoordinateErrors, When
  <2> QED
    BY <1>6, <2>1, <2>2
<1>12. ReferenceErrors(plan, some, routes, claims, seen) = {}
  BY <1>2 DEF Errors
<1>13. ReferenceErrors(plan, all, routes, claims, evidence) = {}
  <2>1. /\ \A route \in routes : {route.from, route.to} \subseteq {place.id : place \in all}
        /\ \A item \in Items(plan) : item.place \in {place.id : place \in all}
    BY <1>3, <1>12 DEF ReferenceErrors, When
  <2>2. /\ ~ \E claim \in claims : claim.hard /\ claim.status = "unknown"
        /\ ~ \E item \in Items(plan) : ~ item.claims \subseteq {claim.id : claim \in claims}
        /\ ~ \E item \in Items(plan) : item.route # NoRoute /\ {route \in routes : route.id = item.route} = {}
    BY <1>12 DEF ReferenceErrors, When
  <2>3. ~ \E day \in ToSet(plan.days) : \E k \in DOMAIN day.items :
            /\ day.items[k].route # NoRoute
            /\ \E route \in {r \in routes : r.id = day.items[k].route} :
                 ~ (k > 1 /\ route.from = day.items[k - 1].place /\ route.to = day.items[k].place)
    BY <1>12 DEF ReferenceErrors, When
  <2>4. \A x \in all \union routes \union claims \union Items(plan) : x.evidence \subseteq evidence
    <3>1. UNION {x.evidence : x \in some \union routes \union claims \union Items(plan)} \subseteq seen
      BY <1>12 DEF ReferenceErrors, When
    <3>2. \A x \in routes \union claims \union Items(plan) : x.evidence \subseteq seen
      BY <3>1
    <3> QED
      BY <1>5, <1>17, <3>2
  <2>5. UNION {x.evidence : x \in all \union routes \union claims \union Items(plan)} \subseteq evidence
    BY <2>4
  <2> QED
    BY <2>1, <2>2, <2>3, <2>5 DEF ReferenceErrors, When
<1>15. BudgetErrors(plan, request) = {} /\ TimeErrors(plan, request) = {} /\ OverlapErrors(plan) = {}
  BY <1>2 DEF Errors
<1>16. Errors(plan, request, all, routes, claims, evidence) \subseteq
         IF request.excluded = {} THEN {} ELSE {"coordinate_system_mismatch"}
  BY <1>10, <1>11, <1>13, <1>15 DEF Errors
<1> QED
  BY <1>8, <1>16 DEF Unseen, When, request

\* A review of the critic is of the plans that the optimizer left on the blackboard.
LEMMA ReviewFindsOnlyUnseenInv == PlanInv => ReviewFindsOnlyUnseen
<1> SUFFICES ASSUME PlanInv, planner = "optimizer", reviewer = "critic",
                    NEW id \in DOMAIN review.codes
             PROVE  review.codes[id] \subseteq Unseen(facts.request)
  BY DEF ReviewFindsOnlyUnseen, Unseen
<1>1. FactsOK /\ Planned /\ ReviewInv
  BY DEF PlanInv
<1>2. review = Review(plans, facts)
  BY <1>1 DEF ReviewInv
<1>3. PICK b \in Variants("balanced", Given), e \in Variants("economy", Given),
           r \in Variants("relaxed", Given) : plans = <<b, e, r>>
  BY <1>1 DEF Planned
<1>4. ToSet(plans) = {b, e, r}
  BY <1>3 DEF ToSet
<1>5. \A plan \in ToSet(plans) : Codes(plan, facts) \subseteq Unseen(facts.request)
  BY <1>1, <1>4, CodesOfVariant
<1>6. review.codes[id] = UNION {Codes(plan, facts) : plan \in {p \in ToSet(plans) : p.id = id}}
  BY <1>2 DEF Review
<1> QED
  BY <1>5, <1>6

\* In the plans of the optimizer the critic finds only what the optimizer does not
\* test (itinerary_planning.py, critic_risk.py).
THEOREM ReviewFindsOnlyUnseenHolds == Spec => []ReviewFindsOnlyUnseen
BY PlanInvariance, ReviewFindsOnlyUnseenInv, PTL

-----------------------------------------------------------------------------
(* The optimizer keeps the hard rules *)

\* The activities of day d, one for each place in the order of the day.
LEMMA PlanActivities ==
  ASSUME NEW f, GivenOK(f), NEW strategy, NEW plan, NEW S, NEW order,
         PlanShape(strategy, f, S, order, plan), NEW d \in 1..f.request.days
  PROVE  /\ Len(order[d]) \in Nat
         /\ DOMAIN order[d] = 1..Len(order[d]) /\ DOMAIN plan.days[d].items = 1..Len(order[d])
         /\ \A k \in 1..Len(order[d]) :
              IsActivity(strategy, f, d, order[d], k, plan.days[d].items[k])
<1>1. d \in Int
  BY DEF GivenOK, RequestIsValid
<1>2. DayShape(strategy, f, d, order[d], plan.days[d])
  BY DEF PlanShape
<1> QED
  BY <1>1, <1>2, DayActivities

\* What a plan visits are the places that were selected.
LEMMA PlanVisitsSelection ==
  ASSUME NEW f, GivenOK(f), ~ Blocked(f), NEW strategy, NEW plan, NEW S, NEW order,
         PlanShape(strategy, f, S, order, plan)
  PROVE  {item.place : item \in Items(plan)} = {f.places[k].id : k \in S}
<1>1. DOMAIN plan.days = 1..f.request.days /\ S \in Selections(strategy, f)
  BY DEF PlanShape
<1> DEFINE bucket == Partition(f, S)
<1>2. bucket \in [1..f.request.days -> Seq(S)] /\ Dealt(bucket) = S
  BY <1>1, PartitionHolds
<1>3. \A d \in 1..f.request.days : ToSet(order[d]) = {f.places[k] : k \in ToSet(bucket[d])}
  BY DEF PlanShape
<1>4. DOMAIN bucket = 1..f.request.days
  BY <1>2
<1> HIDE DEF bucket
<1>5. ASSUME NEW item \in Items(plan)
      PROVE  \E k \in S : item.place = f.places[k].id
  <2>1. PICK d \in 1..f.request.days : item \in ToSet(plan.days[d].items)
    BY <1>1 DEF Items, ToSet
  <2>A. /\ DOMAIN order[d] = 1..Len(order[d]) /\ DOMAIN plan.days[d].items = 1..Len(order[d])
        /\ \A k \in 1..Len(order[d]) :
             IsActivity(strategy, f, d, order[d], k, plan.days[d].items[k])
    BY PlanActivities
  <2>2. PICK i \in DOMAIN order[d] : item.place = order[d][i].id
    BY <2>1, <2>A DEF ToSet, IsActivity
  <2>3. order[d][i] \in ToSet(order[d])
    BY DEF ToSet
  <2>4. PICK k \in ToSet(bucket[d]) : order[d][i] = f.places[k]
    BY <1>3, <2>3
  <2>5. k \in S
    BY <1>2, <1>4 DEF Dealt
  <2> QED
    BY <2>2, <2>4, <2>5
<1>6. ASSUME NEW k \in S
      PROVE  \E item \in Items(plan) : item.place = f.places[k].id
  <2>1. PICK d \in 1..f.request.days : k \in ToSet(bucket[d])
    BY <1>2, <1>4 DEF Dealt
  <2>2. f.places[k] \in ToSet(order[d])
    BY <1>3, <2>1
  <2>3. PICK i \in DOMAIN order[d] : order[d][i] = f.places[k]
    BY <2>2 DEF ToSet
  <2>4. /\ i \in DOMAIN plan.days[d].items
        /\ plan.days[d].items[i].place = f.places[k].id
    <3>1. /\ DOMAIN order[d] = 1..Len(order[d]) /\ DOMAIN plan.days[d].items = 1..Len(order[d])
          /\ \A j \in 1..Len(order[d]) :
               IsActivity(strategy, f, d, order[d], j, plan.days[d].items[j])
      BY PlanActivities
    <3> QED
      BY <2>3, <3>1 DEF IsActivity
  <2>5. plan.days[d].items[i] \in Items(plan)
    BY <1>1, <2>4 DEF Items, ToSet
  <2> QED
    BY <2>4, <2>5
<1> QED
  BY <1>5, <1>6

\* A plan has an activity for each appointment, at its time.
LEMMA PlanKeepsAppointments ==
  ASSUME NEW f, GivenOK(f), ~ Blocked(f), NEW strategy, NEW plan, NEW S, NEW order,
         PlanShape(strategy, f, S, order, plan), NEW a \in ToSet(f.request.appointments)
  PROVE  \E item \in Items(plan) :
           /\ item.place = a.place
           /\ item.start = Moment(a.date, a.at.start) /\ item.end = Moment(a.date, a.at.end)
<1> DEFINE d == a.date
           slot == Timetable(strategy, f, d, order[d])
<1>1. DOMAIN plan.days = 1..f.request.days /\ S \in Selections(strategy, f)
  BY DEF PlanShape
<1>2. d \in 1..f.request.days
  BY DEF GivenOK, RequestIsValid
<1>3. PICK k \in ToSet(Partition(f, S)[d]) : f.places[k].id = a.place
  BY <1>1, PartitionHolds
<1>4. f.places[k] \in ToSet(order[d])
  <2>1. ToSet(order[d]) = {f.places[j] : j \in ToSet(Partition(f, S)[d])}
    BY <1>2 DEF PlanShape
  <2> QED
    BY <1>3, <2>1
<1>5. PICK i \in DOMAIN order[d] : order[d][i] = f.places[k]
  BY <1>4 DEF ToSet
<1>6. /\ i \in 1..Len(order[d]) /\ i \in DOMAIN plan.days[d].items
      /\ plan.days[d].items[i] = ItemAt(strategy, f, d, order[d], slot, i)
      /\ plan.days[d].items[i].place = a.place
  <2>1. /\ DOMAIN order[d] = 1..Len(order[d]) /\ DOMAIN plan.days[d].items = 1..Len(order[d])
        /\ \A j \in 1..Len(order[d]) :
             IsActivity(strategy, f, d, order[d], j, plan.days[d].items[j])
    BY <1>2, PlanActivities
  <2> QED
    BY <1>3, <1>5, <2>1 DEF IsActivity
<1>7. slot[i] = Slot(strategy, f.request, d, order[d][i], Arrival(f.routes, order[d], i, slot[i - 1].end))
  <2>1. Walk(f, order[d])
    BY <1>2 DEF PlanShape, DayShape
  <2> QED
    <3>1. IsTimetable(strategy, f, d, order[d], slot)
      BY <2>1, TimetableIsOne
    <3> HIDE DEF slot
    <3> QED
      BY <1>6, <3>1 DEF IsTimetable
<1> DEFINE booked == AppointmentAt(f.request, d, order[d][i])
           chosen == CHOOSE c \in booked : TRUE
<1>8. a \in booked
  BY <1>3, <1>5 DEF AppointmentAt
<1>9. chosen \in booked
  BY <1>8
<1>10. chosen \in ToSet(f.request.appointments) /\ chosen.place = a.place
  BY <1>3, <1>5, <1>9 DEF AppointmentAt
<1>11. slot[i] = chosen.at
  BY <1>7, <1>8 DEF Slot
<1> HIDE DEF slot, chosen, booked
<1>12. chosen = a
  <2>1. DOMAIN f.request.appointments = 1..Len(f.request.appointments)
    BY DEF GivenOK, RequestIsValid, IsSequence
  <2>2. PICK p \in 1..Len(f.request.appointments) : a = f.request.appointments[p]
    BY <2>1 DEF ToSet
  <2>3. PICK q \in 1..Len(f.request.appointments) : chosen = f.request.appointments[q]
    BY <1>10, <2>1 DEF ToSet
  <2>4. p = q
    BY <1>10, <2>2, <2>3, AppointmentsDiffer
  <2> QED
    BY <2>2, <2>3, <2>4
<1>13. /\ plan.days[d].items[i].start = Moment(d, a.at.start)
       /\ plan.days[d].items[i].end = Moment(d, a.at.end)
  BY <1>6, <1>11, <1>12 DEF ItemAt
<1>14. plan.days[d].items[i] \in Items(plan)
  BY <1>1, <1>2, <1>6 DEF Items, ToSet
<1> QED
  BY <1>6, <1>13, <1>14

\* The optimizer writes by the clock of the trip.
LEMMA VariantIsLocal ==
  ASSUME NEW f, GivenOK(f), NEW strategy, NEW plan \in Variants(strategy, f),
         NEW item \in Items(plan)
  PROVE  item.clock.start = item.start /\ item.clock.end = item.end
<1>1. PICK S, order : PlanShape(strategy, f, S, order, plan)
  BY VariantShape
<1>2. PICK d \in 1..f.request.days : item \in ToSet(plan.days[d].items)
  BY <1>1 DEF PlanShape, Items, ToSet
<1>3. /\ DOMAIN plan.days[d].items = 1..Len(order[d])
      /\ \A k \in 1..Len(order[d]) :
           IsActivity(strategy, f, d, order[d], k, plan.days[d].items[k])
  BY <1>1, PlanActivities
<1>4. PICK k \in 1..Len(order[d]) : IsActivity(strategy, f, d, order[d], k, item)
  BY <1>2, <1>3 DEF ToSet
<1> QED
  BY <1>4 DEF IsActivity, ItemAt

\* Its activities are in the window and in the hours of their places.
LEMMA VariantIsInTime ==
  ASSUME FactsOK, NEW strategy, NEW plan \in Variants(strategy, Given), NEW item \in Items(plan)
  PROVE  /\ InWindow(item, facts.request)
         /\ \E place \in PlaceOf(item) : Admits(place, item)
<1> DEFINE some == CandidatePlaces(Given)
<1>1. GivenOK(Given) /\ PlanTyped(plan)
  BY GivenIsOK, VariantTyped
<1>2. Errors(plan, Given.request, some, ToSet(Given.routes), Given.claims, Given.evidence) = {}
  BY <1>1, VariantShape
<1>3. Given.request = facts.request /\ some \in SUBSET ToSet(facts.destination.places)
  BY DEF CandidatePlaces, Candidates, Given, ToSet
<1> HIDE DEF some
<1>4. /\ TimeErrors(plan, facts.request) = {} /\ OpeningErrors(plan, some) = {}
      /\ item.place \in {place.id : place \in some}
  BY <1>2, <1>3 DEF Errors, ReferenceErrors, When
<1>5. ASSUME NEW day \in ToSet(plan.days) PROVE day.date \in 1..facts.request.days
  <2>1. PICK S, order : PlanShape(strategy, Given, S, order, plan)
    BY <1>1, VariantShape
  <2>2. PICK d \in 1..Given.request.days : day = plan.days[d]
    BY <2>1 DEF PlanShape, ToSet
  <2>3. DayShape(strategy, Given, d, order[d], day)
    BY <2>1, <2>2 DEF PlanShape
  <2> QED
    BY <1>3, <2>2, <2>3 DEF DayShape
<1>6. /\ InWindow(item.clock, facts.request)
      /\ \E place \in PlaceOf(item) : Admits(place, item.clock)
  BY <1>1, <1>3, <1>4, <1>5, ValidItemIsInTime
<1>7. item.clock.start = item.start /\ item.clock.end = item.end
  BY <1>1, VariantIsLocal
<1>8. InWindow(item, facts.request)
  BY <1>6, <1>7 DEF InWindow
<1>9. \A place : Admits(place, item.clock) => Admits(place, item)
  BY <1>7 DEF Admits
<1> QED
  BY <1>6, <1>8, <1>9

\* A plan of the optimizer visits what the request asks for, when it asks for it, and
\* nothing it excludes.
LEMMA VariantKeepsConstraints ==
  ASSUME FactsOK, NEW strategy, NEW plan \in Variants(strategy, Given)
  PROVE  KeepsHardConstraints(plan, facts.request)
<1> DEFINE f == Given
<1>1. GivenOK(f)
  BY GivenIsOK
<1> HIDE DEF f
<1>2. PICK S, order : PlanShape(strategy, f, S, order, plan)
  BY <1>1, VariantShape DEF f
<1>3. ~ Blocked(f) /\ S \in Selections(strategy, f)
  BY <1>1, <1>2, VariantShape DEF PlanShape, f
<1> DEFINE visited == {item.place : item \in Items(plan)}
<1>4. visited = {f.places[k].id : k \in S}
  BY <1>1, <1>2, <1>3, PlanVisitsSelection
<1>5. /\ S \subseteq Candidates(f)
      /\ \A name \in Required(f.request) : \E k \in S : f.places[k].id = name
  BY <1>1, <1>3, SelectionFacts
<1> HIDE DEF visited
<1>6. f.request.required \subseteq visited
  BY <1>4, <1>5 DEF Required
<1>7. f.request.excluded \intersect visited = {}
  BY <1>4, <1>5 DEF Candidates
<1>8. \A a \in ToSet(f.request.appointments) : \E item \in Items(plan) :
        /\ item.place = a.place
        /\ item.start = Moment(a.date, a.at.start) /\ item.end = Moment(a.date, a.at.end)
  BY <1>1, <1>2, <1>3, PlanKeepsAppointments
<1>9. \A item \in Items(plan) : InWindow(item, facts.request)
  BY VariantIsInTime
<1>10. f.request = facts.request
  BY DEF f, Given
<1> QED
  BY <1>6, <1>7, <1>8, <1>9, <1>10 DEF KeepsHardConstraints, visited

\* What the k-th activity of a day owes to the one before it, in times of the day.
Follows(f, date, ordered, slot, k, item) ==
  /\ slot[k - 1].end \in Int /\ slot[k].start \in Int /\ slot[k].end \in Int
  /\ item.start = DayLength * date + slot[k].start
  /\ item.end = DayLength * date + slot[k].end
  /\ item.minutes \in Nat
  /\ slot[k - 1].end + item.minutes <= slot[k].start
  /\ slot[k].end <= f.request.window.end
  /\ k > 1 => \E route \in ToSet(f.routes) :
                /\ route.from = ordered[k - 1].id /\ route.to = ordered[k].id
                /\ route.minutes = item.minutes

\* Every activity begins when its place is reached, or later.
LEMMA DayIsPaced ==
  ASSUME NEW f, GivenOK(f), NEW strategy, NEW date \in Int, NEW ordered, NEW day,
         DayShape(strategy, f, date, ordered, day), NEW k \in 1..Len(ordered)
  PROVE  Follows(f, date, ordered, Timetable(strategy, f, date, ordered), k, day.items[k])
<1> DEFINE slot == Timetable(strategy, f, date, ordered)
           n == Len(ordered)
           item == day.items[k]
           leg == Leg(f.routes, ordered[k - 1].id, ordered[k].id)
<1>1. n \in Nat /\ DOMAIN ordered = 1..n /\ IsActivity(strategy, f, date, ordered, k, item)
  BY DayActivities
<1>2. IsTimetable(strategy, f, date, ordered, slot)
  BY TimetableIsOne DEF DayShape
<1>3. slot[k - 1].end \in Int /\ slot[k].start \in Int /\ slot[k].end \in Int
  <2>1. k - 1 \in 0..n /\ k \in 0..n
    BY <1>1
  <2> HIDE DEF slot
  <2> QED
    BY <1>2, <2>1 DEF IsTimetable
<1>4. /\ item.start = DayLength * date + slot[k].start
      /\ item.end = DayLength * date + slot[k].end
      /\ item.minutes = IF k > 1 THEN leg.minutes ELSE 0
  BY <1>1 DEF IsActivity, ItemAt, Moment
<1>5. item.minutes \in Nat
  BY <1>1 DEF IsActivity, ItemTyped
<1>6. ASSUME k > 1
      PROVE  leg \in ToSet(f.routes) /\ leg.from = ordered[k - 1].id /\ leg.to = ordered[k].id
  <2>1. k \in 2..n
    BY <1>1, <1>6
  <2>2. Connected(f.routes, ordered[k - 1].id, ordered[k].id)
    BY <2>1 DEF DayShape, Walk
  <2> QED
    BY <2>2, LegConnects DEF GivenOK
<1>7. /\ slot[k].start >= Arrival(f.routes, ordered, k, slot[k - 1].end)
      /\ \E period \in Opening(ordered[k], date) :
            slot[k].end <= Min({period.closes, f.request.window.end})
  BY <1>1 DEF DayShape, DayFits
<1>8. Arrival(f.routes, ordered, k, slot[k - 1].end) = slot[k - 1].end + item.minutes
  <2>1. CASE k = 1
    BY <1>4, <2>1 DEF Arrival
  <2>2. CASE k # 1
    <3>1. k > 1
      BY <2>2
    <3> QED
      BY <1>4, <2>2, <3>1 DEF Arrival
  <2> QED
    BY <2>1, <2>2
<1>9. slot[k].end <= f.request.window.end
  <2>1. PICK period \in Opening(ordered[k], date) :
          slot[k].end <= Min({period.closes, f.request.window.end})
    BY <1>7
  <2>2. period.closes \in Int
    <3>1. PlaceIsValid(ordered[k])
      BY <1>1 DEF IsActivity, GivenOK
    <3>2. period \in ToSet(ordered[k].hours)
      BY DEF Opening, ToSet
    <3> QED
      BY <3>1, <3>2 DEF PlaceIsValid, Times
  <2>3. f.request.window.end \in Int
    BY DEF GivenOK, RequestIsValid, WindowIsValid, Times
  <2>4. /\ Min({period.closes, f.request.window.end}) <= f.request.window.end
        /\ Min({period.closes, f.request.window.end}) \in Int
    BY <2>2, <2>3, MinOfTwo
  <2> HIDE DEF slot
  <2> QED
    BY <1>3, <2>1, <2>3, <2>4
<1>10. k > 1 => \E route \in ToSet(f.routes) :
                  /\ route.from = ordered[k - 1].id /\ route.to = ordered[k].id
                  /\ route.minutes = item.minutes
  BY <1>4, <1>6
<1> HIDE DEF slot, item, leg
<1>11. slot[k - 1].end + item.minutes <= slot[k].start
  BY <1>3, <1>5, <1>7, <1>8
<1> QED
  BY <1>3, <1>4, <1>5, <1>9, <1>10, <1>11 DEF Follows, slot, item

\* Between two activities of a day there is the time of a route.
LEMMA VariantLeavesTime ==
  ASSUME NEW f, GivenOK(f), NEW strategy, NEW plan \in Variants(strategy, f),
         NEW day \in ToSet(plan.days), NEW k \in 2..Len(day.items)
  PROVE  \E route \in ToSet(f.routes) :
           /\ route.from = day.items[k - 1].place /\ route.to = day.items[k].place
           /\ day.items[k - 1].end + route.minutes <= day.items[k].start
<1>1. PICK S, order : PlanShape(strategy, f, S, order, plan)
  BY VariantShape
<1>2. PICK d \in 1..f.request.days : day = plan.days[d]
  BY <1>1 DEF PlanShape, ToSet
<1> DEFINE ordered == order[d]
           slot == Timetable(strategy, f, d, ordered)
<1>3. d \in Int /\ DayShape(strategy, f, d, ordered, day)
  BY <1>1, <1>2 DEF PlanShape, GivenOK, RequestIsValid
<1>4. /\ IsSequence(day.items) /\ DOMAIN day.items = 1..Len(ordered) /\ Len(ordered) \in Nat
      /\ \A i \in 1..Len(ordered) : IsActivity(strategy, f, d, ordered, i, day.items[i])
  BY <1>3, DayActivities
<1>5. k \in 1..Len(ordered) /\ k - 1 \in 1..Len(ordered) /\ k > 1
  BY <1>4 DEF IsSequence
<1>6. /\ Follows(f, d, ordered, slot, k, day.items[k])
      /\ Follows(f, d, ordered, slot, k - 1, day.items[k - 1])
  BY <1>3, <1>5, DayIsPaced
<1>7. day.items[k - 1].place = ordered[k - 1].id /\ day.items[k].place = ordered[k].id
  BY <1>4, <1>5 DEF IsActivity
<1>8. PICK route \in ToSet(f.routes) :
        /\ route.from = ordered[k - 1].id /\ route.to = ordered[k].id
        /\ route.minutes = day.items[k].minutes
  BY <1>5, <1>6 DEF Follows
<1> DEFINE base == DayLength * d
<1>9. base \in Int
  BY <1>3, PlanContractsAssumption
<1>10. /\ slot[k - 1].end \in Int /\ slot[k].start \in Int /\ day.items[k].minutes \in Nat
       /\ day.items[k].start = base + slot[k].start
       /\ day.items[k - 1].end = base + slot[k - 1].end
       /\ slot[k - 1].end + day.items[k].minutes <= slot[k].start
  BY <1>6 DEF Follows
<1>A. ASSUME NEW e \in Int, NEW s \in Int, NEW m \in Nat, NEW c \in Int, e + m <= s
      PROVE  (c + e) + m <= c + s
  BY <1>A
<1> HIDE DEF base, slot
<1>11. day.items[k - 1].end + day.items[k].minutes <= day.items[k].start
  BY <1>9, <1>10, <1>A
<1> QED
  BY <1>7, <1>8, <1>11

\* The time that an activity and the way to it take.
Busy(items) == [item \in items |-> (item.end - item.start) + item.minutes]

\* The activities of a day and the ways between them fit into the window of the day.
LEMMA DayIsInWindow ==
  ASSUME NEW f, GivenOK(f), NEW strategy, NEW date \in Int, NEW ordered, NEW day,
         DayShape(strategy, f, date, ordered, day), NEW items, ToSet(day.items) \subseteq items,
         \A i, j \in DOMAIN day.items : day.items[i] = day.items[j] => i = j
  PROVE  /\ SumFunctionOnSet(Busy(items), ToSet(day.items)) \in Int
         /\ SumFunctionOnSet(Busy(items), ToSet(day.items)) <= WindowLength(f.request)
<1> DEFINE slot == Timetable(strategy, f, date, ordered)
           n == Len(ordered)
           g == Busy(items)
           First(k) == {day.items[i] : i \in 1..k}
           Sum(k) == SumFunctionOnSet(g, First(k))
           base == DayLength * date
<1>1. /\ n \in Nat /\ DOMAIN day.items = 1..n /\ IsSequence(day.items)
      /\ \A i \in 1..n : IsActivity(strategy, f, date, ordered, i, day.items[i])
  BY DayActivities
<1>2. \A k \in 1..n : Follows(f, date, ordered, slot, k, day.items[k])
  BY DayIsPaced
<1>3. IsTimetable(strategy, f, date, ordered, slot)
  BY TimetableIsOne DEF DayShape
<1>4. /\ f.request.window.start \in Int /\ f.request.window.end \in Int
      /\ f.request.window.start < f.request.window.end
      /\ slot[0].end = f.request.window.start
  <2>1. /\ f.request.window.start \in Int /\ f.request.window.end \in Int
        /\ f.request.window.start < f.request.window.end
    BY DEF GivenOK, RequestIsValid, WindowIsValid, Times
  <2> HIDE DEF slot
  <2> QED
    BY <1>3, <2>1 DEF IsTimetable
<1>5. base \in Int
  BY PlanContractsAssumption
<1>6. ASSUME NEW k \in 1..n
      PROVE  /\ g[day.items[k]] \in Int
             /\ slot[k].end \in Int /\ slot[k - 1].end \in Int
             /\ slot[k - 1].end + g[day.items[k]] <= slot[k].end
             /\ slot[k].end <= f.request.window.end
  <2> DEFINE item == day.items[k]
  <2>1. item \in items
    BY <1>1 DEF ToSet
  <2>2. g[item] = (item.end - item.start) + item.minutes
    BY <2>1 DEF Busy
  <2>3. /\ slot[k - 1].end \in Int /\ slot[k].start \in Int /\ slot[k].end \in Int
        /\ item.start = base + slot[k].start
        /\ item.end = base + slot[k].end
        /\ item.minutes \in Nat
        /\ slot[k - 1].end + item.minutes <= slot[k].start
        /\ slot[k].end <= f.request.window.end
    BY <1>2 DEF Follows
  <2> HIDE DEF g, slot, item, base
  <2>4. item.end - item.start = slot[k].end - slot[k].start
    BY <1>5, <2>3
  <2>5. g[item] = (slot[k].end - slot[k].start) + item.minutes
    BY <2>2, <2>4
  <2>6. g[item] \in Int /\ slot[k - 1].end + g[item] <= slot[k].end
    BY <2>3, <2>5
  <2> QED
    BY <2>3, <2>6 DEF item
<1>7. \A k \in 0..n : IsFiniteSet(First(k)) /\ \A x \in First(k) : g[x] \in Int
  <2> SUFFICES ASSUME NEW k \in 0..n
               PROVE  IsFiniteSet(First(k)) /\ \A x \in First(k) : g[x] \in Int
    OBVIOUS
  <2>1. First(k) \subseteq ToSet(day.items)
    BY <1>1 DEF ToSet
  <2>2. IsFiniteSet(ToSet(day.items))
    BY <1>1, SequencesAreFinite
  <2>3. \A i \in 1..k : i \in 1..n
    BY <1>1
  <2> QED
    BY <1>6, <2>1, <2>2, <2>3, FS_Subset
<1> HIDE DEF slot, n, g
<1> DEFINE Good == {k \in 0..n : Sum(k) <= slot[k].end - slot[0].end}
<1>8. 0 \in Good
  <2>1. First(0) = {}
    OBVIOUS
  <2>2. Sum(0) = 0
    BY <2>1, SumEmpty
  <2> QED
    BY <1>1, <1>4, <2>2
<1>9. ASSUME NEW k \in 1..n, k - 1 \in Good PROVE k \in Good
  <2> DEFINE item == day.items[k]
  <2>1. k \in 0..n /\ k - 1 \in 0..n
    BY <1>1
  <2>2. item \notin First(k - 1)
    <3> SUFFICES ASSUME NEW i \in 1..(k - 1), day.items[i] = item PROVE FALSE
      OBVIOUS
    <3>1. i \in DOMAIN day.items /\ k \in DOMAIN day.items /\ i # k
      BY <1>1
    <3> QED
      BY <3>1
  <2>3. First(k - 1) = First(k) \ {item} /\ item \in First(k)
    <3>1. \A i : i \in 1..k <=> i \in 1..(k - 1) \/ i = k
      BY <1>1
    <3>2. First(k) = First(k - 1) \union {item}
      BY <3>1
    <3> HIDE DEF First, item
    <3> QED
      BY <2>2, <3>2
  <2> HIDE DEF First, item
  <2>4. Sum(k) = g[item] + Sum(k - 1) /\ Sum(k - 1) \in Int
    <3>1. IsFiniteSet(First(k)) /\ \A x \in First(k) : g[x] \in Int
      BY <1>7, <2>1
    <3>2. IsFiniteSet(First(k - 1)) /\ \A x \in First(k - 1) : g[x] \in Int
      BY <1>7, <2>1
    <3>3. SumFunctionOnSet(g, First(k)) = g[item] + SumFunctionOnSet(g, First(k) \ {item})
      BY <2>3, <3>1, SumRemove
    <3>4. SumFunctionOnSet(g, First(k - 1)) \in Int
      BY <3>2, SumRemove
    <3> QED
      BY <2>3, <3>3, <3>4
  <2>5. /\ g[item] \in Int /\ slot[k].end \in Int /\ slot[k - 1].end \in Int
        /\ slot[k - 1].end + g[item] <= slot[k].end
    BY <1>6 DEF item
  <2> HIDE DEF Sum
  <2> QED
    BY <1>4, <1>9, <2>1, <2>4, <2>5
<1>10. n \in Good
  <2> HIDE DEF Good
  <2>1. \A k \in 0..n : k \in Good
    BY <1>1, <1>8, <1>9, UpTo
  <2> QED
    BY <1>1, <2>1
<1>11. First(n) = ToSet(day.items)
  BY <1>1 DEF ToSet
<1>12. Sum(n) \in Int
  <2>1. IsFiniteSet(First(n)) /\ \A x \in First(n) : g[x] \in Int
    <3>1. n \in 0..n
      BY <1>1
    <3> HIDE DEF First
    <3> QED
      BY <1>7, <3>1
  <2> HIDE DEF First
  <2> QED
    BY <2>1, SumRemove
<1>13. Sum(n) <= f.request.window.end - f.request.window.start
  <2>1. CASE n = 0
    <3>1. First(0) = {}
      OBVIOUS
    <3>2. Sum(0) = 0
      BY <3>1, SumEmpty
    <3> HIDE DEF Sum
    <3> QED
      BY <1>4, <2>1, <3>2
  <2>2. CASE n # 0
    <3>1. n \in 1..n
      BY <1>1, <2>2
    <3>2. slot[n].end \in Int /\ slot[n].end <= f.request.window.end
      BY <1>6, <3>1
    <3> HIDE DEF Sum
    <3> QED
      BY <1>4, <1>10, <1>12, <3>2
  <2> QED
    BY <2>1, <2>2
<1> QED
  BY <1>11, <1>12, <1>13 DEF WindowLength, g

\* The days of the plan have no activities in common.
LEMMA VariantIsInWindow ==
  ASSUME NEW f, GivenOK(f), NEW strategy, NEW plan \in Variants(strategy, f)
  PROVE  SumFunctionOnSet(Busy(Items(plan)), Items(plan))
           <= WindowLength(f.request) * f.request.days
<1> DEFINE g == Busy(Items(plan))
           W == WindowLength(f.request)
           n == f.request.days
           Of(d) == ToSet(plan.days[d].items)
           Until(d) == UNION {Of(e) : e \in 1..d}
           Sum(S) == SumFunctionOnSet(g, S)
           Good == {d \in 0..n : Sum(Until(d)) \in Int /\ Sum(Until(d)) <= W * d}
<1>1. PICK S, order : PlanShape(strategy, f, S, order, plan)
  BY VariantShape
<1>2. n \in Nat /\ DOMAIN plan.days = 1..n
  BY <1>1 DEF PlanShape, GivenOK, RequestIsValid
<1>3. PlanTyped(plan) /\ ItemIdsDiffer(plan)
  BY VariantTyped, VariantShape DEF PlanIsValid
<1>4. Items(plan) = Until(n)
  BY <1>2 DEF Items, ToSet
<1>5. \A d \in 1..n : Of(d) \subseteq Items(plan)
  BY <1>2 DEF Items, ToSet
<1>6. IsFiniteSet(Items(plan)) /\ \A item \in Items(plan) : g[item] \in Int
  <2>1. \A item \in Items(plan) : g[item] = (item.end - item.start) + item.minutes
    BY DEF Busy
  <2> QED
    BY <1>3, <2>1, ItemsAreFinite DEF PlanTyped, ItemTyped
<1>7. W \in Int
  BY DEF GivenOK, RequestIsValid, WindowIsValid, Times, WindowLength
<1>8. ASSUME NEW d \in 1..n
      PROVE  Sum(Of(d)) \in Int /\ Sum(Of(d)) <= W
  <2>1. d \in Int /\ DayShape(strategy, f, d, order[d], plan.days[d])
    BY <1>1 DEF PlanShape
  <2>2. \A i, j \in DOMAIN plan.days[d].items :
          plan.days[d].items[i] = plan.days[d].items[j] => i = j
    BY <1>2, <1>3 DEF ItemIdsDiffer
  <2>3. Of(d) \subseteq Items(plan)
    BY <1>5
  <2> QED
    BY <2>1, <2>2, <2>3, DayIsInWindow
<1>9. ASSUME NEW d \in 1..n, NEW e \in 1..n, d # e
      PROVE  Of(d) \intersect Of(e) = {}
  <2> SUFFICES ASSUME NEW x \in Of(d), x \in Of(e) PROVE FALSE
    OBVIOUS
  <2>1. PICK i \in DOMAIN plan.days[d].items : x = plan.days[d].items[i]
    BY DEF ToSet
  <2>2. PICK j \in DOMAIN plan.days[e].items : x = plan.days[e].items[j]
    BY DEF ToSet
  <2> QED
    BY <1>2, <1>3, <1>9, <2>1, <2>2 DEF ItemIdsDiffer
<1> HIDE DEF g, W, n, Of
<1>10. 0 \in Good
  <2>1. Until(0) = {}
    OBVIOUS
  <2>2. Sum(Until(0)) = 0
    BY <2>1, SumEmpty
  <2> HIDE DEF Sum, Until
  <2> QED
    BY <1>2, <1>7, <2>2
<1>11. ASSUME NEW d \in 1..n, d - 1 \in Good PROVE d \in Good
  <2>1. d \in 0..n /\ d - 1 \in 0..n /\ \A e \in 1..(d - 1) : e \in 1..n /\ e # d
    BY <1>2
  <2>2. Until(d) = Until(d - 1) \union Of(d)
    <3>1. \A e : e \in 1..d <=> e \in 1..(d - 1) \/ e = d
      BY <1>2
    <3> QED
      BY <3>1
  <2>3. Until(d - 1) \intersect Of(d) = {}
    BY <1>9, <2>1
  <2>4. Until(d - 1) \subseteq Items(plan) /\ Of(d) \subseteq Items(plan)
    BY <1>5, <2>1
  <2> HIDE DEF Until
  <2>5. /\ IsFiniteSet(Until(d - 1)) /\ IsFiniteSet(Of(d))
        /\ \A x \in Until(d - 1) \union Of(d) : g[x] \in Int
    BY <1>6, <2>4, FS_Subset
  <2>6. Sum(Until(d)) = Sum(Until(d - 1)) + Sum(Of(d))
    BY <2>2, <2>3, <2>5, SumUnion
  <2>7. W * d = W * (d - 1) + W /\ W * (d - 1) \in Int
    BY <1>2, <1>7
  <2> HIDE DEF Sum
  <2> QED
    BY <1>7, <1>8, <1>11, <2>1, <2>6, <2>7
<1>12. n \in Good
  <2> HIDE DEF Good
  <2>1. \A d \in 0..n : d \in Good
    BY <1>2, <1>10, <1>11, UpTo
  <2> QED
    BY <1>2, <2>1
<1> QED
  BY <1>4, <1>12 DEF g, W, n

\* The optimizer keeps the hard rules in every plan, before anyone reviews it.
LEMMA OptimizerKeepsHardRulesInv == PlanInv => OptimizerKeepsHardRules
<1> SUFFICES ASSUME PlanInv, planner = "optimizer" PROVE OptimizerKeepsHardRules
  BY DEF OptimizerKeepsHardRules
<1>1. FactsOK /\ Planned /\ GivenOK(Given)
  BY GivenIsOK DEF PlanInv
<1>2. PICK b \in Variants("balanced", Given), e \in Variants("economy", Given),
           r \in Variants("relaxed", Given) : plans = <<b, e, r>>
  BY <1>1 DEF Planned
<1>3. ToSet(plans) = {b, e, r}
  BY <1>2 DEF ToSet
<1>4. Given.request = facts.request /\ Given.routes = facts.routes
  BY DEF Given
<1>5. ASSUME NEW strategy, NEW plan \in Variants(strategy, Given)
      PROVE  /\ KeepsHardConstraints(plan, facts.request)
             /\ \A item \in Items(plan) : \E place \in PlaceOf(item) : Admits(place, item)
             /\ \A day \in ToSet(plan.days) : \A k \in 2..Len(day.items) :
                  \E route \in ToSet(facts.routes) :
                    /\ route.from = day.items[k - 1].place /\ route.to = day.items[k].place
                    /\ day.items[k - 1].end + route.minutes <= day.items[k].start
             /\ Activity(Items(plan)) + Commute(plan)
                  <= WindowLength(facts.request) * facts.request.days
  <2>1. KeepsHardConstraints(plan, facts.request)
    BY <1>1, VariantKeepsConstraints
  <2>9. \A item \in Items(plan) : \E place \in PlaceOf(item) : Admits(place, item)
    BY <1>1, VariantIsInTime
  <2>2. \A day \in ToSet(plan.days) : \A k \in 2..Len(day.items) :
                  \E route \in ToSet(facts.routes) :
                    /\ route.from = day.items[k - 1].place /\ route.to = day.items[k].place
                    /\ day.items[k - 1].end + route.minutes <= day.items[k].start
    BY <1>1, <1>4, VariantLeavesTime
  <2> DEFINE I == Items(plan)
             ga == [item \in I |-> item.end - item.start]
             gm == [item \in I |-> item.minutes]
             gb == Busy(I)
  <2>3. SumFunctionOnSet(gb, I) <= WindowLength(facts.request) * facts.request.days
    BY <1>1, <1>4, VariantIsInWindow
  <2>4. IsFiniteSet(I) /\ \A item \in I : ItemTyped(item)
    BY <1>1, VariantTyped, ItemsAreFinite DEF PlanTyped
  <2>5. \A item \in I : /\ ga[item] = item.end - item.start /\ gm[item] = item.minutes
                        /\ gb[item] = (item.end - item.start) + item.minutes
    BY DEF Busy
  <2>6. Activity(I) = SumFunctionOnSet(ga, I) /\ Commute(plan) = SumFunctionOnSet(gm, I)
    BY DEF Activity, Commute, SumFunction, SumFunctionOnSet, FoldFunction
  <2> HIDE DEF ga, gm, gb, I
  <2>7. \A item \in I : ga[item] \in Int /\ gm[item] \in Int /\ gb[item] = ga[item] + gm[item]
    BY <2>4, <2>5 DEF ItemTyped
  <2>8. SumFunctionOnSet(gb, I) = SumFunctionOnSet(ga, I) + SumFunctionOnSet(gm, I)
    BY <2>4, <2>7, SumAdd
  <2> QED
    BY <2>1, <2>2, <2>3, <2>6, <2>8, <2>9 DEF I
<1> QED
  BY <1>3, <1>5 DEF OptimizerKeepsHardRules

\* The plans of the optimizer keep the appointments, visit what is required and
\* nothing excluded, leave the time of a route between two activities, keep each in the
\* window and in the hours of its place by the clock of the trip, and the activities and
\* the ways within the windows of the days (itinerary_planning.py).
THEOREM OptimizerKeepsHardRulesHolds == Spec => []OptimizerKeepsHardRules
BY PlanInvariance, OptimizerKeepsHardRulesInv, PTL

-----------------------------------------------------------------------------
(* The strategies deliver *)

\* The activities of a plan are those of the selected places.
LEMMA ActivitiesOfSelection ==
  ASSUME NEW f, GivenOK(f), NEW strategy, NEW plan, PlanIsValid(plan), ~ Blocked(f),
         NEW S, NEW order, PlanShape(strategy, f, S, order, plan)
  PROVE  \E p \in Bijection(S, Items(plan)) :
           \A k \in S : p[k].place = f.places[k].id /\ p[k].cost = f.places[k].price
<1> DEFINE I == Items(plan)
           p == [k \in S |-> CHOOSE item \in I : item.place = f.places[k].id]
<1>1. {item.place : item \in I} = {f.places[k].id : k \in S}
  BY PlanVisitsSelection
<1>2. ASSUME NEW k \in S
      PROVE  p[k] \in I /\ p[k].place = f.places[k].id
  <2>1. \E item \in I : item.place = f.places[k].id
    BY <1>1
  <2> QED
    BY <2>1
<1>3. /\ \A j, k \in S : f.places[j].id = f.places[k].id => j = k
      /\ S \subseteq 1..Len(f.places)
  BY SelectionFacts DEF PlanShape
<1>4. DOMAIN plan.days = 1..f.request.days
  BY DEF PlanShape
<1>5. ASSUME NEW item \in I
      PROVE  \E d \in DOMAIN plan.days : \E i \in DOMAIN plan.days[d].items :
               /\ item = plan.days[d].items[i]
               /\ item.id = <<strategy, item.place>>
               /\ \E place \in ToSet(f.places) : item.place = place.id /\ item.cost = place.price
  <2>1. PICK d \in DOMAIN plan.days : item \in ToSet(plan.days[d].items)
    BY DEF Items, ToSet
  <2>2. PICK i \in DOMAIN plan.days[d].items : item = plan.days[d].items[i]
    BY <2>1 DEF ToSet
  <2>3. IsActivity(strategy, f, d, order[d], i, item) /\ order[d][i] \in ToSet(f.places)
    BY <1>4, <2>2, PlanActivities DEF IsActivity
  <2>4. item.cost = order[d][i].price
    BY <2>3 DEF IsActivity, ItemAt
  <2> QED
    BY <2>2, <2>3, <2>4 DEF IsActivity
<1>6. \A x, y \in I : x.place = y.place => x = y
  <2>1. ItemIdsDiffer(plan)
    BY DEF PlanIsValid
  <2> SUFFICES ASSUME NEW x \in I, NEW y \in I, x.place = y.place PROVE x = y
    OBVIOUS
  <2>2. PICK d \in DOMAIN plan.days : \E i \in DOMAIN plan.days[d].items :
          x = plan.days[d].items[i] /\ x.id = <<strategy, x.place>>
    BY <1>5
  <2>3. PICK e \in DOMAIN plan.days : \E i \in DOMAIN plan.days[e].items :
          y = plan.days[e].items[i] /\ y.id = <<strategy, y.place>>
    BY <1>5
  <2> QED
    BY <2>1, <2>2, <2>3 DEF ItemIdsDiffer
<1>7. ASSUME NEW k \in S
      PROVE  p[k].cost = f.places[k].price
  <2>1. PICK place \in ToSet(f.places) : p[k].place = place.id /\ p[k].cost = place.price
    BY <1>2, <1>5
  <2>2. PICK j \in DOMAIN f.places : place = f.places[j]
    BY DEF ToSet
  <2>3. k \in DOMAIN f.places
    BY <1>3 DEF GivenOK, IsSequence
  <2>4. j = k
    BY <1>2, <2>1, <2>2, <2>3 DEF GivenOK, NoRepeats
  <2> QED
    BY <2>1, <2>2, <2>4
<1>8. p \in [S -> I] /\ DOMAIN p = S
  BY <1>2
<1> HIDE DEF p, I
<1>9. \A j, k \in S : p[j] = p[k] => j = k
  BY <1>2, <1>3
<1>10. \A item \in I : \E k \in S : p[k] = item
  <2> SUFFICES ASSUME NEW item \in I PROVE \E k \in S : p[k] = item
    OBVIOUS
  <2>1. PICK k \in S : item.place = f.places[k].id
    BY <1>1
  <2> QED
    BY <1>2, <1>6, <2>1
<1>11. p \in Bijection(S, I)
  BY <1>8, <1>9, <1>10 DEF Bijection, Injection, Surjection, IsInjective
<1> QED
  BY <1>2, <1>7, <1>11 DEF I

\* The sums over the activities are sums over the selection.
LEMMA SumsOfSelection ==
  ASSUME FactsOK, NEW strategy, NEW plan \in Variants(strategy, Given)
  PROVE  \E S \in Selections(strategy, Given) :
           /\ UpperSum(Items(plan))
                = SumFunctionOnSet([k \in S |-> KnownUpper(Given.places[k])], S)
           /\ SumFunction([item \in Items(plan) |-> (CHOOSE p \in PlaceOf(item) : TRUE).shortest])
                = SumFunctionOnSet([k \in S |-> Given.places[k].shortest], S)
           /\ Cardinality(Items(plan)) = Cardinality(S)
<1> DEFINE f == Given
           I == Items(plan)
<1>1. GivenOK(f) /\ PlanIsValid(plan) /\ ~ Blocked(f)
  BY GivenIsOK, VariantShape
<1>2. PICK S, order : PlanShape(strategy, f, S, order, plan)
  BY <1>1, VariantShape
<1>3. S \in Selections(strategy, f)
  BY <1>2 DEF PlanShape
<1>4. IsFiniteSet(S) /\ S \subseteq DOMAIN f.places
  BY <1>1, <1>3, SelectionFacts DEF GivenOK, IsSequence
<1>5. \A k \in S : PlaceIsValid(f.places[k])
  BY <1>1, <1>4 DEF GivenOK, ToSet
<1>6. PICK p \in Bijection(S, I) :
        \A k \in S : p[k].place = f.places[k].id /\ p[k].cost = f.places[k].price
  BY <1>1, <1>2, ActivitiesOfSelection
<1>7. \A k \in S : p[k] \in I
  BY <1>6 DEF Bijection, Injection
<1>8. \A k \in S : PlaceOf(p[k]) = {f.places[k]}
  <2> SUFFICES ASSUME NEW k \in S PROVE PlaceOf(p[k]) = {f.places[k]}
    OBVIOUS
  <2>1. f.places = facts.destination.places
    BY DEF Given
  <2>2. \A place \in ToSet(f.places) : place.id = f.places[k].id <=> place = f.places[k]
    BY <1>1, <1>4 DEF GivenOK, NoRepeats, ToSet
  <2>3. f.places[k] \in ToSet(f.places)
    BY <1>4 DEF ToSet
  <2> QED
    BY <1>6, <2>1, <2>2, <2>3 DEF PlaceOf
<1> HIDE DEF f
<1> DEFINE gu == [k \in S |-> KnownUpper(f.places[k])]
           hu == [item \in I |-> IF IsUnknown(item.cost) THEN 0 ELSE item.cost.upper]
           gs == [k \in S |-> f.places[k].shortest]
           hs == [item \in I |-> (CHOOSE q \in PlaceOf(item) : TRUE).shortest]
<1>9. \A k \in S : gu[k] \in Int /\ hu[p[k]] = gu[k]
  <2> SUFFICES ASSUME NEW k \in S PROVE gu[k] \in Int /\ hu[p[k]] = gu[k]
    OBVIOUS
  <2>1. CostIsValid(f.places[k].price)
    BY <1>5 DEF PlaceIsValid
  <2>2. gu[k] \in Int
    BY <2>1 DEF KnownUpper, IsUnknown, CostIsValid
  <2>3. hu[p[k]] = gu[k]
    BY <1>6, <1>7 DEF KnownUpper
  <2> QED
    BY <2>2, <2>3
<1>10. \A k \in S : gs[k] \in Int /\ hs[p[k]] = gs[k]
  <2> SUFFICES ASSUME NEW k \in S PROVE gs[k] \in Int /\ hs[p[k]] = gs[k]
    OBVIOUS
  <2>1. gs[k] \in Int
    BY <1>5 DEF PlaceIsValid
  <2>2. (CHOOSE q \in PlaceOf(p[k]) : TRUE) = f.places[k]
    BY <1>8
  <2>3. p[k] \in I
    BY <1>7
  <2>4. hs[p[k]] = (CHOOSE q \in PlaceOf(p[k]) : TRUE).shortest
    BY <2>3
  <2>5. gs[k] = f.places[k].shortest
    OBVIOUS
  <2> HIDE DEF gs, hs
  <2> QED
    BY <2>1, <2>2, <2>4, <2>5
<1>11. UpperSum(I) = SumFunctionOnSet(hu, I)
  BY DEF UpperSum, SumFunction, SumFunctionOnSet, FoldFunction
<1>12. SumFunction(hs) = SumFunctionOnSet(hs, I)
  BY DEF SumFunction, SumFunctionOnSet, FoldFunction
<1> HIDE DEF gu, hu, gs, hs, I
<1>13. SumFunctionOnSet(hu, I) = SumFunctionOnSet(gu, S)
  BY <1>4, <1>6, <1>9, SumReindex
<1>14. SumFunctionOnSet(hs, I) = SumFunctionOnSet(gs, S)
  BY <1>4, <1>6, <1>10, SumReindex
<1>15. Cardinality(I) = Cardinality(S)
  <2>1. ExistsBijection(S, I)
    BY <1>6 DEF ExistsBijection
  <2> QED
    BY <1>4, <2>1, FS_Bijection
<1> QED
  BY <1>3, <1>11, <1>12, <1>13, <1>14, <1>15 DEF f, I, gu, gs, hs

\* What the strategies make of the same facts.
LEMMA SelectionsCompare ==
  ASSUME NEW f, GivenOK(f), ~ Blocked(f), NEW B \in Selections("balanced", f),
         NEW E \in Selections("economy", f), NEW R \in Selections("relaxed", f)
  PROVE  /\ SumFunctionOnSet([k \in E |-> KnownUpper(f.places[k])], E)
              <= SumFunctionOnSet([k \in R |-> KnownUpper(f.places[k])], R)
         /\ SumFunctionOnSet([k \in R |-> f.places[k].shortest], R)
              <= SumFunctionOnSet([k \in E |-> f.places[k].shortest], E)
         /\ Cardinality(E) <= Cardinality(B) /\ Cardinality(R) <= Cardinality(B)
<1>1. /\ IsFiniteSet(E) /\ IsFiniteSet(R) /\ IsFiniteSet(B)
      /\ E \subseteq DOMAIN f.places /\ R \subseteq DOMAIN f.places
  BY SelectionFacts DEF GivenOK, IsSequence
<1>2. \A k \in DOMAIN f.places : KnownUpper(f.places[k]) \in Int /\ f.places[k].shortest \in Int
  BY DEF GivenOK, ToSet, PlaceIsValid, KnownUpper, CostIsValid, IsUnknown
<1>3. /\ E \in SUBSET Candidates(f) /\ R \in SUBSET Candidates(f)
      /\ Admissible("economy", f, E) /\ Admissible("relaxed", f, R) /\ Admissible("balanced", f, B)
  BY DEF Selections
<1>4. Admissible("economy", f, R) /\ Admissible("relaxed", f, E)
  BY <1>3 DEF Admissible
<1>5. /\ SumFunction([k \in R |-> Weight("economy", f, k)])
           <= SumFunction([k \in E |-> Weight("economy", f, k)])
      /\ SumFunction([k \in E |-> Weight("relaxed", f, k)])
           <= SumFunction([k \in R |-> Weight("relaxed", f, k)])
  BY <1>3, <1>4 DEF Selections
<1>6. \A k : /\ Weight("economy", f, k) = - KnownUpper(f.places[k])
             /\ Weight("relaxed", f, k) = - f.places[k].shortest
  BY DEF Weight
<1>7. \A g : SumFunction(g) = SumFunctionOnSet(g, DOMAIN g)
  BY DEF SumFunction, SumFunctionOnSet, FoldFunction
<1>8. ASSUME NEW S, IsFiniteSet(S), S \subseteq DOMAIN f.places
      PROVE  /\ SumFunction([k \in S |-> Weight("economy", f, k)])
                  = - SumFunctionOnSet([k \in S |-> KnownUpper(f.places[k])], S)
             /\ SumFunctionOnSet([k \in S |-> KnownUpper(f.places[k])], S) \in Int
  <2> DEFINE g == [k \in S |-> KnownUpper(f.places[k])]
             h == [k \in S |-> Weight("economy", f, k)]
  <2>1. \A k \in S : g[k] \in Int /\ h[k] = - g[k]
    BY <1>2, <1>6, <1>8
  <2>2. SumFunction(h) = SumFunctionOnSet(h, S)
    BY <1>7
  <2> HIDE DEF g, h
  <2>3. SumFunctionOnSet(h, S) = - SumFunctionOnSet(g, S) /\ SumFunctionOnSet(g, S) \in Int
    BY <1>8, <2>1, SumNegate
  <2> QED
    BY <2>2, <2>3 DEF g, h
<1>9. ASSUME NEW S, IsFiniteSet(S), S \subseteq DOMAIN f.places
      PROVE  /\ SumFunction([k \in S |-> Weight("relaxed", f, k)])
                  = - SumFunctionOnSet([k \in S |-> f.places[k].shortest], S)
             /\ SumFunctionOnSet([k \in S |-> f.places[k].shortest], S) \in Int
  <2> DEFINE g == [k \in S |-> f.places[k].shortest]
             h == [k \in S |-> Weight("relaxed", f, k)]
  <2>1. \A k \in S : g[k] \in Int /\ h[k] = - g[k]
    BY <1>2, <1>6, <1>9
  <2>2. SumFunction(h) = SumFunctionOnSet(h, S)
    BY <1>7
  <2> HIDE DEF g, h
  <2>3. SumFunctionOnSet(h, S) = - SumFunctionOnSet(g, S) /\ SumFunctionOnSet(g, S) \in Int
    BY <1>9, <2>1, SumNegate
  <2> QED
    BY <2>2, <2>3 DEF g, h
<1>10. SumFunctionOnSet([k \in E |-> KnownUpper(f.places[k])], E)
         <= SumFunctionOnSet([k \in R |-> KnownUpper(f.places[k])], R)
  BY <1>1, <1>5, <1>8
<1>11. SumFunctionOnSet([k \in R |-> f.places[k].shortest], R)
         <= SumFunctionOnSet([k \in E |-> f.places[k].shortest], E)
  BY <1>1, <1>5, <1>9
<1>12. Cardinality(E) <= Cardinality(B) /\ Cardinality(R) <= Cardinality(B)
  <2> DEFINE least == Max({f.request.days,
                           Cardinality({k \in Candidates(f) : f.places[k].id \in Required(f.request)})})
  <2>1. Cardinality(E) = least /\ Cardinality(R) = least /\ Cardinality(B) >= least
    BY <1>3 DEF Admissible
  <2>2. Cardinality(B) \in Nat /\ Cardinality(E) \in Nat
    BY <1>1, FS_CardinalityType
  <2> HIDE DEF least
  <2> QED
    BY <2>1, <2>2
<1> QED
  BY <1>10, <1>11, <1>12

\* The three plans are selections of the same facts.
LEMMA StrategiesDeliverInv == PlanInv => StrategiesDeliver
<1> SUFFICES ASSUME PlanInv, planner = "optimizer" PROVE StrategiesDeliver
  BY DEF StrategiesDeliver
<1>1. FactsOK /\ Planned /\ GivenOK(Given)
  BY GivenIsOK DEF PlanInv
<1>2. PICK b \in Variants("balanced", Given), e \in Variants("economy", Given),
           r \in Variants("relaxed", Given) : plans = <<b, e, r>>
  BY <1>1 DEF Planned
<1>3. plans[1] = b /\ plans[2] = e /\ plans[3] = r
  BY <1>2
<1>4. ~ Blocked(Given)
  BY <1>1, VariantShape
<1> DEFINE least(plan) ==
             SumFunction([item \in Items(plan) |-> (CHOOSE p \in PlaceOf(item) : TRUE).shortest])
           price(S) == SumFunctionOnSet([k \in S |-> KnownUpper(Given.places[k])], S)
           stay(S) == SumFunctionOnSet([k \in S |-> Given.places[k].shortest], S)
<1>5. PICK B \in Selections("balanced", Given) : Cardinality(Items(b)) = Cardinality(B)
  BY <1>1, SumsOfSelection
<1>6. PICK E \in Selections("economy", Given) :
        /\ UpperSum(Items(e)) = price(E) /\ least(e) = stay(E)
        /\ Cardinality(Items(e)) = Cardinality(E)
  BY <1>1, SumsOfSelection
<1>7. PICK R \in Selections("relaxed", Given) :
        /\ UpperSum(Items(r)) = price(R) /\ least(r) = stay(R)
        /\ Cardinality(Items(r)) = Cardinality(R)
  BY <1>1, SumsOfSelection
<1>8. /\ price(E) <= price(R) /\ stay(R) <= stay(E)
      /\ Cardinality(E) <= Cardinality(B) /\ Cardinality(R) <= Cardinality(B)
  BY <1>1, <1>4, SelectionsCompare
<1> HIDE DEF price, stay
<1>9. /\ UpperSum(Items(e)) <= UpperSum(Items(r)) /\ least(r) <= least(e)
      /\ Cardinality(Items(e)) <= Cardinality(Items(b))
      /\ Cardinality(Items(r)) <= Cardinality(Items(b))
  BY <1>5, <1>6, <1>7, <1>8
<1> QED
  BY <1>3, <1>9 DEF StrategiesDeliver

\* The economy plan costs no more than the relaxed one, the relaxed one does not take
\* longer visits, and the balanced one visits at least as many places as either: what
\* the objectives of the strategies promise (itinerary_planning.py).
THEOREM StrategiesDeliverHolds == Spec => []StrategiesDeliver
BY PlanInvariance, StrategiesDeliverInv, PTL
=============================================================================
