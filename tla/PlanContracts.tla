--------------------------- MODULE PlanContracts ---------------------------
(***************************************************************************)
(* The contracts of packages/domain that planning is about: requests,      *)
(* places, routes, claims and itineraries, as predicates that a value of   *)
(* the shape below must satisfy before the program accepts it.             *)
(*                                                                         *)
(*  request  [days, budget : [total, currency, hard], window, limit,       *)
(*            required, excluded, appointments : Seq([date, at, place])]   *)
(*  place    [id, hours : Seq([date, opens, closes]), closures, price,     *)
(*            shortest, longest, system, evidence]                         *)
(*  route    [id, from, to, minutes, system, evidence]                     *)
(*  claim    [id, about, hard, status, evidence]                           *)
(*  item     [id, place, start, end, clock : [start, end], cost, route,    *)
(*            minutes, claims, evidence]                                   *)
(*  day      [date, items : Seq(item), cost]                               *)
(*  plan     [id, days : Seq(day), cost, executable, risks]                *)
(*                                                                         *)
(* A window has a start and an end.  A date is the number of a day of the  *)
(* trip; a time of day is a number below DayLength, a moment is            *)
(* DayLength * date + time.  Weekdays are the dates that fall on them (a   *)
(* trip is at most seven days long) and a place is known by one name.      *)
(* Sets stand for the tuples that must not repeat.                         *)
(*                                                                         *)
(* start_at and end_at of an item carry an offset from UTC, each its own.  *)
(* As instants, which order and durations go by, they are start and end,   *)
(* on the clock of the trip's timezone; what a clock of their own offset   *)
(* shows is clock, and date() and time() read that one.                    *)
(***************************************************************************)
EXTENDS Integers, Sequences, SequencesExt

CONSTANTS
  DayLength,  \* the time units of a day
  NoRoute     \* None, for an item that no route leads to

ASSUME PlanContractsAssumption == DayLength \in Nat \ {0}

MaxDays == 7

IsSequence(s) == s \in Seq(ToSet(s))

DateOf(moment) == moment \div DayLength
TimeOf(moment) == moment % DayLength
Moment(date, time) == DayLength * date + time

-----------------------------------------------------------------------------
(* CostEstimate *)

NoAmount == -1

Unknown(currency) == [currency |-> currency, lower |-> NoAmount, upper |-> NoAmount]

IsUnknown(cost) == cost.upper = NoAmount

CostIsValid(cost) ==
  \/ cost.lower = NoAmount /\ cost.upper = NoAmount
  \/ cost.lower \in Nat /\ cost.upper \in Nat /\ cost.lower <= cost.upper

-----------------------------------------------------------------------------
(* TripRequest *)

Times == 0..(DayLength - 1)

WindowIsValid(window) ==
  window.start \in Times /\ window.end \in Times /\ window.start < window.end

RequestIsValid(request) ==
  /\ request.days \in 1..MaxDays
  /\ request.budget.total \in Nat \ {0} /\ request.limit \in Nat
  /\ WindowIsValid(request.window)
  /\ request.required \intersect request.excluded = {}
  /\ IsSequence(request.appointments)
  /\ \A a \in ToSet(request.appointments) :
       WindowIsValid(a.at) /\ a.date \in 1..request.days

Booked(request) == {a.place : a \in ToSet(request.appointments)}

-----------------------------------------------------------------------------
(* Place, Route and Claim *)

PlaceIsValid(place) ==
  /\ IsSequence(place.hours)
  /\ \A period \in ToSet(place.hours) :
       period.opens \in Times /\ period.closes \in Times /\ period.opens < period.closes
  /\ CostIsValid(place.price)
  /\ place.shortest \in Nat \ {0} /\ place.longest \in Nat /\ place.shortest <= place.longest
  /\ place.evidence # {}

RouteIsValid(route) ==
  route.from # route.to /\ route.minutes \in Nat /\ route.evidence # {}

ClaimIsValid(claim) == claim.status # "unknown" => claim.evidence # {}

-----------------------------------------------------------------------------
(* ItineraryVersion *)

Items(plan) == UNION {ToSet(day.items) : day \in ToSet(plan.days)}

ItemIsValid(item) ==
  /\ item.start < item.end
  /\ item.route = NoRoute => item.minutes = 0
  /\ item.minutes >= 0
  /\ item.evidence # {}

NoRepeats(seq) == \A i, j \in DOMAIN seq : seq[i] = seq[j] => i = j

\* No id is used twice in a plan.
ItemIdsDiffer(plan) ==
  \A d, e \in DOMAIN plan.days :
    \A k \in DOMAIN plan.days[d].items, l \in DOMAIN plan.days[e].items :
      plan.days[d].items[k].id = plan.days[e].items[l].id => d = e /\ k = l

PlanIsValid(plan) ==
  /\ Len(plan.days) \in 1..MaxDays
  /\ \A day \in ToSet(plan.days) : day.items # <<>>
  /\ \A item \in Items(plan) : ItemIsValid(item)
  /\ NoRepeats([d \in DOMAIN plan.days |-> plan.days[d].date])
  /\ ItemIdsDiffer(plan)
  /\ plan.executable => plan.risks = {}

\* A plan's id stands for its strategy, which may not repeat either.
CandidatesAreValid(plans) ==
  /\ Len(plans) \in 1..3
  /\ \A plan \in ToSet(plans) : PlanIsValid(plan)
  /\ NoRepeats([k \in DOMAIN plans |-> plans[k].id])
=============================================================================
