-------------------------- MODULE MCTripPlanning --------------------------
(***************************************************************************)
(* Trips of one or two days to three places, in hours.                     *)
(***************************************************************************)
EXTENDS TripPlanning

Price(lower, upper) == [currency |-> "CNY", lower |-> lower, upper |-> upper]
Hours(date, opens, closes) == [date |-> date, opens |-> opens, closes |-> closes]

Garden == [id |-> "garden", hours |-> <<Hours(1, 9, 18), Hours(2, 9, 18)>>,
           closures |-> {}, price |-> Price(2, 2), shortest |-> 2, longest |-> 3, system |-> "GCJ02", evidence |-> {"e1"}]

\* Closed at noon on the first day.
Museum == [Garden EXCEPT !.id = "museum", !.price = Price(4, 5), !.shortest = 1, !.longest = 4,
             !.hours = <<Hours(1, 9, 12), Hours(1, 13, 18), Hours(2, 9, 18)>>]

Tower == [Garden EXCEPT !.id = "tower", !.price = Price(1, 1), !.shortest = 3, !.longest = 3]

Claim(status) == [id |-> "c", about |-> "garden", hard |-> TRUE, status |-> status,
                  evidence |-> {"e1"}]

Found == [places |-> <<Garden, Museum, Tower>>, claims |-> {Claim("verified")},
          evidence |-> {<<"e1", "x">>}, unknowns |-> {}]

MCDestinations ==
  {Found,
   [Found EXCEPT !.claims = {Claim("contradicted")}],
   [Found EXCEPT !.claims = {Claim("unknown")}],
   [Found EXCEPT !.places[3].evidence = {"e2"}, !.evidence = {<<"e1", "x">>, <<"e2", "y">>}],
   [Found EXCEPT !.places[2].price = Unknown("CNY")],
   [Found EXCEPT !.places[2].closures = {1}],
   [Found EXCEPT !.places[3].system = "WGS84"]}

MCMobilities ==
  {[evidence |-> E, unknowns |-> {}] : E \in {{<<"m", "x">>}, {<<"e1", "y">>}, {<<"e2", "x">>}}}

Way(from, to, n, minutes) ==
  [id |-> <<from, to, n>>, from |-> from, to |-> to, minutes |-> minutes,
   system |-> "GCJ02", evidence |-> {"e1"}]

Everywhere ==
  <<Way("garden", "museum", 1, 1), Way("museum", "garden", 1, 1), Way("garden", "tower", 1, 1),
    Way("tower", "garden", 1, 1), Way("museum", "tower", 1, 1), Way("tower", "museum", 1, 1)>>

MCMatrices ==
  {Everywhere,
   <<Way("tower", "museum", 1, 1), Way("garden", "tower", 1, 1), Way("garden", "tower", 2, 2)>>,
   [Everywhere EXCEPT ![1].evidence = {"m"}],
   <<Way("garden", "museum", 1, 1), Way("museum", "garden", 1, 1)>>,
   <<>>}

Booking(date, start, end, place) ==
  [date |-> date, at |-> [start |-> start, end |-> end], place |-> place]

Asked(days, total, hard, required, excluded, appointments) ==
  [days |-> days, budget |-> [total |-> total, currency |-> "CNY", hard |-> hard],
   window |-> [start |-> 9, end |-> 17], limit |-> 7,
   required |-> required, excluded |-> excluded, appointments |-> appointments]

MCRequests ==
  {Asked(1, 6, FALSE, {}, {}, <<>>),
   Asked(1, 6, TRUE, {}, {"tower"}, <<>>),
   Asked(1, 6, TRUE, {"tower"}, {}, <<Booking(1, 14, 15, "museum")>>),
   Asked(1, 9, TRUE, {}, {"tower"}, <<Booking(1, 9, 11, "museum"), Booking(1, 13, 15, "garden")>>),
   Asked(2, 6, FALSE, {"garden"}, {}, <<>>),
   Asked(2, 8, TRUE, {}, {}, <<Booking(2, 10, 11, "museum")>>),
   Asked(2, 9, FALSE, {}, {}, <<Booking(1, 9, 11, "garden"), Booking(1, 13, 14, "museum")>>)}

\* By a clock that is so many hours ahead of the trip's.
Abroad(place, start, end, ahead) ==
  [place |-> place, start |-> start, end |-> end, ahead |-> [start |-> ahead, end |-> ahead]]

Visit(place, start, end) == Abroad(place, start, end, 0)

\* The tower overlaps the garden, the museum is visited at noon, the last visit
\* is over after the window; the clock of UTC shows eight hours less.
Visits ==
  {Visit("garden", 9, 11), Visit("tower", 10, 13), Visit("museum", 11, 13),
   Visit("museum", 13, 14), Visit("garden", 15, 18), Visit("garden", 14, 16),
   Abroad("garden", 14, 16, -8)}

\* Nobody knows a castle; a clock far behind puts an activity on another day of the
\* trip, and one with two clocks may end before it starts, or last for hours.
OddVisits ==
  {Visit("castle", 9, 11), Abroad("garden", 14, 16, -13), Abroad("tower", 9, 12, 9),
   [Visit("museum", 13, 14) EXCEPT !.ahead.end = 2],
   [Visit("museum", 14, 13) EXCEPT !.ahead.end = -2],
   [Visit("museum", 13, 14) EXCEPT !.ahead.end = -8]}

LastDays ==
  {<<Visit("tower", 10, 13)>>, <<Visit("museum", 13, 14), Visit("garden", 14, 16)>>,
   <<Abroad("museum", 9, 10, 6)>>}

MCDrafts ==
  {<<<<v>>>> : v \in Visits \union OddVisits}
  \union {<<<<v, w>>>> : v, w \in Visits}
  \union {<<<<v>>, last>> : v \in Visits \union OddVisits, last \in LastDays}

\* A plan of the planner's model that keeps nothing of what the request asks for but
\* the activity limit and the budget; the clock is that of UTC.
ForgedRequests == {Asked(1, 6, TRUE, {"garden"}, {}, <<Booking(1, 14, 15, "museum")>>)}
ForgedDrafts == {<<<<Abroad("tower", 10, 13, -8)>>>>}
=============================================================================
