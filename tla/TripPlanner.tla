----------------------------- MODULE TripPlanner -----------------------------
(***************************************************************************)
(* The two deterministic Tools of the Agent, one after the other as the     *)
(* workflow calls them: find_best_weather_window (src/weather_tool.py)      *)
(* recommends dates, and plan_wikivoyage_trip                               *)
(* (src/travel_planner/service.py) turns the attractions of the city into   *)
(* one group per day: selection, capacity-constrained k-medoids, trimming,  *)
(* matching of groups to forecast days, and the route of every day.         *)
(*                                                                          *)
(* Every iteration of the loops (medoids, trimming, matching) is a step.    *)
(* The weather service, Wikivoyage and OpenRouteService are the             *)
(* environment: they answer anything of the constants' sets, or fail.       *)
(* Scores are in hundredths, travel times in fractions of a minute          *)
(* (PerMinute to a minute), and the symmetric distance is twice the mean.   *)
(* Sums of scores and times are exact.                                      *)
(***************************************************************************)
EXTENDS WeatherWindow, Attractions, DayMatching, DayRoutes

CONSTANTS
  Asks,            \* requests: [trip, dates, most, related, interests, excludes]
  Forecasts,       \* what the weather service may return
  Wikis,           \* what the search for the city may find
  Places,          \* the places a geocoder may find
  Durations,       \* Durations[a][b]: the cells of the ORS matrix, in PerMinute-ths
  DailyMinutes,    \* the time budget of a day, 240..720
  MaxIterations    \* of capacitated_k_medoids, 12

\* What the Tools' schemas admit (WeatherToolInput, TravelPlannerInput).
ASSUME AsksAssumption ==
  /\ Asks \subseteq [trip: 1..7, dates: SUBSET Nat, most: 3..35, related: 1..15,
                    interests: SUBSET STRING, excludes: BOOLEAN]
  /\ \A request \in Asks : IsFiniteSet(request.dates) /\ IsFiniteSet(request.interests)
  /\ DailyMinutes \in 240..720

Weathers == [sunshine: Nat, daylight: Nat, rain: Int, temp: Int, wind: Int]

\* The daily forecast of Open-Meteo: the first date is the earliest, the last the latest.
ASSUME ForecastsAssumption ==
  /\ Forecasts \subseteq Seq([date: Nat, weather: Weathers \cup {Missing}])
  /\ Missing \notin Weathers
  /\ \A fc \in Forecasts :
       fc # <<>> /\ \A i, j \in DOMAIN fc : i < j => fc[i].date < fc[j].date

\* Ages in days; of a date that cannot be parsed there is none.
SomeAges == {ages \in SUBSET Nat : IsFiniteSet(ages)}

Listings ==
  [key: Nat, section: STRING, name: SUBSET STRING,
   content: [length: Nat, words: SUBSET STRING], address: SUBSET STRING, hours: SUBSET STRING,
   details: SUBSET STRING, edited: SomeAges, place: Places \cup {NoPlace, HalfPlace},
   minutes: Nat, closed: SUBSET (0..6)]

SourcePages == [title: STRING, kind: STRING, age: SomeAges, listings: Seq(Listings)]

ASSUME WikisAssumption ==
  /\ Wikis \subseteq Seq([exact: BOOLEAN, fits: BOOLEAN, page: SourcePages \cup {NoPage}])
  /\ NoPage \notin SourcePages

ASSUME PlacesAssumption ==
  /\ NoPlace \notin Places /\ HalfPlace \notin Places
  /\ Durations \in [Places -> [Places -> Nat]]

ASSUME LimitsAssumption == MaxIterations \in Nat \ {0} /\ ExactLimit \in Nat
                            /\ PerMinute \in Nat \ {0}

VARIABLES
  phase,      \* where the two calls are
  outcome,    \* status of the last Tool result: "none", "ok" or an error code
  ask,        \* the request
  forecast,   \* the daily forecast, until the window is chosen
  days,       \* daily_weather of the recommended window
  pages,      \* the pages collected
  pois,       \* the attractions: all, then the usable, then the selected ones
  geocoder,   \* "up", or "down" after its first failure
  travel,     \* the ORS matrix over pois
  search,     \* the medoids of this round, the rounds done, the best round
  groups,     \* the attractions of each day, by position in pois
  dropped,    \* the positions left out for capacity
  costs,      \* the cost of every group on every day
  match,      \* the registers of the matching
  plan        \* the itinerary, by day

vars == <<phase, outcome, ask, forecast, days, pages, pois, geocoder, travel, search,
          groups, dropped, costs, match, plan>>

Capacity == DailyMinutes - 60     \* an hour is kept for lunch

NoSearch == [medoids |-> <<>>, rounds |-> 0, groups |-> <<>>, left |-> {},
             objective |-> 0]
NoMatch == MatchStart(0)

Init ==
  /\ phase = "asked" /\ outcome = "none"
  /\ ask \in Asks /\ forecast \in Forecasts
  /\ days = <<>> /\ pages = <<>> /\ pois = <<>> /\ geocoder = "up" /\ travel = <<>>
  /\ search = NoSearch /\ groups = <<>> /\ dropped = {}
  /\ costs = <<>> /\ match = NoMatch /\ plan = <<>>

Failed(code) ==
  /\ phase' = "failed" /\ outcome' = code
  /\ UNCHANGED <<ask, forecast, days, pages, pois, geocoder, travel, search, groups, dropped,
                 costs, match, plan>>

-----------------------------------------------------------------------------
(* find_best_weather_window *)

WeatherUnavailable ==
  /\ phase = "asked"
  /\ \E code \in {"WEATHER_SERVICE_UNAVAILABLE", "LOCATION_OR_RESPONSE_ERROR",
                  "EMPTY_FORECAST"} : Failed(code)

ForecastOutOfRange ==
  /\ phase = "asked"
  /\ OutOfRange(forecast, ask.dates)
  /\ Failed("FORECAST_OUT_OF_RANGE")

Rows == CompleteRows(forecast, ask.dates)

NoCompleteWindow ==
  /\ phase = "asked"
  /\ ~OutOfRange(forecast, ask.dates)
  /\ Windows(Rows, ask.trip) = {}
  /\ Failed("INSUFFICIENT_COMPLETE_FORECAST")

Recommend ==
  /\ phase = "asked"
  /\ ~OutOfRange(forecast, ask.dates)
  /\ Windows(Rows, ask.trip) # {}
  /\ days' = BestWindow(Rows, ask.trip)
  /\ phase' = "dated" /\ forecast' = <<>>
  /\ ask' = [ask EXCEPT !.dates = {}]     \* plan_trip is not given them
  /\ UNCHANGED <<outcome, pages, pois, geocoder, travel, search, groups, dropped, costs,
                 match, plan>>

-----------------------------------------------------------------------------
(* plan_trip: the attractions and where they are *)

SourcesFail ==
  /\ phase = "dated"
  /\ \E code \in {"MISSING_ORS_API_KEY", "UPSTREAM_TIMEOUT", "UPSTREAM_RATE_LIMITED",
                  "UPSTREAM_HTTP_ERROR", "PLANNING_ERROR"} : Failed(code)

Search ==
  /\ phase = "dated"
  /\ \E wiki \in Wikis : pages' = CollectedPages(wiki, ask.related)
  /\ phase' = "searched"
  /\ UNCHANGED <<outcome, ask, forecast, days, pois, geocoder, travel, search, groups,
                 dropped, costs, match, plan>>

NothingListed(listed) ==
  \/ pages = <<>> /\ Failed("WIKIVOYAGE_PAGE_NOT_FOUND")
  \/ pages # <<>> /\ listed = <<>> /\ Failed("NO_LISTINGS")
  \/ /\ listed # <<>> /\ Filtered(listed, ask.excludes) = <<>>
     /\ Failed("NO_LISTINGS_AFTER_FILTERING")

Collect ==
  /\ phase = "searched"
  /\ \E listed \in {Extracted(pages)} :
       \/ NothingListed(listed)
       \/ /\ pois' = Filtered(listed, ask.excludes)
          /\ pois' # <<>>
          /\ phase' = "collected"
          /\ UNCHANGED <<outcome, ask, forecast, days, pages, geocoder, travel, search, groups,
                         dropped, costs, match, plan>>

Unplaced(catalogue) == {i \in DOMAIN catalogue : ~Located(catalogue[i])}

(* The geocoder is asked in order; its first request error ends the loop,  *)
(* an unknown or doubtful match leaves the attraction unplaced.            *)
Geocode ==
  /\ phase = "collected"
  /\ \E found \in SUBSET Unplaced(pois) :
     \E at \in [found -> Places], up \in BOOLEAN :
       /\ up \/ \E i \in Unplaced(pois) \ found : \A j \in found : j < i
       /\ geocoder' = IF up THEN "up" ELSE "down"
       /\ pois' = [i \in DOMAIN pois |->
                     IF i \in found THEN [pois[i] EXCEPT !.place = at[i]] ELSE pois[i]]
  /\ phase' = "located"
  /\ UNCHANGED <<outcome, ask, forecast, days, pages, travel, search, groups, dropped, costs,
                 match, plan>>

\* An answer that is no JSON, or without numbers, ends the call.
GeocodeFails ==
  /\ phase = "collected"
  /\ Unplaced(pois) # {}
  /\ Failed("PLANNING_ERROR")

-----------------------------------------------------------------------------
(* The selection, best score first *)

Usable(i) == ~pois[i].shut /\ Located(pois[i]) /\ pois[i].visit <= Capacity

\* The sort is stable: of equal scores the attraction listed first.
Rank ==
  /\ phase = "located"
  /\ \E scored \in {[i \in DOMAIN pois |->
                      [pois[i] EXCEPT !.score = Score(pois[i], ask.interests)]]} :
       LET usable == {i \in DOMAIN pois : Usable(i)}
           higher == [i \in usable |->
                        {j \in usable : \/ scored[j].score > scored[i].score
                                        \/ scored[j].score = scored[i].score /\ j < i}]
           ranked == Sorted(usable, higher)
       IN  pois' = [n \in DOMAIN ranked |-> scored[ranked[n]]]
  /\ phase' = "ranked"
  /\ UNCHANGED <<outcome, ask, forecast, days, pages, geocoder, travel, search, groups, dropped,
                 costs, match, plan>>

TooFew ==
  /\ phase = "ranked"
  /\ Len(pois) < ask.trip
  /\ Failed(IF geocoder = "down" THEN "ORS_GEOCODER_UNAVAILABLE"
            ELSE "INSUFFICIENT_MAPPABLE_ATTRACTIONS")

Room(kept, most) == Len(kept) < most

\* A later attraction may still fit where a longer one did not.
Selection ==
  LET kept[n \in 0..Len(pois)] ==
        IF n = 0 THEN [list |-> <<>>, load |-> 0]
        ELSE LET list == kept[n - 1].list
                 load == kept[n - 1].load + pois[n].visit + (IF list = <<>> THEN 0 ELSE 15)
             IN  IF Room(list, ask.most) /\ (Len(list) < ask.trip \/ load <= ask.trip * Capacity)
                   THEN [list |-> Append(list, pois[n]), load |-> load]
                   ELSE kept[n - 1]
  IN  kept[Len(pois)].list

\* Fewer are selected than there are days only when max_candidates is below trip_days.
Select ==
  /\ phase = "ranked"
  /\ Len(pois) >= ask.trip
  /\ \E selection \in {Selection} :
       IF Len(selection) < ask.trip
         THEN Failed("CAPACITY_TOO_SMALL")
         ELSE /\ pois' = selection
              /\ phase' = "selected"
              /\ UNCHANGED <<outcome, ask, forecast, days, pages, geocoder, travel, search, groups,
                             dropped, costs, match, plan>>

Measure ==
  /\ phase = "selected"
  /\ travel' = [i \in DOMAIN pois |->
                  [j \in DOMAIN pois |-> Durations[pois[i].place][pois[j].place]]]
  /\ phase' = "measured"
  /\ UNCHANGED <<outcome, ask, forecast, days, pages, pois, geocoder, search, groups, dropped,
                 costs, match, plan>>

MatrixFails ==
  /\ phase = "selected"
  /\ \E code \in {"ORS_AUTH_FAILED", "UPSTREAM_TIMEOUT", "UPSTREAM_RATE_LIMITED",
                  "UPSTREAM_HTTP_ERROR", "PLANNING_ERROR"} : Failed(code)

-----------------------------------------------------------------------------
(* capacitated_k_medoids *)

Apart(i, j) == IF i = j THEN 0 ELSE travel[i][j] + travel[j][i]

ApartFromAll(i, list) == SumFunction([n \in DOMAIN list |-> Apart(i, list[n])])

All == [i \in DOMAIN pois |-> i]

\* The best score, then each time the attraction farthest from the medoids so far.
InitialMedoids ==
  LET first == FirstMin(All, [i \in DOMAIN pois |-> <<-pois[i].score, 0>>])
      farthest(medoids) ==
        LET others == DOMAIN pois \ ToSet(medoids)
        IN  FirstMin(Ascending(others),
                     [i \in others |-> <<-Min({Apart(i, m) : m \in ToSet(medoids)}), -pois[i].score>>])
      chosen[n \in 1..ask.trip] ==
        IF n = 1 THEN <<first>> ELSE Append(chosen[n - 1], farthest(chosen[n - 1]))
  IN  chosen[ask.trip]

\* How much an attraction loses if its nearest medoid is full.
Regret(i, medoids) ==
  LET nearest == FirstMin(medoids, [m \in ToSet(medoids) |-> <<Apart(i, m), 0>>])
      others == ToSet(medoids) \ {nearest}
      second == Min({Apart(i, m) : m \in others})
  IN  <<IF others = {} THEN Apart(i, nearest) ELSE second - Apart(i, nearest), pois[i].visit>>

\* _assign_to_medoids: the greatest regret first, to the nearest group with room.
Assigned(medoids) ==
  LET size == Len(medoids)
      others == DOMAIN pois \ ToSet(medoids)
      regret == [i \in others |-> Regret(i, medoids)]
      sooner == [i \in others |->
                   {j \in others : \/ Before(regret[i], regret[j])
                                   \/ regret[i] = regret[j] /\ j < i}]
      queue == Sorted(others, sooner)
      place(acc, i) ==
        LET needs == pois[i].visit + 15
            feasible == {g \in 1..size : acc.loads[g] + needs <= Capacity}
            g == FirstMin(Ascending(feasible),
                          [x \in feasible |-> <<Apart(i, medoids[x]), acc.loads[x]>>])
        IN  IF feasible = {} THEN [acc EXCEPT !.left = @ \cup {i}]
            ELSE [acc EXCEPT !.groups[g] = Append(@, i), !.loads[g] = @ + needs]
      placed[n \in 0..Len(queue)] ==
        IF n = 0 THEN [groups |-> [g \in 1..size |-> <<medoids[g]>>],
                       loads |-> [g \in 1..size |-> pois[medoids[g]].visit], left |-> {}]
        ELSE place(placed[n - 1], queue[n])
  IN  placed[Len(queue)]

Objective(assigned, medoids) ==
  100 * SumFunction([g \in DOMAIN medoids |-> ApartFromAll(medoids[g], assigned.groups[g])])
  + SumFunction([i \in assigned.left |-> 2 * PerMinute * (100000 + pois[i].score)])

Recentred(clusters) ==
  [g \in DOMAIN clusters |->
     FirstMin(clusters[g], [i \in ToSet(clusters[g]) |-> <<ApartFromAll(i, clusters[g]), 0>>])]

Seed ==
  /\ phase = "measured"
  /\ search' = [NoSearch EXCEPT !.medoids = InitialMedoids, !.left = DOMAIN pois]
  /\ phase' = "clustering"
  /\ UNCHANGED <<outcome, ask, forecast, days, pages, pois, geocoder, travel, groups, dropped,
                 costs, match, plan>>

\* One round: the best round so far is kept; the loop ends when the medoids stay.
Refine ==
  /\ phase = "clustering"
  /\ \E assigned \in {Assigned(search.medoids)} :
     LET next == Recentred(assigned.groups)
         objective == Objective(assigned, search.medoids)
         better == search.rounds = 0 \/ objective < search.objective
         best == IF better THEN [groups |-> assigned.groups, left |-> assigned.left]
                 ELSE [groups |-> search.groups, left |-> search.left]
     IN  IF next = search.medoids \/ search.rounds + 1 = MaxIterations
           THEN /\ phase' = "trimming" /\ search' = NoSearch
                /\ groups' = best.groups /\ dropped' = best.left
           ELSE /\ search' = [medoids |-> next, rounds |-> search.rounds + 1,
                              groups |-> best.groups, left |-> best.left,
                              objective |-> IF better THEN objective ELSE search.objective]
                /\ UNCHANGED <<phase, groups, dropped>>
  /\ UNCHANGED <<outcome, ask, forecast, days, pages, pois, geocoder, travel, costs, match, plan>>

-----------------------------------------------------------------------------
(* trim_clusters_to_capacity *)

\* Mutant for DayFits: the travel between the stops is not counted.
OverfullByVisits(g) == Len(groups[g]) > 1 /\ Visits(groups[g], pois) > Capacity

Overfull(g) ==
  /\ Len(groups[g]) > 1
  /\ PerMinute * Visits(groups[g], pois) + LegsOf(ShortestOpenPath(groups[g], travel), travel)
       > PerMinute * Capacity

\* Mutant for NothingLost: what is trimmed is not reported.
TrimUnreported ==
  /\ phase = "trimming"
  /\ \E g \in DOMAIN groups :
       /\ Overfull(g)
       /\ \A h \in 1..(g - 1) : ~Overfull(h)
       /\ groups' = [groups EXCEPT ![g] = Tail(@)]
  /\ UNCHANGED <<phase, outcome, ask, forecast, days, pages, pois, geocoder, travel, search,
                 dropped, costs, match, plan>>

\* The group loses its lowest score, the longest visit of equal ones.
Trim ==
  /\ phase = "trimming"
  /\ \E g \in DOMAIN groups :
       /\ Overfull(g)
       /\ \A h \in 1..(g - 1) : ~Overfull(h)
       /\ LET least == FirstMin(groups[g], [i \in ToSet(groups[g]) |->
                                              <<pois[i].score, -pois[i].visit>>])
              kept == {n \in DOMAIN groups[g] : groups[g][n] # least}
          IN  /\ groups' = [groups EXCEPT ![g] = PartOf(@, kept)]
              /\ dropped' = dropped \cup {least}
  /\ UNCHANGED <<phase, outcome, ask, forecast, days, pages, pois, geocoder, travel, search,
                 costs, match, plan>>

-----------------------------------------------------------------------------
(* assignment_costs and hungarian *)

Conflicts(group, date) == {i \in ToSet(group) : Weekday(date) \in pois[i].closed}

\* Mutant for ClosedOnlyIfUnavoidable: no more than a crowded weekend.
MildClosedPenalty == 1200

ClosedPenalty == 1000000

\* In hundredths; no forecast of the weather Tool holds a sunset.
Cost(group, day) ==
  LET badness == WeatherBadness(day.weather)
      total == Visits(group, pois)
      indoors == SumFunction([n \in DOMAIN group |-> pois[group[n]].visit * pois[group[n]].indoor])
      indoor == IF total > 0 THEN indoors \div total ELSE 50
      crowd == (1200 * Cardinality({n \in DOMAIN group : pois[group[n]].crowd})) \div Len(group)
      night == \E i \in ToSet(group) : pois[i].night
  IN  badness * (100 - indoor)
      + (IF Conflicts(group, day.date) # {} THEN ClosedPenalty ELSE 0)
      + (IF Weekday(day.date) >= 5 THEN crowd ELSE 0)
      + (IF night /\ badness >= 55 THEN 2000 ELSE 0)
      + (IF night THEN 300 ELSE 0)

Weigh ==
  /\ phase = "trimming"
  /\ \A g \in DOMAIN groups : ~Overfull(g)
  /\ costs' = [g \in DOMAIN groups |-> [d \in DOMAIN days |-> Cost(groups[g], days[d])]]
  /\ match' = MatchStart(ask.trip)
  /\ phase' = "matching"
  /\ UNCHANGED <<outcome, ask, forecast, days, pages, pois, geocoder, travel, search, groups,
                 dropped, plan>>

Scan ==
  /\ phase = "matching"
  /\ ~Augmentable(match) /\ ~Placed(match, ask.trip)
  /\ match' = Scanned(match, costs, ask.trip)
  /\ UNCHANGED <<phase, outcome, ask, forecast, days, pages, pois, geocoder, travel, search, groups,
                 dropped, costs, plan>>

Augment ==
  /\ phase = "matching"
  /\ Augmentable(match)
  /\ match' = Augmented(match, ask.trip)
  /\ UNCHANGED <<phase, outcome, ask, forecast, days, pages, pois, geocoder, travel, search, groups,
                 dropped, costs, plan>>

\* The itinerary in date order, each day with its route.
Build ==
  /\ phase = "matching"
  /\ Placed(match, ask.trip)
  /\ LET dayOf == Assignment(match, ask.trip)
         groupOn == [d \in DOMAIN days |-> CHOOSE g \in DOMAIN groups : dayOf[g] = d]
         order == [d \in DOMAIN days |-> DayOrder(groups[groupOn[d]], pois, travel)]
     IN  plan' = [d \in DOMAIN days |->
                    [group |-> groupOn[d], order |-> order[d],
                     conflicts |-> Conflicts(groups[groupOn[d]], days[d].date),
                     end |-> DayEnd(order[d], pois, travel)]]
  /\ phase' = "done" /\ outcome' = "ok"
  /\ UNCHANGED <<ask, forecast, days, pages, pois, geocoder, travel, search, groups, dropped,
                 costs, match>>

-----------------------------------------------------------------------------
\* The Tool call has returned.
Returned == phase \in {"done", "failed"} /\ UNCHANGED vars

Next ==
  \/ WeatherUnavailable \/ ForecastOutOfRange \/ NoCompleteWindow \/ Recommend
  \/ SourcesFail \/ Search \/ Collect \/ Geocode \/ GeocodeFails
  \/ Rank \/ TooFew \/ Select \/ Measure \/ MatrixFails
  \/ Seed \/ Refine \/ Trim \/ Weigh \/ Scan \/ Augment \/ Build
  \/ Returned

Spec == Init /\ [][Next]_vars

-----------------------------------------------------------------------------
(* Properties *)

(* What the recommendation promises of a forecast, from the calendar alone:  *)
(* runs of n dates, all asked for and complete.                              *)
CompleteRuns(fc, dates, n) ==
  LET whole == {d.date : d \in {e \in ToSet(fc) : e.weather # Missing}}
  IN  {first \in whole : \A d \in first..(first + n - 1) :
                           d \in whole /\ (dates = {} \/ d \in dates)}

RunOf(fc, first, n) == PartOf(fc, {i \in DOMAIN fc : fc[i].date \in first..(first + n - 1)})

\* The recommended days are a run of consecutive complete dates inside the
\* request, and no other such run has a better mean or, at the same mean, a better
\* worst day; the Tool refuses only when there is none (select_best_window).
RecommendsBestWindow ==
  [][phase = "asked" =>
       LET runs == CompleteRuns(forecast, ask.dates, ask.trip)
           merit(first) == Merit(RunOf(forecast, first, ask.trip))
       IN  /\ phase' = "dated" =>
                \E first \in runs :
                  /\ days' = RunOf(forecast, first, ask.trip)
                  /\ \A other \in runs : ~Before(merit(first), merit(other))
           /\ outcome' \in {"INSUFFICIENT_COMPLETE_FORECAST", "FORECAST_OUT_OF_RANGE"} =>
                runs = {} \/ \E d \in ask.dates : \A e \in ToSet(forecast) : e.date # d]_vars

ListingsOf(poi) ==
  {listing \in UNION {ToSet(page.listings) : page \in ToSet(pages)} :
     listing.section \in {"see", "do"} /\ listing.key = poi.key}

\* Every selected attraction is in exactly one group or among the dropped, through
\* all rounds and trims, and every day keeps a group with at least one attraction;
\* none is planned twice under two listings, and none that any page calls shut.
NothingLost ==
  phase \in {"trimming", "matching", "done"} =>
    LET members == [g \in DOMAIN groups |-> ToSet(groups[g])]
    IN  /\ \A i, j \in DOMAIN pois : i # j => pois[i].key # pois[j].key
        /\ \A i \in DOMAIN pois :
             \A listing \in ListingsOf(pois[i]) : "closed down" \notin Told(listing)
        /\ Len(groups) = ask.trip
        /\ \A g \in DOMAIN groups : groups[g] # <<>> /\ Cardinality(members[g]) = Len(groups[g])
        /\ \A g, h \in DOMAIN groups : g # h => members[g] \cap members[h] = {}
        /\ (UNION ToSet(members)) \cup dropped = DOMAIN pois
        /\ (UNION ToSet(members)) \cap dropped = {}

\* A day without night views ends within its time budget but for half a minute a
\* leg: the route driven is the one the trimming measured in fractions of minutes, and
\* the clock rounds every leg of it (trim_clusters_to_capacity, build_day_route).
DayFits ==
  phase = "done" =>
    \A d \in DOMAIN plan :
      LET order == plan[d].order
          over == plan[d].end - (540 + DailyMinutes)
      IN  (\A i \in ToSet(order) : ~pois[i].night) => 2 * over <= Len(order) - 1

Orders(group) == {[n \in DOMAIN group |-> group[pi[n]]] : pi \in SetToSeqs(DOMAIN group)}

\* The stops by day are driven in a shortest order, as far as the exact search goes;
\* night views come last (shortest_open_path, build_day_route).
ShortestDay ==
  phase = "done" =>
    \A d \in DOMAIN plan :
      LET group == groups[plan[d].group]
          order == plan[d].order
          nights == {i \in ToSet(group) : pois[i].night}
      IN  /\ ToSet(order) = ToSet(group) /\ Len(order) = Len(group)
          /\ \A n \in 1..(Len(order) - 1) : order[n] \in nights => order[n + 1] \in nights
          /\ nights = {} /\ Len(group) <= ExactLimit =>
               \A other \in Orders(group) : LegsOf(order, travel) <= LegsOf(other, travel)

\* In every pass the potentials underestimate every cost and are exact on every
\* matched pair: the reason the matching is minimal (hungarian).
PotentialsFeasible ==
  phase \in {"matching", "done"} =>
    \A row, day \in 1..ask.trip :
      /\ match.u[row] + match.v[day] <= costs[row][day]
      /\ match.p[day] = row => match.u[row] + match.v[day] = costs[row][day]

Matchings == SetToSeqs(1..ask.trip)

CostOf(dayOf) == SumFunction([g \in DOMAIN dayOf |-> costs[g][dayOf[g]]])

ChosenDays == [g \in DOMAIN groups |-> CHOOSE d \in DOMAIN plan : plan[d].group = g]

\* Every group has a day of its own and no other assignment of groups to days is
\* cheaper.
CheapestDays ==
  phase = "done" =>
    /\ \A g \in DOMAIN groups : \E d \in DOMAIN plan : plan[d].group = g
    /\ \A other \in Matchings : CostOf(ChosenDays) <= CostOf(other)

ClosedOn(poi, date) == \E listing \in ListingsOf(poi) : Weekday(date) \in listing.closed

\* No assignment visits closed attractions on fewer days, whichever page tells that
\* they are closed: bad weather, crowds and missing sunsets together never outweigh
\* one closed day.  The conflicts left are the ones the itinerary warns of.
ClosedOnlyIfUnavoidable ==
  phase = "done" =>
    LET closed(g, d) == {i \in ToSet(groups[g]) : ClosedOn(pois[i], days[d].date)}
        conflicts(dayOf) == {g \in DOMAIN groups : closed(g, dayOf[g]) # {}}
    IN  /\ \A other \in Matchings :
             Cardinality(conflicts(ChosenDays)) <= Cardinality(conflicts(other))
        /\ \A d \in DOMAIN plan : plan[d].conflicts = closed(plan[d].group, d)

\* The phases the call has still before it.
PhasesLeft ==
  [asked |-> 11, dated |-> 10, searched |-> 9, collected |-> 8, located |-> 7, ranked |-> 6,
   selected |-> 5, measured |-> 4, clustering |-> 3, trimming |-> 2, matching |-> 1,
   done |-> 0, failed |-> 0]

\* How far the call is from its return: the phases, then in a phase the rounds, the
\* attractions still in groups, or the rows and columns left.
Remaining ==
  LET size == ask.trip + 2
  IN  <<PhasesLeft[phase],
        CASE phase = "clustering" -> MaxIterations - search.rounds
          [] phase = "trimming" -> SumFunction([g \in DOMAIN groups |-> Len(groups[g])])
          [] phase = "matching" -> (size - match.row) * size - Cardinality(match.used)
          [] OTHER -> 0>>

\* Every call returns: no step leaves the call as far from its end as before, and
\* none gets stuck (the run checks for deadlock).  The rounds of the medoids, the
\* trims and the passes of the matching all end.
AlwaysCloser == [][Before(Remaining', Remaining)]_vars
=============================================================================
