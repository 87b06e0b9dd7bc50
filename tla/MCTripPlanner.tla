---------------------------- MODULE MCTripPlanner ----------------------------
(* TripPlanner on a small city and a forecast of a few days. *)
EXTENDS TripPlanner

CONSTANTS a, b, c

Day(sun, rain, wind) ==
  [sunshine |-> sun, daylight |-> 100, rain |-> rain, temp |-> 25, wind |-> wind]
Fine == Day(100, 0, 10)
Wet == Day(20, 80, 10)
Gale == Day(70, 40, 50)

\* Four days from a Thursday (date 3), one complete or not; a fifth day may be absent.
MCForecasts ==
  {[i \in DOMAIN w |-> [date |-> i + 2, weather |-> w[i]]] :
     w \in [1..4 -> {Fine, Wet, Missing}]}
  \cup {[i \in DOMAIN w |-> [date |-> i + 2, weather |-> w[i]]] :
          w \in [1..3 -> {Wet, Gale}]}

MCAsks ==
  LET Ask(n, d, most) == [trip |-> n, dates |-> d, most |-> most, related |-> 2,
                          interests |-> {"history", "art"}, excludes |-> TRUE]
  IN  {Ask(n, d, 5) : n \in {1, 2}, d \in {{}, 4..6, 5..8}}
      \cup {Ask(3, {}, 5), Ask(4, {}, 3),
            [Ask(2, {}, 5) EXCEPT !.related = 1, !.interests = {}, !.excludes = FALSE]}

MCPlaces == {a, b, c}

\* In tenths of minutes.  One-way streets: the way back is longer.
Distance == [x \in MCPlaces |-> [y \in MCPlaces |->
  CASE x = y -> 55
    [] x = a /\ y = b -> 255 [] x = b /\ y = a -> 452
    [] x = b /\ y = c -> 246 [] x = c /\ y = b -> 505
    [] x = a /\ y = c -> 904 [] OTHER -> 596]]

Listing(place, minutes, words, closed) ==
  [key |-> 0, section |-> "see", name |-> words, content |-> [length |-> 30, words |-> {}],
   address |-> {}, hours |-> {}, details |-> {}, edited |-> {}, place |-> place,
   minutes |-> minutes, closed |-> closed]

Museum == [Listing(a, 75, {"indoor", "history"}, {4}) EXCEPT !.details = {"hours", "price"}]
Park == Listing(b, 45, {"outdoor"}, {5, 6})
Tower == Listing(c, 45, {"night", "crowd", "recommended"}, {3})
Market == [Listing(a, 20, {"crowd", "uncertain"}, {5}) EXCEPT !.section = "do"]
Garden == [Listing(c, 45, {"outdoor"}, {4, 5}) EXCEPT !.content.length = 15]

Kinds == <<Museum, Park, Tower, Market, Garden>>

Page(title, kind, age, listings) ==
  [title |-> title, kind |-> kind, age |-> age,
   listings |-> [n \in DOMAIN listings |->
                   IF listings[n].key = 0 THEN [listings[n] EXCEPT !.key = n] ELSE listings[n]]]

CityPage(listings) == Page("city", "city", {0}, listings)
Hit(exact, fits, page) == [exact |-> exact, fits |-> fits, page |-> page]

\* The page of a city that lists the attractions, one each.
CityWith(listings) == <<Hit(TRUE, TRUE, CityPage(listings))>>

Hidden == Listing(NoPlace, 60, {"art"}, {})
Halved == Listing(HalfPlace, 60, {"art"}, {})
Campus == Listing(a, 0, {"campus", "outdoor"}, {})
Cafe == [Listing(a, 0, {}, {}) EXCEPT !.section = "eat"]
Ruin == Listing(b, 45, {"closed down", "recommended"}, {})

\* A district page, found before the city page, that tells more of some attractions:
\* one is shut down, one has a place, hours and another closed day, one has half a place.
District ==
  Page("old town", "district", {2190},
       <<[Ruin EXCEPT !.key = 1],
         [Tower EXCEPT !.key = 2, !.closed = {4}, !.details = {"hours", "address", "edited"},
                       !.edited = {730}, !.address = {"history"},
                       !.content = [length |-> 60, words |-> {"uncertain"}]],
         [Park EXCEPT !.key = 3], Market>>)

\* All mixes of up to five of the kinds, cities told of on two pages, and searches that
\* find nothing to plan with.
MCWikis ==
  {CityWith([i \in DOMAIN k |-> Kinds[k[i]]]) :
     k \in UNION {{f \in [1..n -> DOMAIN Kinds] : \A i \in 1..(n - 1) : f[i] <= f[i + 1]} :
                    n \in 2..5}}
  \cup {CityWith(<<Hidden, Park, Halved, Tower>>), CityWith(<<Park, Campus, Museum, Cafe>>),
        CityWith(<<Campus>>), CityWith(<<Cafe>>), <<>>, <<Hit(TRUE, TRUE, NoPage)>>,
        <<Hit(FALSE, FALSE, Page("elsewhere", "related", {}, <<Museum, Park>>)),
          Hit(FALSE, FALSE, NoPage)>>,
        <<Hit(FALSE, TRUE, District), Hit(FALSE, FALSE, NoPage)>>
          \o CityWith(<<Garden, [Hidden EXCEPT !.closed = {3}], Halved, Museum>>),
        <<Hit(FALSE, TRUE, NoPage), Hit(FALSE, TRUE, District)>>
          \o CityWith(<<[Park EXCEPT !.key = 1], Museum, Garden>>)}
=============================================================================
