---------------------------- MODULE Attractions ----------------------------
(***************************************************************************)
(* Where the attractions of plan_trip come from: the pages that             *)
(* WikivoyageClient collects and the listings that extract_pois merges      *)
(* (src/travel_planner/sources.py), and the score that ranks them           *)
(* (src/travel_planner/scoring.py).                                         *)
(*                                                                          *)
(* The texts of a listing are the classes of keywords found in them, sets   *)
(* of words such as "indoor" or an interest of the traveller.  Ages are in  *)
(* days before now, of a date that cannot be parsed there is none; details  *)
(* names the fields a listing fills in, that date among them.  A search hit *)
(* is [exact, fits, page], with page NoPage when the page or its revision   *)
(* is gone, else [title, kind, age, listings].  Points are in hundredths,   *)
(* and an attraction loses points by whole half-lives of its age.           *)
(***************************************************************************)
EXTENDS Ordering

CONSTANTS
  NoPage,      \* what fetch_page finds of a page that is gone
  NoPlace,     \* the place of an attraction without a latitude
  HalfPlace    \* the place of one with a latitude and no longitude

UpTo(seq, n) == SubSeq(seq, 1, Min({n, Len(seq)}))

Located(poi) == poi.place \notin {NoPlace, HalfPlace}

-----------------------------------------------------------------------------
(* The pages *)

\* search_pages: the page of the city itself comes first.
Hits(wiki, limit) ==
  LET results == UpTo(wiki, Min({3 * limit, 30}))
      exact == {i \in DOMAIN results : results[i].exact}
  IN  UpTo(PartOf(results, exact) \o PartOf(results, DOMAIN results \ exact), 2 * limit)

\* collect_pages: the fitting hits, or the first one if none fits.
CollectedPages(wiki, limit) ==
  LET hits == Hits(wiki, limit)
      fitting == PartOf(hits, {i \in DOMAIN hits : hits[i].exact \/ hits[i].fits})
      chosen == IF fitting = <<>> THEN UpTo(hits, 1) ELSE UpTo(fitting, limit)
      found == PartOf(chosen, {i \in DOMAIN chosen : chosen[i].page # NoPage})
  IN  [n \in DOMAIN found |-> found[n].page]

-----------------------------------------------------------------------------
(* The listings *)

Told(listing) == listing.name \cup listing.content.words \cup listing.address \cup listing.hours

VisitMinutes(listing) ==
  IF listing.minutes # 0 THEN Min({480, Max({30, listing.minutes})})
  ELSE IF "theme park" \in Told(listing) THEN 300
  ELSE IF "indoor" \in Told(listing) THEN 150
  ELSE IF "outdoor" \in Told(listing) THEN 120
  ELSE IF listing.section = "do" THEN 150 ELSE 90

IndoorShare(listing) ==
  LET told == Told(listing) \cap {"indoor", "outdoor"}
  IN  CASE told = {"indoor"} -> 100 [] told = {"outdoor"} -> 0 [] OTHER -> 50

Candidate(listing, page) ==
  [key |-> listing.key, section |-> listing.section, name |-> listing.name,
   content |-> listing.content, address |-> listing.address, details |-> listing.details,
   edited |-> listing.edited, place |-> listing.place, closed |-> listing.closed,
   sources |-> {[title |-> page.title, kind |-> page.kind, age |-> page.age]},
   score |-> 0, visit |-> VisitMinutes(listing), indoor |-> IndoorShare(listing),
   night |-> "night" \in Told(listing), crowd |-> "crowd" \in Told(listing),
   shut |-> "closed down" \in Told(listing)]

\* Mutant for NothingLost: a later listing adds its page and its closed days, no more.
MergedSources(old, new) ==
  [old EXCEPT !.sources = @ \cup new.sources, !.closed = @ \cup new.closed]

\* The first listing counts; a later one fills its gaps and adds its warnings.
Merged(old, new) ==
  [old EXCEPT
     !.sources = @ \cup new.sources,
     !.details = @ \cup new.details,
     !.address = IF "address" \in old.details THEN @ ELSE new.address,
     !.edited = IF "edited" \in old.details THEN @ ELSE new.edited,
     !.content = IF new.content.length > @.length THEN new.content ELSE @,
     !.place = IF @ = NoPlace THEN new.place ELSE @,
     !.night = @ \/ new.night,
     !.crowd = @ \/ new.crowd,
     !.shut = @ \/ new.shut,
     !.closed = @ \cup new.closed]

WithCandidate(pois, candidate) ==
  LET same == {i \in DOMAIN pois : pois[i].key = candidate.key}
  IN  IF same = {} THEN Append(pois, candidate)
      ELSE [i \in DOMAIN pois |->
              IF i \in same THEN Merged(pois[i], candidate) ELSE pois[i]]

\* Templates that list no sight or activity, or no name, are passed over.
Candidates(page) ==
  LET listings == PartOf(page.listings, {l \in DOMAIN page.listings :
                                          page.listings[l].section \in {"see", "do"}})
  IN  [l \in DOMAIN listings |-> Candidate(listings[l], page)]

Extracted(pages) ==
  LET candidates == FlattenSeq([n \in DOMAIN pages |-> Candidates(pages[n])])
      merged[n \in 0..Len(candidates)] ==
        IF n = 0 THEN <<>> ELSE WithCandidate(merged[n - 1], candidates[n])
  IN  merged[Len(candidates)]

\* exclude_universities
Filtered(pois, excludes) ==
  IF excludes THEN PartOf(pois, {i \in DOMAIN pois : "campus" \notin pois[i].name}) ELSE pois

-----------------------------------------------------------------------------
(* The score *)

CrossPage(poi) ==
  LET kinds == Cardinality({s.kind : s \in poi.sources} \cap {"city", "district", "itinerary"})
      titles == Cardinality({s.title : s \in poi.sources})
  IN  Min({10000, (10000 * kinds) \div 3 + 800 * Max({0, titles - kinds})})

Completeness(poi) ==
  2500 * ((IF Located(poi) THEN 1 ELSE 0)
          + Cardinality(poi.details \cap {"hours", "price", "website"}))

Words(poi) == poi.name \cup poi.content.words \cup poi.address

Editorial(poi) ==
  LET base == IF poi.section = "see" THEN 8000 ELSE 7500
      praised == IF "recommended" \in Words(poi) THEN Min({10000, base + 2000}) ELSE base
  IN  IF poi.content.length < 20 THEN praised - 1500 ELSE praised

Preference(poi, interests) ==
  IF interests = {} THEN 5000
  ELSE (10000 * Cardinality(interests \cap Words(poi))) \div Cardinality(interests)

Ages(poi) == poi.edited \cup UNION {s.age : s \in poi.sources}

Freshness(poi) ==
  LET halves == Min(Ages(poi)) \div 730
      left[n \in 0..halves] == IF n = 0 THEN 10000 ELSE left[n - 1] \div 2
  IN  IF Ages(poi) = {} THEN 0 ELSE left[halves]

Penalty(poi) ==
  LET if(condition, points) == IF condition THEN points ELSE 0
  IN  if(poi.shut, 10000) + if(~Located(poi), 3500)
      + if(Ages(poi) = {} \/ Min(Ages(poi)) > 5 * 365, 2000)
      + if("uncertain" \in Words(poi), 1500) + if(poi.content.length < 10, 800)

\* score_poi with the default weights.
Score(poi, interests) ==
  Max({0, (20 * CrossPage(poi) + 20 * Completeness(poi) + 20 * Editorial(poi)
           + 25 * Preference(poi, interests) + 15 * Freshness(poi)) \div 100
          - Penalty(poi)})
=============================================================================
