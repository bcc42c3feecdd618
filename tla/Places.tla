-------------------------------- MODULE Places --------------------------------
(***************************************************************************)
(* The group's places: one for every normalised location, its figures and  *)
(* its coordinates, which come from the check-ins themselves, from the     *)
(* gazetteer, or from what the group's other places say about an ambiguous *)
(* name.  Rows are those of Events with one field more: pos, what the      *)
(* phone measured.                                                         *)
(*                                                                         *)
(* Positions lie on a line: only the distances between them count, and a   *)
(* mean is rounded down.                                                   *)
(***************************************************************************)
EXTENDS Events

CONSTANTS
  Dataset,               \* place -> the cities primarily and otherwise so named
  DominanceRatio, DominanceMaxDistance, DominanceMinPopulation,
  PlacePageCap           \* maxPlacePosts

ASSUME PlacesAssumption == PlacePageCap \in Nat

NoPos == -1

distance(a, b) == IF a < b THEN b - a ELSE a - b

-----------------------------------------------------------------------------
(* The gazetteer.  A city is a record with the fields pos and population.  *)

(* Cities of that name come before those merely also called so, unless all *)
(* of the former are unpopulated.                                          *)
candidates(place) ==
  IF place \notin DOMAIN Dataset THEN <<>>
  ELSE LET primary == Dataset[place].primary
           alias == Dataset[place].alias
           allZero == \A i \in DOMAIN primary : primary[i].population = 0
       IN IF alias # <<>> /\ allZero THEN primary \o alias ELSE primary

firstBest(cities, best(_)) ==
  cities[Min({i \in DOMAIN cities : \A j \in DOMAIN cities : best(i) <= best(j)})]

nearestCandidate(cities, center) ==
  firstBest(cities, LAMBDA i : distance(cities[i].pos, center))
mostPopulousCandidate(cities) == firstBest(cities, LAMBDA i : -cities[i].population)

Resolve(place) == mostPopulousCandidate(candidates(place))

(* A city that dwarfs every other of its name, or a town beside hamlets.   *)
dominates(cities) ==
  LET top == mostPopulousCandidate(cities).population
      biggest == Min({i \in DOMAIN cities : cities[i].population = top})
      second == Max({cities[i].population : i \in DOMAIN cities \ {biggest}} \cup {0})
  IN IF second > 0 THEN top >= second * DominanceRatio ELSE top >= DominanceMinPopulation

-----------------------------------------------------------------------------
(* Coordinates: what is known becomes an anchor, a dominant name near the  *)
(* anchors becomes another, and the rest is settled by the nearest city.   *)

stored(rows) == {r \in rows : r.pos # NoPos}
averageStoredCoords(rows) ==
  sumOf(LAMBDA r : r.pos, stored(rows)) \div Cardinality(stored(rows))

centroidOf(pos) ==
  sumOf(LAMBDA p : pos[p], DOMAIN pos) \div Cardinality(DOMAIN pos)

passOne(rows, found) ==
  [p \in {q \in placesOf(rows) : stored(at(rows, q)) # {} \/ Len(found[q]) = 1} |->
     IF stored(at(rows, p)) # {} THEN averageStoredCoords(at(rows, p)) ELSE found[p][1].pos]

pendingPlaces(rows, found) ==
  {p \in placesOf(rows) : stored(at(rows, p)) = {} /\ Len(found[p]) > 1}

trusted(cities, one) ==
  /\ dominates(cities)
  /\ DOMAIN one # {} =>
       distance(mostPopulousCandidate(cities).pos, centroidOf(one)) <= DominanceMaxDistance

passTwo(rows, found, one) ==
  LET more == {p \in pendingPlaces(rows, found) : trusted(found[p], one)}
  IN [p \in DOMAIN one \cup more |->
        IF p \in more THEN mostPopulousCandidate(found[p]).pos ELSE one[p]]

anchors(rows, found) == passTwo(rows, found, passOne(rows, found))
unsettled(rows, found) == pendingPlaces(rows, found) \ DOMAIN anchors(rows, found)
\* Mutant: dominant names are forgotten.
guessedWithoutDominant(rows, found) ==
  IF DOMAIN passOne(rows, found) = {} THEN unsettled(rows, found) ELSE {}
guessed(rows, found) == IF DOMAIN anchors(rows, found) = {} THEN unsettled(rows, found) ELSE {}

passThree(rows, found) ==
  LET known == anchors(rows, found)
      rest == unsettled(rows, found)
  IN [p \in DOMAIN known \cup rest |->
        IF p \notin rest THEN known[p]
        ELSE IF DOMAIN known = {} THEN mostPopulousCandidate(found[p]).pos
        ELSE nearestCandidate(found[p], centroidOf(known)).pos]

-----------------------------------------------------------------------------
buildPlaceStats(rows) ==
  [location |-> displayLocation(rows),
   postCount |-> Cardinality(rows), posters |-> Cardinality(authors(rows)),
   photos |-> sumOf(LAMBDA r : r.photos, rows), cover |-> coverOf(rows),
   firstSeen |-> Min({r.at : r \in rows}), lastSeen |-> Max({r.at : r \in rows})]

placeOutranks(a, b) ==
  \/ a.postCount > b.postCount
  \/ a.postCount = b.postCount /\ \/ a.lastSeen > b.lastSeen
                                  \/ (a.lastSeen = b.lastSeen /\ a.location < b.location)

(* found maps every place among the rows to the gazetteer's answer.        *)
buildPlaces(rows, now, found) ==
  LET pos == passThree(rows, found)
      home == computeHomeArea(rows, now)
  IN {[stats |-> buildPlaceStats(at(rows, p)), place |-> p,
       pos |-> IF p \in DOMAIN pos THEN pos[p] ELSE NoPos,
       coordsGuessed |-> p \in guessed(rows, found), homeArea |-> p \in home] :
        p \in placesOf(rows)}

PlacesPage(rows, now, found) ==
  ranked(buildPlaces(rows, now, found), LAMBDA a, b : placeOutranks(a.stats, b.stats))

(* The newest check-ins of the place a label belongs to, and whether there *)
(* are more.                                                               *)
PostsForPlace(rows, label) ==
  LET newest == ranked(at(rows, normalizeLocation(label)), LAMBDA a, b : earlier(b, a))
  IN [posts |-> first(newest, PlacePageCap),
      hasMore |-> Len(newest) > PlacePageCap]

=============================================================================
