-------------------------------- MODULE Events --------------------------------
(***************************************************************************)
(* "You Were There": trips and gatherings found in the group's check-ins.  *)
(* A pure function of the rows the query fetched and of the present.       *)
(*                                                                         *)
(* A row is a record with the fields id, by, loc, at, likes and photos.    *)
(* Time counts ticks, DayLen to a day.  The label a phone gives a place is *)
(* a number; labels of one place differ in spelling only, which the        *)
(* normalised label forgets, and the order of numbers stands for that of   *)
(* strings.                                                                *)
(***************************************************************************)
EXTENDS Ranking

CONSTANTS
  DayLen, Spellings,
  Lookback,                                 \* homeBaseLookback6Months, in ticks
  TripWindow, TripMaxSpan,                  \* in days
  TripMinAwayAuthors,
  HomeBaseMinDays, HomeAreaMinEpisodes, HomeAreaMinMembers,
  GatheringMinPosts, GatheringMinAuthors

ASSUME EventsAssumption ==
  /\ DayLen \in Nat \ {0} /\ Spellings \in Nat \ {0}
  /\ Lookback \in Nat /\ TripWindow \in Nat /\ TripMaxSpan \in Nat
  /\ TripMinAwayAuthors \in Nat \ {0} /\ HomeBaseMinDays \in Nat \ {0}
  /\ GatheringMinPosts \in Nat \ {0} /\ GatheringMinAuthors \in Nat

NoPlace == 0       \* normalised labels are positive

dayOf(t) == t \div DayLen
normalizeLocation(loc) == loc \div Spellings
placesOf(rows) == {normalizeLocation(r.loc) : r \in rows}
at(rows, place) == {r \in rows : normalizeLocation(r.loc) = place}
authors(rows) == {r.by : r \in rows}
days(rows) == {dayOf(r.at) : r \in rows}
since(rows, cutoff) == {r \in rows : r.at >= cutoff}

(* The key counted most often, the smallest one on a tie.                  *)
mostCommonKey(count) ==
  LET most == Max({count[k] : k \in DOMAIN count})
  IN Min({k \in DOMAIN count : count[k] = most})

displayLocation(rows) ==
  mostCommonKey([l \in {r.loc : r \in rows} |-> Cardinality({r \in rows : r.loc = l})])

-----------------------------------------------------------------------------
(* Home: a member's own base, and the area the group returns to.           *)

countEpisodes(ds) == Cardinality({d \in ds : ~ \E e \in ds : e < d /\ d - e <= TripWindow})

computeHomeArea(rows, now) ==
  LET recent == since(rows, now - Lookback)
  IN {p \in placesOf(recent) :
        /\ Cardinality(authors(at(recent, p))) >= HomeAreaMinMembers
        /\ countEpisodes(days(at(recent, p))) >= HomeAreaMinEpisodes}

tallyDays(rows, cutoff, author) ==
  LET own == {r \in since(rows, cutoff) : r.by = author}
  IN [p \in placesOf(own) |-> Cardinality(days(at(own, p)))]

bestHomeLocation(tally) ==
  LET clears == {p \in DOMAIN tally : tally[p] >= HomeBaseMinDays}
  IN IF clears = {} THEN NoPlace ELSE mostCommonKey([p \in clears |-> tally[p]])

computeHomeBases(rows, now) ==
  [a \in authors(rows) |-> bestHomeLocation(tallyDays(rows, now - Lookback, a))]

-----------------------------------------------------------------------------
(* Clusters.                                                               *)

\* Mutant: a pause of exactly the window ends a run.
runStartsEarly(ds) ==
  LET start[d \in ds] ==
        LET before == {e \in ds : e < d}
            last == Max(before)
        IN IF before = {} THEN d
           ELSE IF d - last >= TripWindow \/ d - start[last] > TripMaxSpan THEN d
           ELSE start[last]
  IN start

(* Each day's run is named by the day it starts on.                        *)
runStarts(ds) ==
  LET start[d \in ds] ==
        LET before == {e \in ds : e < d}
            last == Max(before)
        IN IF before = {} THEN d
           ELSE IF d - last > TripWindow \/ d - start[last] > TripMaxSpan THEN d
           ELSE start[last]
  IN start

tripRuns(locRows) ==
  LET start == runStarts(days(locRows))
  IN {{r \in locRows : start[dayOf(r.at)] = s} : s \in {start[d] : d \in DOMAIN start}}

earlier(a, b) == a.at < b.at \/ (a.at = b.at /\ a.id < b.id)
betterCover(a, b) == a.likes > b.likes \/ (a.likes = b.likes /\ a.id < b.id)
coverOf(rows) ==
  LET pictured == {r \in rows : r.photos > 0}
  IN IF pictured = {} THEN 0
     ELSE (CHOOSE r \in pictured : \A q \in pictured \ {r} : betterCover(r, q)).id

postsBy(rows, a) == Cardinality({r \in rows : r.by = a})
roster(rows) ==
  ranked(authors(rows), LAMBDA a, b :
    \/ postsBy(rows, a) > postsBy(rows, b)
    \/ (postsBy(rows, a) = postsBy(rows, b) /\ a < b))

buildEvent(kind, rows) ==
  LET sorted == ranked(rows, earlier)
  IN [kind |-> kind, place |-> displayLocation(rows),
      start |-> dayOf(sorted[1].at), end |-> dayOf(sorted[Len(sorted)].at),
      people |-> roster(rows), posts |-> [i \in DOMAIN sorted |-> sorted[i].id],
      photos |-> sumOf(LAMBDA r : r.photos, rows), cover |-> coverOf(rows)]

\* Mutant: a member with a home anywhere is never away.
awayUnsettled(place, rows, base) ==
  {a \in authors(rows) : base[a] = NoPlace /\ Cardinality(days(rows)) > 1}

(* Who a run finds away from home: a member without a base only when the   *)
(* run spans more than a day.                                              *)
away(place, rows, base) ==
  {a \in authors(rows) :
     IF base[a] # NoPlace THEN base[a] # place ELSE Cardinality(days(rows)) > 1}

isTrip(place, rows, base) == Cardinality(away(place, rows, base)) >= TripMinAwayAuthors

tripsAt(rows, place, base) == {run \in tripRuns(at(rows, place)) : isTrip(place, run, base)}
detectTrips(rows, base, homeArea) ==
  UNION {tripsAt(rows, p, base) : p \in placesOf(rows) \ homeArea}

isGathering(rows) ==
  Cardinality(rows) >= GatheringMinPosts /\ Cardinality(authors(rows)) >= GatheringMinAuthors
\* Mutant: labels that differ in spelling are told apart.
detectGatheringsByLabel(rows) ==
  {b \in {{r \in rows : r.loc = l /\ dayOf(r.at) = d} :
             l \in {r.loc : r \in rows}, d \in days(rows)} : isGathering(b)}
detectGatherings(rows) ==
  {b \in {{r \in at(rows, p) : dayOf(r.at) = d} : p \in placesOf(rows), d \in days(rows)} :
     isGathering(b)}

eventOutranks(a, b) ==
  \/ a.end > b.end
  \/ /\ a.end = b.end
     /\ \/ a.kind = "trip" /\ b.kind # "trip"
        \/ /\ a.kind = b.kind
           /\ \/ a.start > b.start
              \/ (a.start = b.start /\ a.place < b.place)
              \/ (a.start = b.start /\ a.place = b.place /\ a.posts[1] < b.posts[1])

detectEvents(rows, now) ==
  LET trips == detectTrips(rows, computeHomeBases(rows, now), computeHomeArea(rows, now))
      left == rows \ UNION trips
  IN {buildEvent("trip", t) : t \in trips}
       \cup {buildEvent("gathering", g) : g \in detectGatherings(left)}

(* The page shows the first ones, in an order that leaves nothing open.    *)
EventsForViewer(rows, now, limit) ==
  first(ranked(detectEvents(rows, now), eventOutranks), limit)

=============================================================================
