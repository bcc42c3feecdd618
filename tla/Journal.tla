------------------------------- MODULE Journal -------------------------------
(***************************************************************************)
(* The group's check-ins as they come, are liked, discussed and deleted,   *)
(* and the pages one viewer opens over them: events, places, timeline,     *)
(* forgotten photos, the recap of a period and the titles it bestows.      *)
(* Every page is computed from the posts table when it is opened; the      *)
(* gazetteer's answers and the titles are all that is stored.              *)
(*                                                                         *)
(* Scenes are the histories a behaviour may start from: the posts made     *)
(* before it, the check-ins that may be made during it, each at its time,  *)
(* and what else may happen.                                               *)
(***************************************************************************)
EXTENDS Places, RecapCards, Timeline

CONSTANTS
  Member, Scenes,
  EventsLimit,    \* how many events a page asks for
  Reader,         \* requests that resolve places at once
  MaxFaults       \* bound on failed reads of the gazetteer's file

VARIABLES
  scene, now,
  plan,           \* check-ins still to be made
  posts,          \* the posts table with its likes, comments and tags
  nextId,
  active,         \* the members whose status is 'active'
  blocked,        \* the members the viewer blocks
  titles,
  cache,          \* gazetteer_cache: a function from places to candidates
  index,          \* whether the process found the gazetteer's file when it started
  lookup,         \* per reader: the place resolved and the answer not yet stored
  faults

\* 0 is no location; any other label is of some place.
Label == {0} \cup {l \in Nat : normalizeLocation(l) # NoPlace}
Deed == [by : Member, at : Nat]       \* a like or a comment
CheckInPlan == [by : Member, loc : Label, at : Nat, photos : Nat, pos : Int]
Post == [id : Nat, by : Member, kind : {"post", "clip", "recap"}, loc : Label, at : Nat,
         pos : Int, photos : Nat, clips : Nat, tags : SUBSET Member,
         likes : SUBSET Deed, comments : SUBSET Deed]

(* The posts a history begins with have keys of their own, counted from 1. *)
ASSUME ScenesAssumption ==
  /\ Member \subseteq Nat /\ IsFiniteSet(Member) /\ EventsLimit \in Nat
  /\ \A s \in Scenes :
       /\ s.start \in Nat /\ s.offset \in Int
       /\ s.plan \subseteq CheckInPlan
       /\ s.past \subseteq Post /\ IsFiniteSet(s.past)
       /\ \A p \in s.past : /\ p.id \in 1..Cardinality(s.past)
                            /\ IsFiniteSet(p.likes) /\ IsFiniteSet(p.comments)
       /\ \A p, q \in s.past : p.id = q.id => p = q

rowsVars == <<plan, posts, nextId>>
cacheVars == <<cache, index, lookup, faults>>
vars == <<scene, now, rowsVars, active, blocked, titles, cacheVars>>

NoLookup == [place |-> NoPlace, answer |-> <<>>]

Init ==
  /\ scene \in Scenes
  /\ now = scene.start
  /\ plan = scene.plan /\ posts = scene.past
  /\ nextId = Cardinality(scene.past) + 1
  /\ active = Member /\ blocked = {}
  /\ titles = [m \in Member |-> NoAward]
  /\ cache = [p \in {} |-> <<>>]
  /\ index \in scene.index
  /\ lookup = [r \in Reader |-> NoLookup]
  /\ faults = 0

-----------------------------------------------------------------------------
(* The table, as the pages' queries read it.                               *)

Eligible == {p \in posts : p.kind # "recap" /\ p.by \in active /\ p.by \notin blocked}
View == {[id |-> p.id, by |-> p.by, loc |-> p.loc, at |-> p.at, pos |-> p.pos,
          photos |-> p.photos, clips |-> p.clips, likes |-> Cardinality(p.likes),
          comments |-> Cardinality({c \in p.comments : c.by \notin blocked})] : p \in Eligible}
Located == {r \in View : r.loc # 0}

InPeriod(t) == scene.period[1] <= t /\ t < scene.period[2]
recapCandidates ==
  {[id |-> p.id, by |-> p.by, at |-> p.at, loc |-> p.loc, likes |-> Cardinality(p.likes),
    comments |-> Cardinality(p.comments),
    media |-> IF p.photos > 0 THEN "photo" ELSE IF p.clips > 0 THEN "clip" ELSE "none"] :
     p \in {q \in posts : q.kind # "recap" /\ q.by \in active /\ InPeriod(q.at)}}

recapActivityCounts ==
  LET count(m, things) == Cardinality({x \in things : x[2].by = m /\ InPeriod(x[2].at)})
      onPosts(f(_)) == UNION {{<<p.id, x>> : x \in f(p)} : p \in posts}
      comments == onPosts(LAMBDA p : p.comments)
      likes == onPosts(LAMBDA p : p.likes)
      tagging(m) == {p \in posts : InPeriod(p.at) /\ m \in p.tags /\ p.by # m}
  IN [written |-> [m \in active |-> count(m, comments)],
      given |-> [m \in active |-> count(m, likes)],
      tagged |-> [m \in active |-> Cardinality(tagging(m))]]

awardScores ==
  LET cands == recapCandidates
      counts == recapActivityCounts
  IN [a \in Award |-> [m \in active |-> score(a, cands, m, counts)]]
Titles == LET rankOf == awardRankings(awardScores)
          IN [m \in active |-> bestAwardPerMember(rankOf, m)]

-----------------------------------------------------------------------------
(* Members.                                                                *)

Wait ==
  /\ now < scene.end
  /\ now' = now + 1
  /\ UNCHANGED <<scene, rowsVars, active, blocked, titles, cacheVars>>

CheckIn(c) ==
  /\ c.at = now /\ c.by \in active
  /\ plan' = plan \ {c}
  /\ posts' = posts \cup
       {[id |-> nextId, by |-> c.by, kind |-> "post", loc |-> c.loc, at |-> now,
         photos |-> c.photos, clips |-> 0, pos |-> c.pos, tags |-> {},
         likes |-> {}, comments |-> {}]}
  /\ nextId' = nextId + 1
  /\ UNCHANGED <<scene, now, active, blocked, titles, cacheVars>>

DeletePost(p) ==
  /\ p.id \in scene.deletable
  /\ posts' = posts \ {p}
  /\ UNCHANGED <<scene, now, plan, nextId, active, blocked, titles, cacheVars>>

Change(p, q) == posts' = (posts \ {p}) \cup {q}
Engaged == sumOf(LAMBDA p : Cardinality(p.likes) + Cardinality(p.comments), posts)

Like(m, p) ==
  /\ m \in active \cap scene.fans /\ Engaged < scene.engagement
  /\ ~ \E l \in p.likes : l.by = m
  /\ Change(p, [p EXCEPT !.likes = @ \cup {[by |-> m, at |-> now]}])
  /\ UNCHANGED <<scene, now, plan, nextId, active, blocked, titles, cacheVars>>

Comment(m, p) ==
  /\ m \in active \cap scene.fans /\ Engaged < scene.engagement
  /\ [by |-> m, at |-> now] \notin p.comments
  /\ Change(p, [p EXCEPT !.comments = @ \cup {[by |-> m, at |-> now]}])
  /\ UNCHANGED <<scene, now, plan, nextId, active, blocked, titles, cacheVars>>

Block(m) ==
  /\ m \in scene.blockable
  /\ blocked' = IF m \in blocked THEN blocked \ {m} ELSE blocked \cup {m}
  /\ UNCHANGED <<scene, now, rowsVars, active, titles, cacheVars>>

Revoke(m) ==
  /\ m \in scene.revocable \cap active
  /\ active' = active \ {m}
  /\ UNCHANGED <<scene, now, rowsVars, blocked, titles, cacheVars>>

(* Every member the period gives an award takes its title; the others keep *)
(* the one they have.                                                      *)
BestowTitles ==
  /\ scene.bestows
  /\ UNCHANGED <<scene, now, rowsVars, active, blocked, cacheVars>>
  /\ LET given == Titles
     IN titles' = [m \in Member |-> IF m \in active /\ given[m] # NoAward
                                    THEN given[m] ELSE titles[m]]

-----------------------------------------------------------------------------
(* The gazetteer and its cache.                                            *)

(* What the package answers: nothing at all without a file, and nothing    *)
(* when a read fails.                                                      *)
Candidates(p) == IF index = "missing" THEN {<<>>}
                 ELSE {candidates(p)} \cup (IF faults < MaxFaults THEN {<<>>} ELSE {})

(* candidatesCached, up to the insertion: a miss reads the file.           *)
Miss(r, p) ==
  /\ r \in scene.readers /\ lookup[r] = NoLookup
  /\ p \in placesOf(Located) \ DOMAIN cache
  /\ \E a \in Candidates(p) :
       /\ lookup' = [lookup EXCEPT ![r] = [place |-> p, answer |-> a]]
       /\ faults' = IF index = "ok" /\ a # candidates(p) THEN faults + 1 ELSE faults
  /\ UNCHANGED <<scene, now, rowsVars, active, blocked, titles, cache, index>>

\* Mutant: ON CONFLICT DO UPDATE.
Upserted(p, a) == [q \in DOMAIN cache \cup {p} |-> IF q = p THEN a ELSE cache[q]]

(* INSERT ... ON CONFLICT DO NOTHING.                                      *)
Inserted(p, a) == IF p \in DOMAIN cache THEN cache
                  ELSE [q \in DOMAIN cache \cup {p} |-> IF q = p THEN a ELSE cache[q]]

Store(r) ==
  /\ lookup[r] # NoLookup
  /\ cache' = Inserted(lookup[r].place, lookup[r].answer)
  /\ lookup' = [lookup EXCEPT ![r] = NoLookup]
  /\ UNCHANGED <<scene, now, rowsVars, active, blocked, titles, index, faults>>

(* The server starts again, with or without the file: loadOnce looks once. *)
Restart ==
  /\ scene.restarts
  /\ index' \in {"ok", "missing"} /\ index' # index
  /\ lookup' = [r \in Reader |-> NoLookup]
  /\ UNCHANGED <<scene, now, rowsVars, active, blocked, titles, cache, faults>>

Next ==
  \/ Wait
  \/ \E c \in plan : CheckIn(c)
  \/ \E p \in posts : DeletePost(p)
  \/ \E m \in Member, p \in posts : Like(m, p) \/ Comment(m, p)
  \/ \E m \in Member : Block(m) \/ Revoke(m)
  \/ BestowTitles
  \/ \E r \in Reader, p \in placesOf(Located) : Miss(r, p)
  \/ \E r \in Reader : Store(r)
  \/ Restart

Spec == Init /\ [][Next]_vars

-----------------------------------------------------------------------------
(* The pages.                                                              *)

Told == detectEvents(Located, now)
Found == [p \in placesOf(Located) |->
            IF p \in DOMAIN cache THEN cache[p]
            ELSE IF index = "ok" THEN candidates(p) ELSE <<>>]
PlacesTold == buildPlaces(Located, now, Found)
Deck == BuildRecap(recapCandidates, Cardinality(active))
Wall == selectCollageCards(recapCandidates, Cardinality(active))

-----------------------------------------------------------------------------
(* Properties.                                                             *)

BigDay(rows) == Cardinality(rows) >= GatheringMinPosts
                  /\ Cardinality(authors(rows)) >= GatheringMinAuthors
idsOf(rows) == {r.id : r \in rows}

(* Every day on which enough members posted enough from one place is told  *)
(* whole by exactly one event, a trip or a gathering, and no check-in is   *)
(* told twice (detectTrips hands detectGatherings what it did not claim).  *)
BigDaysAreTold ==
  LET told == Told
      bigDays == {b \in {{r \in at(Located, p) : dayOf(r.at) = d} :
                           p \in placesOf(Located), d \in days(Located)} : BigDay(b)}
  IN /\ \A b \in bigDays :
          Cardinality({e \in told : idsOf(b) \subseteq membersOf(e.posts)}) = 1
     /\ \A e, f \in told : e # f => membersOf(e.posts) \cap membersOf(f.posts) = {}

(* Two runs at one place could not have been one: told trips of a place    *)
(* are further apart than a trip's pause, or too long together.            *)
TripsApart ==
  LET trips == {e \in Told : e.kind = "trip"}
  IN \A e, f \in trips :
       (e.start < f.start /\ normalizeLocation(e.place) = normalizeLocation(f.place)) =>
         /\ e.end < f.start
         /\ f.start - e.end > TripWindow \/ f.start - e.start > TripMaxSpan

(* A check-in somewhere else never takes a told trip away: it can only     *)
(* make its members' homes better known, and elsewhere.                    *)
Elsewhere(e) ==
  /\ posts \subseteq posts' /\ now' = now /\ active' = active /\ blocked' = blocked
  /\ \A p \in posts' \ posts : normalizeLocation(p.loc) # normalizeLocation(e.place)
TripsSurviveElsewhere ==
  [][\A e \in Told : (e.kind = "trip" /\ Elsewhere(e)) =>
       \E f \in Told' : f.kind = "trip" /\ f.posts = e.posts]_vars

(* "what keeps a group's first-ever trip together detectable"              *)
(* (events_cluster.go, buildTripIfQualifies): several members' only        *)
(* check-ins, at one place over more than a day, are told as a trip.       *)
FirstTripIsTold ==
  (/\ Cardinality(placesOf(Located)) = 1
   /\ Cardinality(tripRuns(Located)) = 1
   /\ Cardinality(days(Located)) > 1
   /\ Cardinality(authors(Located)) >= TripMinAwayAuthors) =>
     \E e \in Told : e.kind = "trip"

(* A place is marked as guessed only when nothing is known of any place of *)
(* the group: no measured position, no unambiguous or dominant name.       *)
GuessedOnlyAlone ==
  LET places == PlacesTold
  IN (\E x \in places : x.coordsGuessed) =>
       \A y \in places : y.pos # NoPos => y.coordsGuessed

(* Whatever two readers and failing reads do, a place the cache resolved   *)
(* stays resolved, and to what the gazetteer holds.                        *)
ResolvedStaysResolved ==
  [][\A p \in DOMAIN cache : cache[p] # <<>> => cache'[p] = candidates(p)]_vars

(* "An empty JSON array is a genuine NEGATIVE cache entry - a location     *)
(* this dataset has no row for at all" (0022_gazetteer_cache.sql).         *)
NegativesAreGenuine ==
  \A p \in DOMAIN cache : cache[p] = <<>> => candidates(p) = <<>>

(* What a list page counts its detail page shows, up to the latter's cap.  *)
(* Every place is listed once; the events listed are the latest ones, and  *)
(* their check-ins are on their place's page.  A forgotten photo obeys its *)
(* rule and is also a possible memory.                                     *)
Shows(page, cap, count) ==
  /\ Len(page.posts) = Min({count, cap})
  /\ page.hasMore <=> count > cap
PagesAgree ==
  LET view == View
      here == Located
      places == PlacesTold
      told == Told
      events == membersOf(EventsForViewer(here, now, EventsLimit))
  IN /\ \A m \in membersOf(bucketTimeline(view, scene.offset)) :
          Shows(TimelineMonthPosts(view, m.month, scene.offset), MonthPageCap, m.postCount)
     /\ membersOf(PlacesPage(here, now, Found)) = places
     /\ \A x \in places :
          Shows(PostsForPlace(here, x.stats.location), PlacePageCap, x.stats.postCount)
     /\ Cardinality(events) = Min({Cardinality(told), EventsLimit})
     /\ \A e \in events, f \in told \ events : e.end >= f.end
     /\ \A e \in events : membersOf(e.posts) \subseteq idsOf(at(here, normalizeLocation(e.place)))
     /\ ForgottenPhoto(view, now) \subseteq
          {r \in RandomMemory(view, now) : forgottenPhotoEligible(r, now)}

(* The wall has everyone who checked in, unless they exceed the largest    *)
(* wall; nobody has more than their share; a post is left off only by one  *)
(* that outranks it, or for want of room, or because its author is served. *)
WallIsFair ==
  LET cands == recapCandidates
      limit == collageCardCap(Cardinality(active))
      wall == Wall
      on == {c \in cands : \E i \in DOMAIN wall : wall[i].post = c.id}
      share == 1 + FillPerAuthor
  IN /\ Len(wall) = Cardinality(on) /\ Len(wall) <= limit
     /\ Cardinality(authorsOf(cands)) <= MaxCards => authorsOf(on) = authorsOf(cands)
     /\ \A m \in Member : postCount(on, m) <= share
     /\ \A c \in cands \ on :
          \/ postCount(on, c.by) = share
          \/ Len(wall) = limit /\ \A d \in on :
               candidateOutranks(d, c) \/ ahead(ownOf(cands, d.by), d) = {}

(* A viewer's deck is that of a group without the members they block, in   *)
(* its roster and the two figures shown beside it, and loses no one else.  *)
FilteredDeckAgrees ==
  LET deck == FilterRecapForViewer(Deck, blocked)
      seen == {c \in recapCandidates : c.by \notin blocked}
      shown(d) == UNION {{p[i].by : i \in DOMAIN p} : p \in membersOf(d.panels)}
  IN ~ recapEmpty(recapCandidates) =>
       /\ deck.people = recapPeople(seen)
       /\ deck.stats.posts = Cardinality(seen)
       /\ deck.stats.posters = Cardinality(authorsOf(seen))
       /\ shown(deck) = shown(Deck) \ blocked

(* Everyone who checked in gets a title, and whoever leads in some award   *)
(* gets the title of one they lead in; a later period that gives a member  *)
(* nothing leaves the title alone.                                         *)
leads(v) == {m \in DOMAIN v : v[m] > 0 /\ \A n \in DOMAIN v \ {m} :
                   v[n] < v[m] \/ (v[n] = v[m] /\ m < n)}
TitlesAreWins ==
  [][BestowTitles =>
       LET scores == awardScores
           posters == authorsOf(recapCandidates)
       IN \A m \in active :
            /\ m \in posters => titles'[m] # NoAward
            /\ (\E a \in Award : m \in leads(scores[a])) => m \in leads(scores[titles'[m]])]_vars

==============================================================================
