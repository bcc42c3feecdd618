------------------------------ MODULE RecapCards ------------------------------
(***************************************************************************)
(* What a recap says: the wall of cards, the roster and the figures, the   *)
(* deck a viewer with blocks is served, and the titles a period bestows.   *)
(*                                                                         *)
(* A candidate is a record with the fields id, by, at, loc, likes,         *)
(* comments (both counted) and media ("photo", "clip" or "none").          *)
(***************************************************************************)
EXTENDS Ranking

CONSTANTS
  BaseCards, MaxCards,            \* the cap of a cadence, and the cap of caps
  FillPerAuthor,
  RecapMinPosts, RecapMinPosters,
  MinutesPerDay                   \* ticks of the clock in a day

ASSUME CardsAssumption ==
  /\ BaseCards \in Nat /\ MaxCards \in Nat /\ FillPerAuthor \in Nat
  /\ RecapMinPosts \in Nat /\ RecapMinPosters \in Nat /\ MinutesPerDay \in Nat \ {0}

NoAward == "none"

authorsOf(cands) == {c.by : c \in cands}
ownOf(cands, m) == {c \in cands : c.by = m}

-----------------------------------------------------------------------------
(* The wall.                                                               *)

\* Mutant: the group's size is not looked at.
capOfCadence(memberCount) == Min({BaseCards, MaxCards})
collageCardCap(memberCount) == Min({Max({BaseCards, memberCount}), MaxCards})

candidateOutranks(a, b) ==
  \/ a.likes > b.likes
  \/ /\ a.likes = b.likes
     /\ \/ a.comments > b.comments
        \/ /\ a.comments = b.comments
           /\ a.at < b.at \/ (a.at = b.at /\ a.id < b.id)

ahead(cands, c) == {d \in cands : candidateOutranks(d, c)}
guaranteedPosts(cands) == {c \in cands : ahead(ownOf(cands, c.by), c) = {}}

(* The best of each author's next posts, as far as there is room.          *)
fillPosts(cands, room) ==
  LET next == {c \in cands : Cardinality(ahead(ownOf(cands, c.by), c)) \in 1..FillPerAuthor}
  IN {c \in next : Cardinality(ahead(next, c)) < room}

selectCollageCards(cands, memberCount) ==
  LET limit == collageCardCap(memberCount)
      sure == guaranteedPosts(cands)
      chosen == ranked(sure \cup fillPosts(cands, limit - Cardinality(sure)), candidateOutranks)
  IN [i \in 1..Min({Len(chosen), limit}) |->
        [post |-> chosen[i].id, by |-> chosen[i].by, guaranteed |-> chosen[i] \in sure,
         kind |-> IF chosen[i].media = "none" THEN "quote" ELSE chosen[i].media]]

-----------------------------------------------------------------------------
(* Roster, figures, and the deck as a viewer may see it.                   *)

postCount(cands, m) == Cardinality(ownOf(cands, m))
recapPeople(cands) ==
  LET people == ranked(authorsOf(cands), LAMBDA a, b :
                  \/ postCount(cands, a) > postCount(cands, b)
                  \/ (postCount(cands, a) = postCount(cands, b) /\ a < b))
  IN [i \in DOMAIN people |-> [by |-> people[i], posts |-> postCount(cands, people[i])]]

recapStats(cands, memberCount) ==
  [posts |-> Cardinality(cands), posters |-> Cardinality(authorsOf(cands)),
   members |-> memberCount,
   likes |-> sumOf(LAMBDA c : c.likes, cands), comments |-> sumOf(LAMBDA c : c.comments, cands),
   photos |-> Cardinality({c \in cands : c.media = "photo"}),
   clips |-> Cardinality({c \in cands : c.media = "clip"}),
   places |-> Cardinality({c.loc : c \in cands} \ {0})]

recapEmpty(cands) ==
  Cardinality(cands) < RecapMinPosts \/ Cardinality(authorsOf(cands)) < RecapMinPosters

(* A deck is a sequence of panels, here the wall or nothing.               *)
BuildRecap(cands, memberCount) ==
  [stats |-> recapStats(cands, memberCount), people |-> recapPeople(cands),
   panels |-> LET cards == selectCollageCards(cands, memberCount)
              IN IF cards = <<>> THEN <<>> ELSE <<cards>>]

unblocked(list, blocked) == kept(list, LAMBDA x : x.by \notin blocked)
\* Mutant: the figures are left as they were.
filterNamesOnly(deck, blocked) ==
  [stats |-> deck.stats, people |-> unblocked(deck.people, blocked),
   panels |-> kept([i \in DOMAIN deck.panels |-> unblocked(deck.panels[i], blocked)],
                   LAMBDA p : p # <<>>)]
FilterRecapForViewer(deck, blocked) ==
  LET people == unblocked(deck.people, blocked)
      panels == [i \in DOMAIN deck.panels |-> unblocked(deck.panels[i], blocked)]
  IN IF blocked = {} THEN deck
     ELSE [stats |-> [deck.stats EXCEPT
                        !.posts = sumOf(LAMBDA i : people[i].posts, DOMAIN people),
                        !.posters = Len(people)],
           people |-> people,
           panels |-> kept(panels, LAMBDA p : p # <<>>)]

-----------------------------------------------------------------------------
(* Titles.  An award scores a member; 0 is "does not qualify".             *)

awardOrder == <<"most_liked", "night_owl", "early_bird", "most_travelled", "chatterbox",
                "biggest_fan", "quiet_achiever", "most_tagged", "longest_thread">>
Award == {awardOrder[i] : i \in DOMAIN awardOrder}
orderOf(a) == CHOOSE i \in DOMAIN awardOrder : awardOrder[i] = a

minuteOfDay(t) == t % MinutesPerDay
best(figure(_), cands) == Max({figure(c) : c \in cands} \cup {0})

(* At most the average of those who posted, the comparison kept in         *)
(* integers; the score is the likes to a post, in hundredths, rounded.     *)
quietScore(cands, m) ==
  LET own == ownOf(cands, m)
      n == Cardinality(own)
      liked == sumOf(LAMBDA c : c.likes, own)
  IN IF n > 0 /\ n * Cardinality(authorsOf(cands)) <= Cardinality(cands)
     THEN (200 * liked + n) \div (2 * n) + 1 ELSE 0

(* counts are those of the period: comments written, likes given, tags.    *)
(* Midnight qualifies, with the value 0, so the scores that may be 0 while *)
(* qualifying are raised by one.                                           *)
score(a, cands, m, counts) ==
  LET own == ownOf(cands, m) IN
  CASE a = "most_liked" -> best(LAMBDA c : c.likes, own)
    [] a = "night_owl" -> best(LAMBDA c : minuteOfDay(c.at) + 1, own)
    [] a = "early_bird" -> best(LAMBDA c : MinutesPerDay - minuteOfDay(c.at), own)
    [] a = "most_travelled" -> Cardinality({c.loc : c \in own} \ {0})
    [] a = "chatterbox" -> counts.written[m]
    [] a = "biggest_fan" -> counts.given[m]
    [] a = "quiet_achiever" -> quietScore(cands, m)
    [] a = "most_tagged" -> counts.tagged[m]
    [] a = "longest_thread" -> best(LAMBDA c : c.comments, own)

(* Each member's place among those who qualify, from 0.                    *)
awardRankings(scores) ==
  [a \in Award |->
     LET v == scores[a]
         qualify == {m \in DOMAIN v : v[m] > 0}
     IN [m \in qualify |->
           Cardinality({n \in qualify : v[n] > v[m] \/ (v[n] = v[m] /\ n < m)})]]

\* Mutant: the greatest rank instead of the least.
worstAward(rankOf, m) ==
  LET ranks == {a \in Award : m \in DOMAIN rankOf[a]}
  IN IF ranks = {} THEN NoAward
     ELSE CHOOSE a \in ranks : \A b \in ranks : rankOf[b][m] <= rankOf[a][m]

bestAwardPerMember(rankOf, m) ==
  LET ranks == {a \in Award : m \in DOMAIN rankOf[a]}
      better(a, b) == \/ rankOf[a][m] < rankOf[b][m]
                      \/ (rankOf[a][m] = rankOf[b][m] /\ orderOf(a) < orderOf(b))
  IN IF ranks = {} THEN NoAward
     ELSE CHOOSE a \in ranks : \A b \in ranks \ {a} : better(a, b)

=============================================================================
