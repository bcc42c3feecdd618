------------------------------ MODULE MCJournal ------------------------------
(* Small histories for Journal.  Labels 2n and 2n + 1 spell place n.       *)
EXTENDS Journal

MCMember == 1..4

CityAt(pos, population) == [pos |-> pos, population |-> population]
\* 1 is one city, 2 two comparable ones, 3 a dominant one, 4 hamlets and a
\* city also called so; 5 is in no gazetteer.
MCDataset ==
  [p \in 1..4 |->
     CASE p = 1 -> [primary |-> <<CityAt(20, 0)>>, alias |-> <<>>]
       [] p = 2 -> [primary |-> <<CityAt(90, 8), CityAt(10, 7)>>, alias |-> <<CityAt(50, 50)>>]
       [] p = 3 -> [primary |-> <<CityAt(30, 2), CityAt(80, 40)>>, alias |-> <<>>]
       [] p = 4 -> [primary |-> <<CityAt(60, 0), CityAt(70, 0)>>, alias |-> <<CityAt(0, 9)>>]]

\* A check-in by m from label l at tick t, with a photo or without, measured
\* at x or not.
CheckInOf(m, l, t, photo, x) == [by |-> m, loc |-> l, at |-> t, photos |-> photo, pos |-> x]
At(m, l, t) == CheckInOf(m, l, t, 0, NoPos)
Made(id, c, kind, likers, commenters, tagged) ==
  [id |-> id, by |-> c.by, kind |-> kind, loc |-> c.loc, at |-> c.at, photos |-> c.photos,
   clips |-> IF c.photos = 0 /\ kind = "clip" THEN 1 ELSE 0, pos |-> c.pos, tags |-> tagged,
   likes |-> {[by |-> m, at |-> c.at] : m \in likers},
   comments |-> {[by |-> m, at |-> c.at] : m \in commenters}]

Quiet == [start |-> 0, end |-> 0, past |-> {}, plan |-> {}, index |-> {"ok"},
          deletable |-> {}, engagement |-> 0, fans |-> {}, readers |-> {}, blockable |-> {}, revocable |-> {},
          period |-> <<0, 0>>, bestows |-> FALSE, restarts |-> FALSE, offset |-> 0]

\* Three members at home and away, over a week.
Travels ==
  [Quiet EXCEPT !.start = 6, !.end = 12, !.offset = 2,
     !.past = {Made(1, At(1, 2, 0), "post", {}, {}, {}), Made(2, At(2, 3, 1), "post", {}, {}, {}),
               Made(3, At(1, 2, 2), "post", {}, {}, {}), Made(4, At(2, 2, 3), "post", {}, {}, {})},
     !.plan = {At(1, 4, 6), At(2, 5, 6), At(3, 4, 6), At(1, 4, 8), At(2, 4, 8),
               At(1, 4, 10), At(2, 4, 12), At(1, 2, 12), At(3, 6, 11)}]
\* A first trip that goes on, with check-ins deleted.
Visits ==
  [Quiet EXCEPT !.end = 9, !.offset = -1, !.deletable = {1, 3}, !.blockable = {3},
     !.plan = {At(1, 4, 1), At(2, 4, 1), At(3, 4, 1), At(1, 5, 3), At(2, 4, 9)}]

\* Places with and without measured positions, resolved by a reader; and two
\* readers of one place, with restarts.
Map == [Quiet EXCEPT !.readers = {CHOOSE r \in Reader : TRUE},
          !.past = {Made(1, At(1, 4, 0), "post", {}, {}, {})}]
Maps ==
  {[Map EXCEPT !.plan = {At(1, l, 0), CheckInOf(2, 8, 0, 1, x)}] : l \in {2, 6, 10}, x \in {5, NoPos}}
    \cup {[Map EXCEPT !.readers = Reader, !.plan = {At(1, 6, 0)},
              !.index = {"ok", "missing"}, !.restarts = TRUE]}

\* A week with a wall, likes, comments, tags and blocks.
Weeks ==
  {[Quiet EXCEPT !.start = 11, !.end = 11, !.engagement = 9, !.fans = {1}, !.deletable = {5},
      !.blockable = {4}, !.revocable = {3}, !.period = <<1, 10>>, !.bestows = TRUE, !.offset = 1,
      !.past = {Made(1, CheckInOf(1, 2, 1, 1, NoPos), "post", {2, 3}, {2}, {2}),
                Made(2, CheckInOf(1, 3, 4, 0, NoPos), "clip", {4}, {}, {}),
                Made(3, CheckInOf(1, 0, 4, 0, NoPos), "post", {2}, {3}, {}),
                Made(4, CheckInOf(2, 2, 5, 1, NoPos), "post", {1}, {}, {1, 3}),
                Made(5, CheckInOf(3, 4, 6, 0, NoPos), "post", {}, {}, {}),
                Made(6, CheckInOf(4, 4, 9, 0, NoPos), k, {}, {}, {})}] : k \in {"post", "recap"}}

MCScenes == {Travels, Visits} \cup Maps \cup Weeks

\* Two members' first trip: three days at one place, and nothing before.
FirstTrip ==
  {[Quiet EXCEPT !.end = 5,
      !.plan = {At(m, 4, t) : m \in {1, 2}, t \in {1, 3, 5}}]}
=============================================================================
