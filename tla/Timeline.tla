------------------------------- MODULE Timeline -------------------------------
(***************************************************************************)
(* Looking back: the months of the timeline, the posts of one of them, a   *)
(* random memory and a forgotten photo.  A row is a record with the fields *)
(* id, by, loc (0 for none), at, likes, comments, photos and clips.        *)
(*                                                                         *)
(* A month has MonthLen ticks, and month k starts at k * MonthLen on the   *)
(* group's clock, which is offset ticks ahead of the stored one.           *)
(***************************************************************************)
EXTENDS Ranking

CONSTANTS
  MonthLen, MonthPageCap, CoverCap,
  RecencyFloor,                                 \* memoryRecencyFloor
  AgeFloor, EngagementCeiling, CandidateWindow  \* forgotten...

(* A forgotten photo (forgottenAgeFloor, 90 days) is older than a memory   *)
(* has to be (memoryRecencyFloor, 14 days).                                *)
ASSUME TimelineAssumption ==
  /\ MonthLen \in Nat \ {0} /\ MonthPageCap \in Nat /\ CandidateWindow \in Nat
  /\ RecencyFloor \in Nat /\ AgeFloor \in Nat /\ RecencyFloor <= AgeFloor

-----------------------------------------------------------------------------
localMonth(t, offset) == (t + offset) \div MonthLen

(* The covers are the most liked photos.                                   *)
coversOf(run) ==
  LET pictured == ranked({r \in run : r.photos > 0},
        LAMBDA a, b : a.likes > b.likes \/ (a.likes = b.likes /\ a.id < b.id))
  IN [i \in 1..Min({Len(pictured), CoverCap}) |-> pictured[i].id]

(* Places are counted as they are spelled.                                 *)
buildTimelineMonth(month, run) ==
  [month |-> month, postCount |-> Cardinality(run),
   photoCount |-> sumOf(LAMBDA r : r.photos, run), clipCount |-> sumOf(LAMBDA r : r.clips, run),
   placeCount |-> Cardinality({r.loc : r \in run} \ {0}),
   posterCount |-> Cardinality({r.by : r \in run}), covers |-> coversOf(run)]

bucketTimeline(rows, offset) ==
  LET bucket(k) == {r \in rows : localMonth(r.at, offset) = k}
      months == {localMonth(r.at, offset) : r \in rows}
  IN ranked({buildTimelineMonth(k, bucket(k)) : k \in months}, LAMBDA a, b : a.month > b.month)

newestFirst(rows) ==
  ranked(rows, LAMBDA a, b : a.at > b.at \/ (a.at = b.at /\ a.id > b.id))

\* Mutant: the offset is added where it should be taken off.
MonthPostsUnshifted(rows, month, offset) ==
  LET start == month * MonthLen + offset
      fetched == first(newestFirst({r \in rows : r.at >= start /\ r.at < start + MonthLen}),
                       MonthPageCap + 1)
  IN [posts |-> first(fetched, MonthPageCap), hasMore |-> Len(fetched) > MonthPageCap]

(* The query is bounded by the month's two ends on the stored clock and    *)
(* fetches one post too many.                                              *)
TimelineMonthPosts(rows, month, offset) ==
  LET start == month * MonthLen - offset
      fetched == first(newestFirst({r \in rows : r.at >= start /\ r.at < start + MonthLen}),
                       MonthPageCap + 1)
  IN [posts |-> first(fetched, MonthPageCap), hasMore |-> Len(fetched) > MonthPageCap]

-----------------------------------------------------------------------------
(* Either page draws one at random from a set, or has nothing to show.     *)

randomMemoryFrom(rows, now, requireMedia) ==
  {r \in rows : r.at < now - RecencyFloor /\ (requireMedia => r.photos + r.clips > 0)}

RandomMemory(rows, now) ==
  LET pictured == randomMemoryFrom(rows, now, TRUE)
  IN IF pictured # {} THEN pictured ELSE randomMemoryFrom(rows, now, FALSE)

forgottenPhotoEligible(r, now) ==
  /\ r.photos + r.clips > 0
  /\ now - r.at > AgeFloor
  /\ r.likes + r.comments <= EngagementCeiling

(* The query's rendering of that rule, and its shortlist of the least      *)
(* engaged and oldest.  Which of two equals is cut is left to the database *)
(* and settled by the id here.                                             *)
neglected(rows, now) ==
  {r \in rows : /\ r.at < now - AgeFloor
                /\ r.photos + r.clips > 0
                /\ r.likes + r.comments <= EngagementCeiling}

ForgottenPhoto(rows, now) ==
  LET engagement(r) == r.likes + r.comments
      sooner(a, b) == a.at < b.at \/ (a.at = b.at /\ a.id < b.id)
  IN membersOf(first(ranked(neglected(rows, now), LAMBDA a, b :
       \/ engagement(a) < engagement(b)
       \/ (engagement(a) = engagement(b) /\ sooner(a, b))), CandidateWindow))

=============================================================================
