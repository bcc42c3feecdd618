----------------------------- MODULE DigestProofs -----------------------------
(***************************************************************************)
(* Proofs about the daily summary, for any members, requests and bounds,   *)
(* any number of moments to the slot, slots to the hour and hours to the   *)
(* day.                                                                    *)
(***************************************************************************)
EXTENDS Digest, FiniteSetTheorems, TLAPS

-----------------------------------------------------------------------------
(* The inductive invariant, in parts.                                      *)

(* A slot later than MaxNow's no tick begins, and in it no more than a     *)
(* slot's marks fit.                                                       *)
Clock ==
  /\ now \in Int /\ StartTime <= now /\ now < Slot(MaxNow) * MomentsPerSlot + 2 * MomentsPerSlot
  /\ ticked \in BOOLEAN

RunState ==
  [pc : {"idle", "pick", "mark", "send"}, todo : SUBSET Target, at : SUBSET Target,
   missed : SUBSET PostId, seen : SUBSET PostId, began : Int, moved : SUBSET Member]
PatchState == {NoPatch} \cup [pc : {"write"}, user : Member, named : Patches, prefs : Pref]

Types ==
  /\ prefs \in [Member -> Pref] /\ sentAt \in [Member -> Int]
  /\ active \subseteq Member /\ blocked \subseteq Member \X Member
  /\ posts \subseteq Post /\ open \subseteq Post
  /\ run \in RunState /\ patch \in [Request -> PatchState]
  /\ fate \in [Member -> [PostId -> Fate]] /\ horizon \in [Member -> Int]
  /\ lastSent \in [Member -> Int] /\ smooth \in [Member -> BOOLEAN]

(* Posts are numbered as they begin, and no post is of the future.         *)
AllPosts == posts \cup open
Numbered ==
  /\ IsFiniteSet(AllPosts)
  /\ \A p, q \in AllPosts : p.id = q.id => p = q
  /\ \A p \in AllPosts : p.id <= Cardinality(AllPosts) /\ p.at <= now

(* A run has one target for a member, and ends in the slot it began in or  *)
(* the next.                                                               *)
RunOK ==
  /\ run.pc = "idle" => run.todo = {} /\ run.at = {} /\ run.moved = {}
  /\ run.pc = "pick" => run.at = {}
  /\ run.pc \in {"mark", "send"} => \E t \in run.at : run.at = {t}
  /\ \A s, t \in run.todo \cup run.at : s.user = t.user => s = t
  /\ run.todo \cap run.at = {}
  /\ run.missed \subseteq run.seen
  /\ run.pc # "idle" =>
       StartTime <= run.began /\ run.began <= now /\ Slot(now) <= Slot(run.began) + 1

(* A member whom the run has not marked yet was due when it began, and its *)
(* window has not moved since, or is a new one.                            *)
LocalHourAt(u, t) == ((t + prefs[u].offset) \div Hour) % HoursPerDay
Unmarked == run.todo \cup (IF run.pc = "mark" THEN run.at ELSE {})
Waiting ==
  \A t \in Unmarked :
    IF t.user \in run.moved THEN sentAt[t.user] = Never
    ELSE /\ LocalHourAt(t.user, run.began) = prefs[t.user].hour
         /\ sentAt[t.user] # Never =>
              t.since = sentAt[t.user] /\ sentAt[t.user] < run.began - Quiet

(* What a member was told of lies behind the last mark, and the last       *)
(* summary was sent in the slot of the mark or when the next began.        *)
ToldOf(u) ==
  IF sentAt[u] = Never
  THEN horizon[u] = Never /\ lastSent[u] = Never /\ \A p \in PostId : fate[u][p] = "new"
  ELSE /\ StartTime <= sentAt[u] /\ sentAt[u] < now
       /\ lastSent[u] = Never
            \/ /\ StartTime <= lastSent[u] /\ lastSent[u] <= now
               /\ lastSent[u] <= Slot(sentAt[u]) * MomentsPerSlot + MomentsPerSlot
       /\ \A p \in PostId :
            fate[u][p] # "new" => \E q \in AllPosts : q.id = p /\ q.at <= sentAt[u]
Told == \A u \in Member : ToldOf(u)

(* The count that a mark acts on: what it saw since the window's beginning.*)
Counted ==
  run.pc = "mark" =>
    \A t \in run.at :
      /\ \A p \in run.seen : \E q \in AllPosts : q.id = p
      /\ \A q \in AllPosts : q.id \in run.missed => q.at > t.since
      /\ \A q \in AllPosts : q.id \in run.seen \ run.missed => q.at <= t.since

(* A summary about to be sent: its mark is less than a slot old, or the    *)
(* slot has just ended, and what it counts is marked as counted.           *)
Sending ==
  run.pc = "send" =>
    \A t \in run.at :
      t.user \notin run.moved =>
        /\ sentAt[t.user] # Never
        /\ now <= Slot(sentAt[t.user]) * MomentsPerSlot + MomentsPerSlot
        /\ Slot(run.began) = Slot(now) => Slot(sentAt[t.user]) = Slot(now)
        /\ lastSent[t.user] # Never =>
             run.began > lastSent[t.user] + Quiet - MomentsPerSlot
        /\ \A p \in run.missed : fate[t.user][p] = "counted"

Base == Clock /\ Types /\ Numbered /\ RunOK /\ Waiting /\ Told /\ Counted /\ Sending

(* The hour of a member the last mark was for, and where the next day's    *)
(* stands: still ahead; its first full slot is running and was not looked  *)
(* at; or the member is a target of the run.                               *)
HourBegins(u, h) ==
  LET k == (h + prefs[u].offset) \div Hour
  IN  h + prefs[u].offset = k * Hour /\ k % HoursPerDay = prefs[u].hour
Awaited(u) == \E t \in Unmarked : t.user = u
SlotBegan == Slot(now) * MomentsPerSlot
Turn(u, e) ==
  \/ SlotBegan < e
  \/ SlotBegan < e + MomentsPerSlot /\ (~ticked \/ Awaited(u))
  \/ SlotBegan < e + 2 * MomentsPerSlot /\ Awaited(u) /\ Slot(run.began) # Slot(now)
LookedOf(u) ==
  smooth[u] =>
    /\ u \notin run.moved
    /\ prefs[u].enabled /\ u \in active =>
         \E h \in (sentAt[u] - Hour - 2 * MomentsPerSlot)..sentAt[u] :
           /\ sentAt[u] < h + Hour + 2 * MomentsPerSlot
           /\ HourBegins(u, h)
           /\ Turn(u, h + Day)
LookedAfter == \A u \in Member : LookedOf(u)

-----------------------------------------------------------------------------
(* Slots and hours.                                                        *)
LEMMA Divides ==
  ASSUME NEW d \in Nat \ {0}, NEW x \in Int
  PROVE  x \div d \in Int /\ (x \div d) * d \in Int /\ (x \div d) * d <= x /\ x < (x \div d) * d + d
OBVIOUS

LEMMA NextMultiple ==
  ASSUME NEW d \in Nat \ {0}, NEW p \in Int, NEW q \in Int, p < q
  PROVE  p * d + d <= q * d
<1>1. (p + 1) * d <= q * d
  OBVIOUS
<1>2. (p + 1) * d = p * d + d
  OBVIOUS
<1>3. p * d \in Int /\ q * d \in Int /\ (p + 1) * d \in Int
  OBVIOUS
<1> QED BY <1>1, <1>2, <1>3

LEMMA DividesUniquely ==
  ASSUME NEW d \in Nat \ {0}, NEW x \in Int, NEW q \in Int, q * d <= x, x < q * d + d
  PROVE  x \div d = q
<1> DEFINE p == x \div d
<1>1. p \in Int /\ p * d <= x /\ x < p * d + d
  BY Divides
<1> HIDE DEF p
<1>2. p * d \in Int /\ q * d \in Int
  BY <1>1
<1>3. ~ p < q /\ ~ q < p
  BY <1>1, <1>2, NextMultiple
<1>4. p = q
  BY <1>1, <1>3
<1> QED BY <1>4 DEF p

LEMMA Remainder ==
  ASSUME NEW d \in Nat \ {0}, NEW x \in Int
  PROVE  x % d = x - (x \div d) * d
OBVIOUS

LEMMA SameRemainder ==
  ASSUME NEW d \in Nat \ {0}, NEW x \in Int
  PROVE  (x + d) % d = x % d
<1> DEFINE q == x \div d
<1>1. q \in Int /\ q * d \in Int /\ q * d <= x /\ x < q * d + d
  BY Divides
<1>2. x % d = x - q * d
  BY Remainder
<1> HIDE DEF q
<1>3. (q + 1) * d = q * d + d /\ q + 1 \in Int
  BY <1>1
<1>4. (x + d) \div d = q + 1
  BY <1>1, <1>3, DividesUniquely
<1>5. (x + d) % d = (x + d) - (q + 1) * d
  <2> DEFINE y == x + d
  <2>1. y \in Int /\ y \div d = q + 1
    BY <1>4
  <2> HIDE DEF y
  <2>2. y % d = y - (q + 1) * d
    BY <2>1, Remainder
  <2> QED BY <2>2 DEF y
<1> QED BY <1>1, <1>2, <1>3, <1>5

LEMMA Units ==
  /\ MomentsPerSlot \in Nat \ {0} /\ Hour \in Nat \ {0} /\ Day \in Nat \ {0}
  /\ HoursPerDay \in Nat \ {0} /\ MomentsPerSlot <= Hour /\ Hour <= Day
  /\ Quiet \in Nat /\ Hour <= Quiet /\ Quiet <= Day - Hour
<1>1. MomentsPerSlot \in Nat \ {0} /\ SlotsPerHour \in Nat \ {0} /\ HoursPerDay \in Nat \ {0}
  BY ConstantsAssumption
<1>2. Hour \in Nat \ {0} /\ MomentsPerSlot <= Hour
  BY <1>1 DEF Hour
<1>3. Day \in Nat \ {0} /\ Hour <= Day
  BY <1>1, <1>2 DEF Day
<1> QED BY <1>1, <1>2, <1>3, ConstantsAssumption

LEMMA Slots ==
  ASSUME NEW t \in Int
  PROVE  /\ Slot(t) \in Int /\ Slot(t) * MomentsPerSlot \in Int
         /\ Slot(t) * MomentsPerSlot <= t /\ t < Slot(t) * MomentsPerSlot + MomentsPerSlot
BY Units, Divides DEF Slot

\* A later slot begins a slot later at least.
LEMMA LaterSlot ==
  ASSUME NEW s \in Int, NEW t \in Int, Slot(s) < Slot(t)
  PROVE  Slot(s) * MomentsPerSlot + MomentsPerSlot <= Slot(t) * MomentsPerSlot
BY Units, Slots, NextMultiple

LEMMA SameSlot ==
  ASSUME NEW s \in Int, NEW t \in Int, Slot(s) = Slot(t)
  PROVE  Slot(s) * MomentsPerSlot = Slot(t) * MomentsPerSlot
OBVIOUS

LEMMA SlotsInOrder ==
  ASSUME NEW s \in Int, NEW t \in Int, s <= t
  PROVE  Slot(s) <= Slot(t)
<1>1. ASSUME Slot(t) < Slot(s) PROVE FALSE
  BY <1>1, LaterSlot, Slots, Units
<1> QED BY <1>1, Slots

\* Where the clock stands when a slot has passed.
LEMMA SlotPasses ==
  ASSUME NEW t \in Int
  PROVE  LET u == (Slot(t) + 1) * MomentsPerSlot
         IN  /\ u \in Int /\ u = Slot(t) * MomentsPerSlot + MomentsPerSlot
             /\ t < u /\ Slot(u) = Slot(t) + 1
<1> DEFINE u == (Slot(t) + 1) * MomentsPerSlot
<1>1. u \in Int /\ u = Slot(t) * MomentsPerSlot + MomentsPerSlot
  BY Slots, Units
<1>2. Slot(t) + 1 \in Int /\ (Slot(t) + 1) * MomentsPerSlot <= u /\ u < (Slot(t) + 1) * MomentsPerSlot + MomentsPerSlot
  BY <1>1, Slots, Units
<1>3. Slot(u) = Slot(t) + 1
  <2> HIDE DEF u
  <2> QED BY <1>1, <1>2, Units, DividesUniquely DEF Slot
<1> QED BY <1>1, <1>3, Slots

\* Every moment lies in an hour of the member's day.
LEMMA HourOf ==
  ASSUME Types, NEW u \in Member, NEW t \in Int, LocalHourAt(u, t) = prefs[u].hour
  PROVE  \E h \in Int : HourBegins(u, h) /\ h <= t /\ t < h + Hour
<1> DEFINE off == prefs[u].offset
           k == (t + off) \div Hour
           h == k * Hour - off
<1>1. off \in Int /\ t + off \in Int
  BY DEF Types, Pref
<1>2. k \in Int /\ k * Hour \in Int /\ k * Hour <= t + off /\ t + off < k * Hour + Hour
  <2> HIDE DEF off
  <2> QED BY <1>1, Units, Divides
<1>3. k % HoursPerDay = prefs[u].hour
  BY DEF LocalHourAt
<1> HIDE DEF k, off
<1>4. h \in Int /\ h + off = k * Hour
  BY <1>1, <1>2, Units
<1>5. (h + off) \div Hour = k
  <2>1. h + off \in Int /\ k * Hour <= h + off /\ h + off < k * Hour + Hour
    BY <1>1, <1>2, <1>4, Units
  <2> HIDE DEF h
  <2> QED BY <1>2, <2>1, Units, DividesUniquely
<1>6. HourBegins(u, h)
  BY <1>3, <1>4, <1>5 DEF HourBegins, off
<1> QED BY <1>1, <1>2, <1>4, <1>6, Units

\* A day later it is the same hour.
LEMMA SameHourTomorrow ==
  ASSUME Types, NEW u \in Member, NEW h \in Int, HourBegins(u, h),
         NEW t \in Int, h + Day <= t, t < h + Day + Hour
  PROVE  LocalHourAt(u, t) = prefs[u].hour
<1> DEFINE off == prefs[u].offset
           k == (h + off) \div Hour
<1>1. off \in Int
  BY DEF Types, Pref
<1>2. k \in Int /\ h + off = k * Hour /\ k % HoursPerDay = prefs[u].hour
  BY <1>1, Units, Divides DEF HourBegins
<1> HIDE DEF k, off
<1>3. (k + HoursPerDay) * Hour = k * Hour + Day
  BY <1>2, Units DEF Day
<1>4. k + HoursPerDay \in Int /\ (k + HoursPerDay) * Hour <= t + off
      /\ t + off < (k + HoursPerDay) * Hour + Hour
  BY <1>1, <1>2, <1>3, Units
<1>5. (t + off) \div Hour = k + HoursPerDay
  <2>1. t + off \in Int
    BY <1>1
  <2> QED BY <1>4, <2>1, Units, DividesUniquely
<1>6. (k + HoursPerDay) % HoursPerDay = k % HoursPerDay
  BY <1>2, Units, SameRemainder
<1> QED BY <1>2, <1>5, <1>6 DEF LocalHourAt, off

-----------------------------------------------------------------------------
(* Types.                                                                  *)
LEMMA IdleRunIsARun == IdleRun \in RunState
BY DEF IdleRun, RunState

LEMMA NextMemberRun ==
  ASSUME Types, NEW t, NextMember(t)
  PROVE  /\ run' \in RunState /\ run'.at = {} /\ run'.todo = run.todo \ {t}
         /\ run'.missed = {} /\ run'.seen = {}
         /\ \/ run'.pc = "idle" /\ run'.todo = {} /\ run'.moved = {}
            \/ run'.pc = "pick" /\ run'.began = run.began /\ run'.moved = run.moved
<1>1. run \in RunState
  BY DEF Types
<1>2. CASE run.todo \ {t} = {}
  <2>1. run' = IdleRun
    BY <1>2 DEF NextMember
  <2>2. /\ IdleRun.at = {} /\ IdleRun.todo = {} /\ IdleRun.missed = {} /\ IdleRun.seen = {}
        /\ IdleRun.pc = "idle" /\ IdleRun.moved = {}
    BY DEF IdleRun
  <2> QED BY <1>2, <2>1, <2>2, IdleRunIsARun
<1>3. CASE run.todo \ {t} # {}
  <2>1. run' = [IdleRun EXCEPT !.pc = "pick", !.todo = run.todo \ {t},
                               !.began = run.began, !.moved = run.moved]
    BY <1>3 DEF NextMember
  <2>2. run' = [pc |-> "pick", todo |-> run.todo \ {t}, at |-> {}, missed |-> {}, seen |-> {},
                began |-> run.began, moved |-> run.moved]
    BY <2>1 DEF IdleRun
  <2> QED BY <1>1, <2>2 DEF RunState
<1> QED BY <1>2, <1>3

LEMMA TargetFields ==
  ASSUME Types, NEW t \in run.todo \cup run.at
  PROVE  t \in Target /\ t.user \in Member /\ t.since \in Int
BY DEF Types, RunState, Target

LEMMA DigestTargetFields ==
  ASSUME Types, Clock
  PROVE  /\ DigestTargets \subseteq Target
         /\ \A t \in DigestTargets : Due(t.user) /\ t.since = Since(t.user) /\ t.user \in Member
         /\ \A u \in Member : Due(u) => \E t \in DigestTargets : t.user = u
<1>1. \A u \in Member : Since(u) \in Int
  BY Units DEF Since, Types, Clock
<1>2. \A t \in DigestTargets : \E u \in Member : Due(u) /\ t = [user |-> u, since |-> Since(u)]
  BY DEF DigestTargets
<1>3. \A u \in Member : Due(u) => [user |-> u, since |-> Since(u)] \in DigestTargets
  BY DEF DigestTargets
<1>4. \A t \in DigestTargets : t \in Target /\ Due(t.user) /\ t.since = Since(t.user) /\ t.user \in Member
  BY <1>1, <1>2 DEF Target
<1> QED BY <1>3, <1>4

LEMMA CountFields ==
  ASSUME Types, NEW t \in run.todo, Count(t)
  PROVE  /\ run' \in RunState
         /\ run'.pc = "mark" /\ run'.todo = run.todo \ {t} /\ run'.at = {t}
         /\ run'.missed = CountPostsSince(t) /\ run'.seen = {p.id : p \in Visible(t.user)}
         /\ run'.missed \subseteq run'.seen
         /\ run'.began = run.began /\ run'.moved = run.moved
         /\ run.pc = "pick"
<1>1. CountPostsSince(t) \subseteq {p.id : p \in Visible(t.user)}
  BY DEF CountPostsSince
<1>2. {p.id : p \in Visible(t.user)} \subseteq PostId
  <2>1. \A p \in posts : p.id \in PostId
    BY DEF Types, Post
  <2> QED BY <2>1 DEF Visible
<1> QED BY <1>1, <1>2 DEF Count, Types, RunState

LEMMA FateAtMarkIsFate ==
  ASSUME Types, NEW u \in Member PROVE FateAtMark(u) \in [PostId -> Fate]
BY DEF FateAtMark, Types, Fate

LEMMA StampFields ==
  ASSUME Types, Clock, NEW u \in Member, Stamp(u)
  PROVE  /\ now' = now + 1 /\ Slot(now') = Slot(now)
         /\ sentAt' \in [Member -> Int] /\ sentAt'[u] = now
         /\ \A v \in Member \ {u} : sentAt'[v] = sentAt[v]
BY DEF Stamp, Types, Clock

LEMMA UpsetFields ==
  ASSUME Types, NEW us, Upset(us)
  PROVE  smooth' \in [Member -> BOOLEAN] /\ \A u \in Member : smooth'[u] => smooth[u] /\ u \notin us
BY DEF Upset, Types

LEMMA MergedIsPref ==
  ASSUME NEW named \in Patches, NEW old \in Pref PROVE Merged(named, old) \in Pref
BY ConstantsAssumption DEF Merged, Pref, Field, Normalized

LEMMA BecomesFields ==
  ASSUME Types, NEW u \in Member, NEW f \in Fate, Becomes(u, f)
  PROVE  /\ fate' \in [Member -> [PostId -> Fate]]
         /\ \A v \in Member \ {u} : fate'[v] = fate[v]
         /\ u \in run.moved => fate' = fate
         /\ u \notin run.moved =>
              \A p \in PostId : fate'[u][p] = IF p \in run.missed THEN f ELSE fate[u][p]
BY DEF Becomes, Types

LEMMA WritePrefsFields ==
  ASSUME Types, NEW r \in Request, WritePrefs(r)
  PROVE  LET u == patch[r].user IN
         /\ u \in Member /\ patch[r].prefs \in Pref
         /\ prefs' \in [Member -> Pref] /\ sentAt' \in [Member -> Int] /\ run' \in RunState
         /\ patch' \in [Request -> PatchState]
         /\ UNCHANGED <<now, ticked, active, blocked, posts, open>>
         /\ \A v \in Member \ {u} : prefs'[v] = prefs[v] /\ sentAt'[v] = sentAt[v]
         /\ \/ UNCHANGED <<prefs, sentAt, run, fate, horizon, lastSent, smooth>>
            \/ /\ sentAt'[u] = Never
               /\ run' = IF run.pc = "idle" THEN run ELSE [run EXCEPT !.moved = @ \cup {u}]
               /\ fate' = [fate EXCEPT ![u] = Untold]
               /\ horizon' = [horizon EXCEPT ![u] = Never]
               /\ lastSent' = [lastSent EXCEPT ![u] = Never]
               /\ Upset({u})
<1>1. patch[r] \in PatchState /\ patch[r].pc = "write"
  BY DEF Types, WritePrefs
<1>2. patch[r].user \in Member /\ patch[r].prefs \in Pref
  BY <1>1 DEF PatchState, NoPatch
<1>3. patch' \in [Request -> PatchState]
  BY DEF WritePrefs, Types, PatchState
<1>4. run' \in RunState
  BY <1>2 DEF WritePrefs, Types, RunState
<1>5. UNCHANGED <<now, ticked, active, blocked, posts, open>>
  BY DEF WritePrefs, postVars
<1>6. prefs' = [prefs EXCEPT ![patch[r].user] = patch[r].prefs]
  BY DEF WritePrefs
<1>7. CASE prefs[patch[r].user] # patch[r].prefs
  <2>1. sentAt' = [sentAt EXCEPT ![patch[r].user] = Never]
    BY <1>7 DEF WritePrefs
  <2>2. /\ run' = IF run.pc = "idle" THEN run ELSE [run EXCEPT !.moved = @ \cup {patch[r].user}]
        /\ fate' = [fate EXCEPT ![patch[r].user] = Untold]
        /\ horizon' = [horizon EXCEPT ![patch[r].user] = Never]
        /\ lastSent' = [lastSent EXCEPT ![patch[r].user] = Never]
        /\ Upset({patch[r].user})
    BY <1>7 DEF WritePrefs
  <2>3. sentAt' \in [Member -> Int] /\ sentAt'[patch[r].user] = Never
        /\ \A v \in Member \ {patch[r].user} : sentAt'[v] = sentAt[v]
    BY <1>2, <2>1 DEF Types, Never
  <2> QED BY <1>2, <1>3, <1>4, <1>5, <1>6, <2>2, <2>3 DEF Types
<1>8. CASE prefs[patch[r].user] = patch[r].prefs
  <2>1. UNCHANGED <<sentAt, run, fate, horizon, lastSent, smooth>>
    BY <1>8 DEF WritePrefs, history
  <2>2. prefs' = prefs
    BY <1>2, <1>6, <1>8 DEF Types
  <2> QED BY <1>2, <1>3, <1>4, <1>5, <2>1, <2>2 DEF Types
<1> QED BY <1>7, <1>8

\* A target is of one member; the run reads settings, and never writes them.
LEMMA RunTypes ==
  ASSUME Types, Clock,
         \/ Tick \/ TargetsFail \/ Abort \/ Pass
         \/ \E t \in run.todo : Count(t) \/ CountFail(t)
         \/ \E t \in run.at : Mark(t) \/ MarkFail(t) \/ Send(t) \/ SendFail(t)
  PROVE  Types' /\ UNCHANGED <<prefs, active, blocked, posts, open, patch>>
<1>1. CASE Tick
  <2>1. run' \in RunState
    <3>1. CASE DigestTargets = {}
      BY <1>1, <3>1, IdleRunIsARun DEF Tick
    <3>2. CASE DigestTargets # {}
      BY <1>1, <3>2, DigestTargetFields DEF Tick, RunState, IdleRun, Clock
    <3> QED BY <3>1, <3>2
  <2> QED BY <1>1, <2>1 DEF Tick, Types, userVars, postVars, history
<1>2. CASE TargetsFail
  BY <1>2, UpsetFields DEF TargetsFail, Types, userVars, postVars
<1>3. CASE Abort
  <2>1. fate' \in [Member -> [PostId -> Fate]]
    <3>1. CASE run.pc = "send"
      <4>1. PICK t \in run.at : Becomes(t.user, "failed")
        BY <1>3, <3>1 DEF Abort
      <4> QED BY <4>1, TargetFields, BecomesFields DEF Fate
    <3>2. CASE run.pc # "send"
      BY <1>3, <3>2 DEF Abort, Types
    <3> QED BY <3>1, <3>2
  <2>2. smooth' \in [Member -> BOOLEAN]
    BY <1>3, UpsetFields DEF Abort
  <2> QED BY <1>3, <2>1, <2>2, IdleRunIsARun DEF Abort, Types, userVars, postVars
<1>4. CASE Pass
  <2>1. smooth' \in [Member -> BOOLEAN]
    BY <1>4, UpsetFields DEF Pass, Types
  <2> QED BY <1>4, <2>1 DEF Pass, Types, userVars, postVars
<1>5. ASSUME NEW t \in run.todo, Count(t)
      PROVE  Types' /\ UNCHANGED <<prefs, active, blocked, posts, open, patch>>
  BY <1>5, CountFields DEF Count, Types, userVars, postVars, history
<1>6. ASSUME NEW t \in run.todo, CountFail(t)
      PROVE  Types' /\ UNCHANGED <<prefs, active, blocked, posts, open, patch>>
  BY <1>6, NextMemberRun, UpsetFields DEF CountFail, WindowIntact, Types, userVars, postVars
<1>7. ASSUME NEW t \in run.at, Mark(t)
      PROVE  Types' /\ UNCHANGED <<prefs, active, blocked, posts, open, patch>>
  <2>1. t.user \in Member /\ t.since \in Int
    BY TargetFields
  <2>2. run' \in RunState
    BY <1>7, NextMemberRun DEF Mark, Types, RunState
  <2>3. sentAt' \in [Member -> Int]
    BY <1>7, <2>1, StampFields DEF Mark
  <2>4. fate' \in [Member -> [PostId -> Fate]]
    BY <1>7, <2>1, FateAtMarkIsFate DEF Mark, Types
  <2>5. horizon' \in [Member -> Int] /\ smooth' \in [Member -> BOOLEAN]
    BY <1>7, <2>1 DEF Mark, Types
  <2> QED BY <1>7, <2>2, <2>3, <2>4, <2>5 DEF Mark, Types, userVars, postVars
<1>8. ASSUME NEW t \in run.at, MarkFail(t)
      PROVE  Types' /\ UNCHANGED <<prefs, active, blocked, posts, open, patch>>
  <2>1. t.user \in Member /\ t.since \in Int
    BY TargetFields
  <2>2. run' \in RunState /\ smooth' \in [Member -> BOOLEAN]
    BY <1>8, NextMemberRun, UpsetFields DEF MarkFail
  <2>3. sentAt' \in [Member -> Int] /\ fate' \in [Member -> [PostId -> Fate]] /\ horizon' \in [Member -> Int]
    <3>1. CASE UNCHANGED <<now, sentAt, fate, horizon>>
      BY <3>1 DEF Types
    <3>2. CASE /\ Stamp(t.user)
               /\ fate' = [fate EXCEPT ![t.user] =
                    [p \in PostId |-> IF FateAtMark(t.user)[p] = "counted" THEN "failed"
                                      ELSE FateAtMark(t.user)[p]]]
               /\ horizon' = [horizon EXCEPT ![t.user] = IF @ = Never THEN t.since ELSE @]
      <4>1. [p \in PostId |-> IF FateAtMark(t.user)[p] = "counted" THEN "failed"
                              ELSE FateAtMark(t.user)[p]] \in [PostId -> Fate]
        BY <2>1, FateAtMarkIsFate DEF Fate
      <4>2. sentAt' \in [Member -> Int]
        BY <2>1, <3>2, StampFields
      <4> QED BY <2>1, <3>2, <4>1, <4>2 DEF Types
    <3> QED BY <1>8, <3>1, <3>2 DEF MarkFail
  <2> QED BY <1>8, <2>2, <2>3 DEF MarkFail, Types, userVars, postVars
<1>9. ASSUME NEW t \in run.at, Send(t) \/ SendFail(t)
      PROVE  Types' /\ UNCHANGED <<prefs, active, blocked, posts, open, patch>>
  <2>1. t.user \in Member
    BY TargetFields
  <2>2. run' \in RunState
    BY <1>9, NextMemberRun DEF Send, SendFail
  <2>3. fate' \in [Member -> [PostId -> Fate]]
    BY <1>9, <2>1, BecomesFields DEF Send, SendFail, Fate
  <2>4. lastSent' \in [Member -> Int]
    BY <1>9, <2>1 DEF Send, SendFail, Types, Clock
  <2> QED BY <1>9, <2>2, <2>3, <2>4 DEF Send, SendFail, Types, userVars, postVars
<1> QED BY <1>1, <1>2, <1>3, <1>4, <1>5, <1>6, <1>7, <1>8, <1>9
  DEF Tick, TargetsFail, Abort, Pass, userVars, postVars

LEMMA TypesStep == ASSUME Types, Clock, Numbered, Next PROVE Types'
<1>1. ASSUME NEW r \in Request, NEW u \in Member, NEW named \in Patches, ReadPrefs(r, u, named)
      PROVE  Types'
  <2>1. Merged(named, prefs[u]) \in Pref
    BY MergedIsPref DEF Types
  <2>2. patch' \in [Request -> PatchState]
    BY <1>1, <2>1 DEF ReadPrefs, Types, PatchState
  <2> QED BY <1>1, <2>2 DEF ReadPrefs, Types, userVars, postVars, history
<1>2. ASSUME NEW r \in Request, WritePrefs(r) PROVE Types'
  <2>1. CASE UNCHANGED <<prefs, sentAt, run, fate, horizon, lastSent, smooth>>
    BY <1>2, <2>1, WritePrefsFields DEF Types
  <2>2. CASE ~UNCHANGED <<prefs, sentAt, run, fate, horizon, lastSent, smooth>>
    <3> DEFINE u == patch[r].user
    <3>1. /\ fate' = [fate EXCEPT ![u] = Untold] /\ horizon' = [horizon EXCEPT ![u] = Never]
          /\ lastSent' = [lastSent EXCEPT ![u] = Never] /\ Upset({u}) /\ u \in Member
      BY <1>2, <2>2, WritePrefsFields
    <3>2. Untold \in [PostId -> Fate]
      BY DEF Untold, Fate
    <3>3. smooth' \in [Member -> BOOLEAN]
      BY <3>1, UpsetFields
    <3>4. fate' \in [Member -> [PostId -> Fate]] /\ horizon' \in [Member -> Int] /\ lastSent' \in [Member -> Int]
      <4> HIDE DEF u
      <4> QED BY <3>1, <3>2 DEF Types, Never
    <3> QED BY <1>2, <3>3, <3>4, WritePrefsFields DEF Types
  <2> QED BY <2>1, <2>2
<1>3. ASSUME NEW r \in Request, PatchFail(r) PROVE Types'
  BY <1>3 DEF PatchFail, Types, PatchState, userVars, postVars, history
<1>4. ASSUME NEW u \in Member, SetUserStatus(u) PROVE Types'
  <2>1. smooth' \in [Member -> BOOLEAN]
    BY <1>4, UpsetFields DEF SetUserStatus
  <2> QED BY <1>4, <2>1 DEF SetUserStatus, Types, postVars
<1>5. ASSUME NEW u \in Poster, BeginPost(u) PROVE Types'
  <2>1. [id |-> Cardinality(AllPosts) + 1, author |-> u, at |-> now] \in Post
    BY <1>5, FS_CardinalityType, ConstantsAssumption
    DEF BeginPost, Post, PostId, Clock, Numbered, AllPosts
  <2> QED BY <1>5, <2>1 DEF BeginPost, Types, AllPosts, userVars, history
<1>6. ASSUME NEW u \in Member, NEW v \in Poster, SetBlock(u, v) PROVE Types'
  <2>1. blocked' \subseteq Member \X Member
    BY <1>6, ConstantsAssumption DEF SetBlock, Types
  <2> QED BY <1>6, <2>1 DEF SetBlock, Types, postVars, history
<1>7. ASSUME NEW p \in open, CommitPost(p) PROVE Types'
  BY <1>7 DEF CommitPost, Types, userVars, history
<1> QED BY <1>1, <1>2, <1>3, <1>4, <1>5, <1>6, <1>7, RunTypes DEF Next

-----------------------------------------------------------------------------
(* The clock, the posts and the shape of a run.                            *)
LEMMA ClockMoves ==
  ASSUME Types, Clock, Next
  PROVE  \/ now' = now
         \/ now' = now + 1 /\ Slot(now') = Slot(now) /\ ticked' = ticked /\ run.pc = "mark"
         \/ Pass
<1>1. ASSUME NEW t \in run.at, Mark(t)
      PROVE  now' = now + 1 /\ Slot(now') = Slot(now) /\ ticked' = ticked /\ run.pc = "mark"
  BY <1>1, TargetFields, StampFields DEF Mark
<1>2. ASSUME NEW t \in run.at, MarkFail(t)
      PROVE  now' = now \/ (/\ now' = now + 1 /\ Slot(now') = Slot(now) /\ ticked' = ticked
                            /\ run.pc = "mark")
  BY <1>2, TargetFields, StampFields DEF MarkFail
<1>3. ASSUME NEW t \in run.at, Send(t) \/ SendFail(t) PROVE now' = now
  BY <1>3 DEF Send, SendFail
<1>4. ASSUME NEW t \in run.todo, Count(t) \/ CountFail(t) PROVE now' = now
  BY <1>4 DEF Count, CountFail
<1>5. ASSUME NEW r \in Request, WritePrefs(r) PROVE now' = now
  BY <1>5 DEF WritePrefs
<1> QED BY <1>1, <1>2, <1>3, <1>4, <1>5
  DEF Next, Tick, TargetsFail, Abort, ReadPrefs, PatchFail, SetUserStatus, BeginPost, SetBlock,
      CommitPost

LEMMA ClockStep == ASSUME Types, Clock, Next PROVE Clock'
<1> DEFINE S == Slot(MaxNow)
           B == S * MomentsPerSlot + 2 * MomentsPerSlot
<1>1. /\ MaxNow \in Int /\ StartTime \in Int /\ now \in Int /\ S \in Int /\ S * MomentsPerSlot \in Int
      /\ StartTime <= now /\ now < B
  BY Slots, ConstantsAssumption DEF Clock
<1>2. ticked' \in BOOLEAN
  BY DEF Clock, Next, Tick, TargetsFail, Abort, Pass, Count, CountFail, Mark, MarkFail, Send, SendFail,
         ReadPrefs, WritePrefs, PatchFail, SetUserStatus, BeginPost, SetBlock, CommitPost
<1>3. CASE now' = now
  BY <1>1, <1>2, <1>3 DEF Clock
<1>4. CASE now' = now + 1 /\ Slot(now') = Slot(now)
  <2>1. (S + 2) * MomentsPerSlot = B
    BY <1>1, Units
  <2>2. Slot(now) < S + 2
    <3>1. ASSUME S + 2 < Slot(now) PROVE FALSE
      <4>1. (S + 2) * MomentsPerSlot + MomentsPerSlot <= Slot(now) * MomentsPerSlot
        BY <1>1, <3>1, Slots, Units, NextMultiple
      <4> QED BY <1>1, <2>1, <4>1, Slots, Units
    <3>2. ASSUME Slot(now) = S + 2 PROVE FALSE
      <4>1. Slot(now) * MomentsPerSlot = B
        BY <2>1, <3>2
      <4> QED BY <1>1, <4>1, Slots
    <3> QED BY <1>1, <3>1, <3>2, Slots
  <2>3. Slot(now) * MomentsPerSlot + MomentsPerSlot <= B
    BY <1>1, <2>1, <2>2, Slots, Units, NextMultiple
  <2>4. now' \in Int /\ now' < Slot(now) * MomentsPerSlot + MomentsPerSlot
    <3>1. now' \in Int
      BY <1>1, <1>4
    <3> QED BY <3>1, <1>4, Slots
  <2> QED BY <1>1, <1>2, <1>4, <2>3, <2>4, Slots, Units DEF Clock
<1>5. CASE Pass
  <2>1. now < MaxNow /\ now' = (Slot(now) + 1) * MomentsPerSlot
    BY <1>5 DEF Pass
  <2>2. now' \in Int /\ now' = Slot(now) * MomentsPerSlot + MomentsPerSlot /\ now < now'
    BY <1>1, <2>1, SlotPasses
  <2>3. Slot(now) * MomentsPerSlot <= S * MomentsPerSlot
    <3>1. Slot(now) <= S
      BY <1>1, <2>1, SlotsInOrder
    <3>2. CASE Slot(now) = S
      BY <3>2, <1>1
    <3>3. CASE Slot(now) < S
      BY <3>3, <1>1, LaterSlot, Units, Slots
    <3> QED BY <3>1, <3>2, <3>3, <1>1, Slots
  <2> QED BY <1>1, <1>2, <2>2, <2>3, Slots, Units DEF Clock
<1> QED BY <1>3, <1>4, <1>5, ClockMoves

LEMMA TimePasses ==
  ASSUME Types, Clock, Next
  PROVE  now \in Int /\ now' \in Int /\ now <= now' /\ Slot(now) \in Int /\ Slot(now') \in Int
         /\ (Slot(now') = Slot(now) \/ (Pass /\ Slot(now') = Slot(now) + 1))
<1>1. now \in Int /\ now' \in Int
  BY ClockStep DEF Clock
<1>2. Slot(now) \in Int /\ Slot(now') \in Int
  BY <1>1, Slots
<1>3. CASE Pass
  BY <1>1, <1>2, <1>3, SlotPasses DEF Pass
<1>4. CASE now' = now
  <2>1. now <= now' /\ Slot(now') = Slot(now)
    BY <1>1, <1>4
  <2> QED BY <1>1, <1>2, <2>1
<1>5. CASE now' = now + 1 /\ Slot(now') = Slot(now)
  <2>1. now <= now'
    BY <1>1, <1>5
  <2> QED BY <1>1, <1>2, <1>5, <2>1
<1> QED BY <1>3, <1>4, <1>5, ClockMoves

LEMMA PostFields == ASSUME Types PROVE \A p \in AllPosts : p.id \in Int /\ p.at \in Int
<1>1. AllPosts \subseteq Post
  BY DEF AllPosts, Types
<1>2. \A p \in Post : p.id \in Int /\ p.at \in Int
  BY DEF Post, PostId
<1> QED BY <1>1, <1>2

\* Posts are only ever added to.
LEMMA PostsGrow ==
  ASSUME Types, Clock, Numbered, Next
  PROVE  \/ AllPosts' = AllPosts
         \/ \E p \in Post : /\ AllPosts' = AllPosts \cup {p} /\ p.id = Cardinality(AllPosts) + 1
                            /\ p.at = now /\ p \notin AllPosts /\ posts' = posts
                            /\ UNCHANGED <<now, ticked, userVars, run, patch, history>>
<1>1. ASSUME NEW u \in Poster, BeginPost(u)
      PROVE  \E p \in Post : /\ AllPosts' = AllPosts \cup {p} /\ p.id = Cardinality(AllPosts) + 1
                             /\ p.at = now /\ p \notin AllPosts /\ posts' = posts
                             /\ UNCHANGED <<now, ticked, userVars, run, patch, history>>
  <2> DEFINE p == [id |-> Cardinality(AllPosts) + 1, author |-> u, at |-> now]
  <2>1. Cardinality(AllPosts) \in Nat
    BY FS_CardinalityType DEF Numbered
  <2>2. p \in Post
    BY <1>1, <2>1, ConstantsAssumption DEF BeginPost, Post, PostId, Clock, AllPosts
  <2>3. p \notin AllPosts
    <3>1. \A q \in AllPosts : q.id \in Int /\ q.id <= Cardinality(AllPosts)
      BY PostFields DEF Numbered
    <3>2. p.id = Cardinality(AllPosts) + 1
      OBVIOUS
    <3> QED BY <2>1, <3>1, <3>2
  <2>4. AllPosts' = AllPosts \cup {p}
    BY <1>1 DEF BeginPost, AllPosts
  <2>5. p.id = Cardinality(AllPosts) + 1 /\ p.at = now
    OBVIOUS
  <2> HIDE DEF p
  <2> QED BY <1>1, <2>2, <2>3, <2>4, <2>5 DEF BeginPost
<1>2. ASSUME NEW p \in open, CommitPost(p) PROVE AllPosts' = AllPosts
  BY <1>2 DEF CommitPost, AllPosts
<1>3. ASSUME NEW t \in run.todo, Count(t) \/ CountFail(t) PROVE AllPosts' = AllPosts
  BY <1>3 DEF Count, CountFail, postVars, AllPosts
<1>4. ASSUME NEW t \in run.at, Mark(t) \/ MarkFail(t) \/ Send(t) \/ SendFail(t) PROVE AllPosts' = AllPosts
  BY <1>4 DEF Mark, MarkFail, Send, SendFail, postVars, AllPosts
<1>5. ASSUME NEW r \in Request, WritePrefs(r) \/ PatchFail(r) PROVE AllPosts' = AllPosts
  BY <1>5 DEF WritePrefs, PatchFail, postVars, AllPosts
<1>6. ASSUME NEW u \in Member, SetUserStatus(u) PROVE AllPosts' = AllPosts
  BY <1>6 DEF SetUserStatus, postVars, AllPosts
<1>7. ASSUME Tick \/ TargetsFail \/ Abort \/ Pass PROVE AllPosts' = AllPosts
  BY <1>7 DEF Tick, TargetsFail, Abort, Pass, postVars, AllPosts
<1>8. ASSUME NEW r \in Request, NEW u \in Member, NEW named \in Patches, ReadPrefs(r, u, named)
      PROVE  AllPosts' = AllPosts
  BY <1>8 DEF ReadPrefs, postVars, AllPosts
<1>9. ASSUME NEW u \in Member, NEW v \in Poster, SetBlock(u, v) PROVE AllPosts' = AllPosts
  BY <1>9 DEF SetBlock, postVars, AllPosts
<1> QED BY <1>1, <1>2, <1>3, <1>4, <1>5, <1>6, <1>7, <1>8, <1>9 DEF Next

LEMMA NumberedStep == ASSUME Types, Clock, Numbered, Next PROVE Numbered'
<1>1. now \in Int /\ now' \in Int /\ now <= now'
  BY TimePasses
<1>2. \A p \in AllPosts : p.id \in Int /\ p.at \in Int
  BY PostFields
<1>3. CASE AllPosts' = AllPosts
  BY <1>1, <1>2, <1>3 DEF Numbered
<1>4. ASSUME NEW p \in Post, AllPosts' = AllPosts \cup {p}, p.id = Cardinality(AllPosts) + 1,
             p.at = now, p \notin AllPosts
      PROVE  Numbered'
  <2>1. /\ IsFiniteSet(AllPosts') /\ Cardinality(AllPosts') = Cardinality(AllPosts) + 1
        /\ Cardinality(AllPosts) \in Nat
    BY <1>4, FS_AddElement, FS_CardinalityType DEF Numbered
  <2>2. \A q \in AllPosts : q.id <= Cardinality(AllPosts) /\ q.at <= now
    BY DEF Numbered
  <2>3. \A q \in AllPosts' : q.id <= Cardinality(AllPosts') /\ q.at <= now'
    BY <1>1, <1>2, <1>4, <2>1, <2>2
  <2>4. \A q, r \in AllPosts' : q.id = r.id => q = r
    <3>1. \A q \in AllPosts : q.id # p.id
      BY <1>2, <1>4, <2>1, <2>2
    <3> QED BY <1>4, <3>1 DEF Numbered
  <2> QED BY <2>1, <2>3, <2>4 DEF Numbered
<1> QED BY <1>3, <1>4, PostsGrow

LEMMA RunOKStep == ASSUME Types, Clock, RunOK, Next PROVE RunOK'
<1>1. /\ now \in Int /\ now' \in Int /\ now <= now' /\ Slot(now) \in Int /\ Slot(now') \in Int
      /\ (Slot(now') = Slot(now) \/ (Pass /\ Slot(now') = Slot(now) + 1))
  BY TimePasses
<1>3. CASE Pass
  <2>1. run' = run /\ (run.pc = "idle" \/ Slot(run.began) = Slot(now))
    BY <1>3 DEF Pass
  <2> QED BY <1>1, <1>3, <2>1 DEF RunOK, Types, RunState, Clock
<1> SUFFICES ASSUME ~Pass PROVE RunOK'
  BY <1>3
<1>2. CASE UNCHANGED run
  BY <1>1, <1>2 DEF RunOK, Types, RunState, Clock
<1>4. CASE Tick
  <2>1. CASE DigestTargets = {}
    BY <1>4, <2>1 DEF Tick, IdleRun, RunOK
  <2>2. CASE DigestTargets # {}
    <3>1. run' = [pc |-> "pick", todo |-> DigestTargets, at |-> {}, missed |-> {}, seen |-> {},
                  began |-> now, moved |-> {}]
      BY <1>4, <2>2 DEF Tick, IdleRun
    <3>2. \A s, t \in DigestTargets : s.user = t.user => s = t
      BY DEF DigestTargets
    <3>3. now' = now
      BY <1>4 DEF Tick
    <3> QED BY <1>1, <3>1, <3>2, <3>3 DEF RunOK, Clock
  <2> QED BY <2>1, <2>2
<1>5. ASSUME NEW t \in run.todo, Count(t) PROVE RunOK'
  <2>1. now' = now
    BY <1>5 DEF Count
  <2> QED BY <1>1, <1>5, <2>1, CountFields DEF RunOK
<1>6. ASSUME NEW t, NextMember(t), run.pc # "idle" PROVE RunOK'
  BY <1>1, <1>6, NextMemberRun DEF RunOK, Types, RunState, Clock
<1>7. ASSUME NEW t \in run.at, Mark(t) PROVE RunOK'
  <2>1. CASE NextMember(t)
    BY <1>6, <1>7, <2>1 DEF Mark
  <2>2. CASE run' = [run EXCEPT !.pc = "send"]
    <3>1. run.pc = "mark"
      BY <1>7 DEF Mark
    <3>2. /\ run'.pc = "send" /\ run'.todo = run.todo /\ run'.at = run.at /\ run'.began = run.began
          /\ run'.missed = run.missed /\ run'.seen = run.seen /\ run.began \in Int
      BY <2>2 DEF Types, RunState
    <3> QED BY <1>1, <3>1, <3>2 DEF RunOK, Clock
  <2> QED BY <1>7, <2>1, <2>2 DEF Mark
<1>8. ASSUME NEW t \in run.todo, CountFail(t) PROVE RunOK'
  BY <1>6, <1>8 DEF CountFail
<1>9. ASSUME NEW t \in run.at, MarkFail(t) \/ Send(t) \/ SendFail(t) PROVE RunOK'
  BY <1>6, <1>9 DEF MarkFail, Send, SendFail
<1>10. CASE Abort
  BY <1>10 DEF Abort, IdleRun, RunOK
<1>11. ASSUME NEW r \in Request, WritePrefs(r) PROVE RunOK'
  <2>1. now' = now
    BY <1>11 DEF WritePrefs
  <2>2. CASE run' = run
    BY <1>1, <2>1, <2>2 DEF RunOK
  <2>3. ASSUME NEW u, run.pc # "idle", run' = [run EXCEPT !.moved = @ \cup {u}] PROVE RunOK'
    BY <1>1, <2>1, <2>3 DEF RunOK, Types, RunState
  <2> QED BY <1>11, <2>2, <2>3, WritePrefsFields
<1>12. CASE TargetsFail \/ (\E r \in Request : PatchFail(r)) \/ (\E u \in Member : SetUserStatus(u))
            \/ (\E u \in Poster : BeginPost(u)) \/ (\E p \in open : CommitPost(p))
  BY <1>2, <1>12 DEF TargetsFail, PatchFail, SetUserStatus, BeginPost, CommitPost
<1>13. CASE \/ \E r \in Request, u \in Member, named \in Patches : ReadPrefs(r, u, named)
            \/ \E u \in Member, v \in Poster : SetBlock(u, v)
  BY <1>2, <1>13 DEF ReadPrefs, SetBlock
<1> QED BY <1>3, <1>4, <1>5, <1>7, <1>8, <1>9, <1>10, <1>11, <1>12, <1>13 DEF Next

-----------------------------------------------------------------------------
(* Most steps leave the windows and the run alone; a change of settings    *)
(* starts a member's window over.                                          *)
Aside == UNCHANGED <<prefs, sentAt, run, fate, horizon, lastSent>>
Restarts(u) ==
  /\ prefs' \in [Member -> Pref] /\ sentAt' \in [Member -> Int] /\ sentAt'[u] = Never
  /\ \A v \in Member \ {u} : prefs'[v] = prefs[v] /\ sentAt'[v] = sentAt[v]
  /\ run' = IF run.pc = "idle" THEN run ELSE [run EXCEPT !.moved = @ \cup {u}]
  /\ fate' = [fate EXCEPT ![u] = Untold]
  /\ horizon' = [horizon EXCEPT ![u] = Never]
  /\ lastSent' = [lastSent EXCEPT ![u] = Never]
  /\ Upset({u})
  /\ UNCHANGED <<now, ticked, active, posts, open>>

LEMMA Steps ==
  ASSUME Types, Next
  PROVE  \/ Aside \/ Tick \/ Abort
         \/ \E t \in run.todo : Count(t) \/ CountFail(t)
         \/ \E t \in run.at : Mark(t) \/ MarkFail(t) \/ Send(t) \/ SendFail(t)
         \/ \E u \in Member : Restarts(u)
<1>1. ASSUME NEW r \in Request, WritePrefs(r) PROVE Aside \/ \E u \in Member : Restarts(u)
  <2> DEFINE u == patch[r].user
  <2>1. u \in Member
    BY <1>1, WritePrefsFields
  <2>2. Aside \/ Restarts(u)
    BY <1>1, WritePrefsFields DEF Aside, Restarts
  <2> QED BY <2>1, <2>2
<1>2. ASSUME TargetsFail \/ Pass PROVE Aside
  BY <1>2 DEF TargetsFail, Pass, Aside, userVars
<1>3. ASSUME NEW r \in Request, NEW u \in Member, NEW named \in Patches, ReadPrefs(r, u, named) PROVE Aside
  BY <1>3 DEF ReadPrefs, Aside, userVars, history
<1>4. ASSUME NEW r \in Request, PatchFail(r) PROVE Aside
  BY <1>4 DEF PatchFail, Aside, userVars, history
<1>5. ASSUME NEW u \in Member, SetUserStatus(u) PROVE Aside
  BY <1>5 DEF SetUserStatus, Aside
<1>6. ASSUME NEW u \in Poster, BeginPost(u) PROVE Aside
  BY <1>6 DEF BeginPost, Aside, userVars, history
<1>7. ASSUME NEW u \in Member, NEW v \in Poster, SetBlock(u, v) PROVE Aside
  BY <1>7 DEF SetBlock, Aside, history
<1>8. ASSUME NEW p \in open, CommitPost(p) PROVE Aside
  BY <1>8 DEF CommitPost, Aside, userVars, history
<1> QED BY <1>1, <1>2, <1>3, <1>4, <1>5, <1>6, <1>7, <1>8 DEF Next

LEMMA RestartFields ==
  ASSUME Types, NEW u \in Member, Restarts(u)
  PROVE  /\ run'.pc = run.pc /\ run'.todo = run.todo /\ run'.at = run.at /\ run'.began = run.began
         /\ run'.missed = run.missed /\ run'.seen = run.seen
         /\ run.pc # "idle" => run'.moved = run.moved \cup {u}
         /\ run.pc = "idle" => run'.moved = run.moved
         /\ horizon'[u] = Never /\ lastSent'[u] = Never /\ \A p \in PostId : fate'[u][p] = "new"
         /\ \A v \in Member \ {u} : /\ horizon'[v] = horizon[v] /\ lastSent'[v] = lastSent[v]
                                    /\ fate'[v] = fate[v]
<1>1. /\ run'.pc = run.pc /\ run'.todo = run.todo /\ run'.at = run.at /\ run'.began = run.began
      /\ run'.missed = run.missed /\ run'.seen = run.seen
      /\ run.pc # "idle" => run'.moved = run.moved \cup {u}
      /\ run.pc = "idle" => run'.moved = run.moved
  BY DEF Types, RunState, Restarts
<1>2. /\ horizon'[u] = Never /\ lastSent'[u] = Never
      /\ \A v \in Member \ {u} : horizon'[v] = horizon[v] /\ lastSent'[v] = lastSent[v] /\ fate'[v] = fate[v]
  BY DEF Types, Restarts
<1>3. fate'[u] = Untold
  BY DEF Types, Restarts
<1> QED BY <1>1, <1>2, <1>3 DEF Untold

-----------------------------------------------------------------------------
(* What the run has before it.                                             *)
LEMMA StillWaiting ==
  ASSUME Waiting, UNCHANGED prefs, Unmarked' \subseteq Unmarked,
         Unmarked' # {} => run'.began = run.began /\ run'.moved = run.moved,
         \A t \in Unmarked' : sentAt'[t.user] = sentAt[t.user]
  PROVE  Waiting'
BY DEF Waiting, LocalHourAt

LEMMA OthersUnmarked ==
  ASSUME RunOK, NEW t \in run.at, NEW s \in run.todo PROVE s.user # t.user
BY DEF RunOK

LEMMA NextMemberUnmarked ==
  ASSUME Types, NEW t, NextMember(t)
  PROVE  /\ Unmarked' = run.todo \ {t}
         /\ Unmarked' # {} => run'.began = run.began /\ run'.moved = run.moved
BY NextMemberRun DEF Unmarked

LEMMA WaitingStep == ASSUME Types, Clock, RunOK, Waiting, Next PROVE Waiting'
<1>1. CASE Aside
  BY <1>1, StillWaiting DEF Aside, Unmarked
<1>2. CASE Tick
  <2>1. now' = now /\ UNCHANGED <<prefs, sentAt>>
    BY <1>2 DEF Tick, userVars
  <2>2. CASE DigestTargets = {}
    BY <1>2, <2>2 DEF Tick, Waiting, Unmarked, IdleRun
  <2>3. CASE DigestTargets # {}
    <3>1. run'.pc = "pick" /\ run'.todo = DigestTargets /\ run'.moved = {} /\ run'.began = now
      BY <1>2, <2>3 DEF Tick, IdleRun
    <3>2. Unmarked' = DigestTargets
      BY <3>1 DEF Unmarked
    <3>3. ASSUME NEW t \in DigestTargets
          PROVE  /\ LocalHourAt(t.user, now) = prefs[t.user].hour
                 /\ sentAt[t.user] # Never =>
                      t.since = sentAt[t.user] /\ sentAt[t.user] < now - Quiet
      <4>1. Due(t.user) /\ t.since = Since(t.user) /\ t.user \in Member
        BY DigestTargetFields
      <4>2. sentAt[t.user] \in Int /\ now - Quiet \in Int
        BY <4>1, Units DEF Types, Clock
      <4> QED BY <4>1, <4>2 DEF Due, Since, Recent, LocalHour, LocalHourAt
    <3> QED BY <2>1, <3>1, <3>2, <3>3 DEF Waiting, LocalHourAt
  <2> QED BY <2>2, <2>3
<1>3. CASE Abort
  BY <1>3 DEF Abort, IdleRun, Waiting, Unmarked
<1>4. ASSUME NEW t \in run.todo, Count(t) PROVE Waiting'
  <2>1. Unmarked' = Unmarked
    BY <1>4, CountFields DEF Unmarked
  <2> QED BY <1>4, <2>1, CountFields, StillWaiting DEF Count, userVars
<1>5. ASSUME NEW t \in run.todo, CountFail(t) PROVE Waiting'
  <2>1. NextMember(t) /\ UNCHANGED <<prefs, sentAt>>
    BY <1>5 DEF CountFail, WindowIntact
  <2> QED BY <2>1, NextMemberUnmarked, StillWaiting DEF Unmarked
<1>6. ASSUME NEW t \in run.at, Mark(t) PROVE Waiting'
  <2>1. Unmarked' \subseteq run.todo /\ (Unmarked' # {} => run'.began = run.began /\ run'.moved = run.moved)
    <3>1. CASE NextMember(t)
      BY <3>1, NextMemberUnmarked
    <3>2. CASE run' = [run EXCEPT !.pc = "send"]
      BY <3>2 DEF Unmarked, Types, RunState
    <3> QED BY <1>6, <3>1, <3>2 DEF Mark
  <2>2. \A s \in run.todo : sentAt'[s.user] = sentAt[s.user]
    BY <1>6, OthersUnmarked, TargetFields, StampFields DEF Mark
  <2>3. prefs' = prefs
    BY <1>6 DEF Mark
  <2> QED BY <2>1, <2>2, <2>3, StillWaiting DEF Unmarked
<1>7. ASSUME NEW t \in run.at, MarkFail(t) PROVE Waiting'
  <2>1. NextMember(t) /\ prefs' = prefs
    BY <1>7 DEF MarkFail
  <2>2. \A s \in run.todo : sentAt'[s.user] = sentAt[s.user]
    BY <1>7, OthersUnmarked, TargetFields, StampFields DEF MarkFail
  <2> QED BY <2>1, <2>2, NextMemberUnmarked, StillWaiting DEF Unmarked
<1>8. ASSUME NEW t \in run.at, Send(t) \/ SendFail(t) PROVE Waiting'
  <2>1. NextMember(t) /\ UNCHANGED <<prefs, sentAt>>
    BY <1>8 DEF Send, SendFail, userVars
  <2> QED BY <2>1, NextMemberUnmarked, StillWaiting DEF Unmarked
<1>9. ASSUME NEW u \in Member, Restarts(u) PROVE Waiting'
  <2>1. CASE run.pc = "idle"
    BY <1>9, <2>1, RestartFields DEF RunOK, Waiting, Unmarked
  <2>2. CASE run.pc # "idle"
    <3>1. Unmarked' = Unmarked
      BY <1>9, RestartFields DEF Unmarked
    <3>2. run'.moved = run.moved \cup {u} /\ run'.began = run.began
      BY <1>9, <2>2, RestartFields
    <3>3. ASSUME NEW t \in Unmarked, t.user # u
          PROVE  prefs'[t.user] = prefs[t.user] /\ sentAt'[t.user] = sentAt[t.user]
      BY <1>9, <3>3, TargetFields DEF Restarts, Unmarked
    <3> QED BY <1>9, <3>1, <3>2, <3>3 DEF Waiting, LocalHourAt, Restarts
  <2> QED BY <2>1, <2>2
<1> QED BY <1>1, <1>2, <1>3, <1>4, <1>5, <1>6, <1>7, <1>8, <1>9, Steps

-----------------------------------------------------------------------------
(* What a member was told of.                                              *)
LEMMA KeepsPosts ==
  ASSUME Types, Clock, Numbered, Next, NEW q \in AllPosts PROVE q \in AllPosts'
BY PostsGrow

LEMMA ToldKept ==
  ASSUME Types, Clock, Numbered, Next, NEW u \in Member, ToldOf(u),
         sentAt'[u] = sentAt[u], horizon'[u] = horizon[u], lastSent'[u] = lastSent[u],
         \A p \in PostId : fate[u][p] = "new" => fate'[u][p] = "new"
  PROVE  ToldOf(u)'
<1>1. CASE sentAt[u] = Never
  BY <1>1 DEF ToldOf
<1>2. CASE sentAt[u] # Never
  <2>1. now \in Int /\ now' \in Int /\ now <= now' /\ sentAt[u] \in Int /\ lastSent[u] \in Int
    BY TimePasses DEF Types
  <2>2. StartTime <= sentAt'[u] /\ sentAt'[u] < now'
    BY <1>2, <2>1, ConstantsAssumption DEF ToldOf
  <2>3. lastSent'[u] = Never
          \/ /\ StartTime <= lastSent'[u] /\ lastSent'[u] <= now'
             /\ lastSent'[u] <= Slot(sentAt'[u]) * MomentsPerSlot + MomentsPerSlot
    BY <1>2, <2>1, ConstantsAssumption DEF ToldOf
  <2>4. ASSUME NEW p \in PostId, fate'[u][p] # "new"
        PROVE  \E q \in AllPosts' : q.id = p /\ q.at <= sentAt'[u]
    <3>1. PICK q \in AllPosts : q.id = p /\ q.at <= sentAt[u]
      BY <1>2, <2>4 DEF ToldOf
    <3> QED BY <3>1, KeepsPosts
  <2> QED BY <1>2, <2>2, <2>3, <2>4 DEF ToldOf
<1> QED BY <1>1, <1>2

\* What a mark takes off the news is a post there is.
LEMMA MarkedHasPost ==
  ASSUME Types, Clock, Numbered, RunOK, Told, Counted, NEW t \in run.at, run.pc = "mark",
         NEW p \in PostId, FateAtMark(t.user)[p] # "new"
  PROVE  \E q \in AllPosts : q.id = p /\ q.at <= now
<1>1. \A q \in AllPosts : q.at <= now /\ q.at \in Int
  BY PostFields DEF Numbered
<1>2. CASE p \in run.missed
  <2>1. p \in run.seen
    BY <1>2 DEF RunOK
  <2> QED BY <1>1, <2>1 DEF Counted
<1>3. CASE fate[t.user][p] # "new"
  <2>1. sentAt[t.user] # Never /\ t.user \in Member
    BY <1>3, TargetFields DEF Told, ToldOf
  <2> QED BY <1>1, <1>3, <2>1 DEF Told, ToldOf
<1>4. CASE p \notin run.missed /\ fate[t.user][p] = "new"
  <2>1. \E q \in AllPosts : q.id = p
    BY <1>4 DEF FateAtMark, AllPosts
  <2> QED BY <1>1, <2>1
<1> QED BY <1>2, <1>3, <1>4

LEMMA MarkTold ==
  ASSUME Types, Clock, Numbered, RunOK, Told, Counted, NEW t \in run.at, run.pc = "mark",
         Stamp(t.user), UNCHANGED <<posts, open, lastSent>>,
         \A p \in PostId : fate'[t.user][p] # "new" => FateAtMark(t.user)[p] # "new"
  PROVE  ToldOf(t.user)'
<1> DEFINE u == t.user
<1>1. u \in Member /\ now \in Int /\ now' = now + 1 /\ sentAt'[u] = now
  BY TargetFields, StampFields DEF Clock
<1>2. StartTime <= now /\ now # Never /\ now < now' /\ lastSent[u] \in Int
  BY <1>1, ConstantsAssumption DEF Clock, Never, Types
<1>3. AllPosts' = AllPosts
  BY DEF AllPosts
<1>4. \A p \in PostId : fate'[u][p] # "new" => \E q \in AllPosts' : q.id = p /\ q.at <= sentAt'[u]
  BY <1>1, <1>3, MarkedHasPost
<1>5. lastSent[u] = Never \/ (StartTime <= lastSent[u] /\ lastSent[u] <= now)
  BY <1>1 DEF Told, ToldOf
<1> HIDE DEF u
<1>6. now <= Slot(now) * MomentsPerSlot + MomentsPerSlot /\ Slot(now) * MomentsPerSlot + MomentsPerSlot \in Int
  BY <1>1, Slots, Units
<1>7. lastSent'[u] = lastSent[u]
  OBVIOUS
<1>8. lastSent[u] = Never \/ (/\ StartTime <= lastSent[u] /\ lastSent[u] <= now'
                              /\ lastSent[u] <= Slot(sentAt'[u]) * MomentsPerSlot + MomentsPerSlot)
  BY <1>1, <1>2, <1>5, <1>6
<1>9. ToldOf(u)'
  BY <1>1, <1>2, <1>4, <1>7, <1>8 DEF ToldOf
<1> QED BY <1>9 DEF u

\* An outcome touches posts the mark has counted.
LEMMA BecomesKeepsNews ==
  ASSUME Types, RunOK, Sending, run.pc = "send", NEW t \in run.at, NEW f \in Fate, Becomes(t.user, f)
  PROVE  \A u \in Member : \A p \in PostId : fate[u][p] = "new" => fate'[u][p] = "new"
BY TargetFields, BecomesFields DEF Sending

LEMMA ToldStep ==
  ASSUME Types, Clock, Numbered, RunOK, Told, Counted, Sending, Next PROVE Told'
<1> SUFFICES ASSUME NEW u \in Member PROVE ToldOf(u)'
  BY DEF Told
<1>u. ToldOf(u)
  BY DEF Told
<1>0. CASE UNCHANGED <<sentAt, fate, horizon, lastSent>>
  BY <1>0, <1>u, ToldKept
<1>1. CASE Aside \/ Tick \/ (\E t \in run.todo : Count(t) \/ CountFail(t))
  BY <1>0, <1>1 DEF Aside, Tick, Count, CountFail, WindowIntact, userVars, history
<1>2. CASE Abort
  <2>1. \A p \in PostId : fate[u][p] = "new" => fate'[u][p] = "new"
    <3>1. CASE run.pc = "send"
      <4>1. PICK t \in run.at : Becomes(t.user, "failed")
        BY <1>2, <3>1 DEF Abort
      <4>2. "failed" \in Fate
        BY DEF Fate
      <4> QED BY <3>1, <4>1, <4>2, BecomesKeepsNews
    <3>2. CASE run.pc # "send"
      BY <1>2, <3>2 DEF Abort
    <3> QED BY <3>1, <3>2
  <2> QED BY <1>2, <1>u, <2>1, ToldKept DEF Abort, userVars
<1>3. ASSUME NEW t \in run.at, Mark(t) PROVE ToldOf(u)'
  <2>1. t.user \in Member /\ Stamp(t.user) /\ run.pc = "mark"
    BY <1>3, TargetFields DEF Mark
  <2>2. CASE u = t.user
    <3>1. \A p \in PostId : fate'[u][p] = FateAtMark(u)[p]
      BY <1>3, <2>1, <2>2 DEF Mark, Types
    <3> QED BY <1>3, <2>1, <2>2, <3>1, MarkTold DEF Mark, postVars
  <2>3. CASE u # t.user
    <3>1. sentAt'[u] = sentAt[u] /\ fate'[u] = fate[u] /\ horizon'[u] = horizon[u] /\ lastSent' = lastSent
      BY <1>3, <2>1, <2>3, StampFields DEF Mark, Types
    <3> QED BY <1>u, <3>1, ToldKept
  <2> QED BY <2>2, <2>3
<1>4. ASSUME NEW t \in run.at, MarkFail(t) PROVE ToldOf(u)'
  <2>1. CASE UNCHANGED <<now, sentAt, fate, horizon>>
    BY <1>0, <1>4, <2>1 DEF MarkFail
  <2>2. CASE ~UNCHANGED <<now, sentAt, fate, horizon>>
    <3>1. /\ Stamp(t.user) /\ run.pc = "mark"
          /\ fate' = [fate EXCEPT ![t.user] =
               [p \in PostId |-> IF FateAtMark(t.user)[p] = "counted" THEN "failed"
                                 ELSE FateAtMark(t.user)[p]]]
          /\ horizon' = [horizon EXCEPT ![t.user] = IF @ = Never THEN t.since ELSE @]
          /\ UNCHANGED <<posts, open, lastSent>>
      BY <1>4, <2>2 DEF MarkFail, postVars
    <3>2. t.user \in Member
      BY TargetFields
    <3>3. CASE u = t.user
      <4>1. \A p \in PostId : fate'[u][p] = (IF FateAtMark(u)[p] = "counted" THEN "failed"
                                             ELSE FateAtMark(u)[p])
        BY <3>1, <3>2, <3>3 DEF Types
      <4>2. \A p \in PostId : fate'[u][p] # "new" => FateAtMark(u)[p] # "new"
        BY <4>1
      <4> QED BY <3>1, <3>3, <4>2, MarkTold
    <3>4. CASE u # t.user
      <4>1. sentAt'[u] = sentAt[u] /\ fate'[u] = fate[u] /\ horizon'[u] = horizon[u] /\ lastSent' = lastSent
        BY <3>1, <3>2, <3>4, StampFields DEF Types
      <4> QED BY <1>u, <4>1, ToldKept
    <3> QED BY <3>3, <3>4
  <2> QED BY <2>1, <2>2
<1>5. ASSUME NEW t \in run.at, Send(t) PROVE ToldOf(u)'
  <2>1. run.pc = "send" /\ Becomes(t.user, "delivered") /\ "delivered" \in Fate /\ t.user \in Member
        /\ UNCHANGED <<now, sentAt, horizon>>
    BY <1>5, TargetFields DEF Send, Fate, userVars
  <2>2. \A p \in PostId : fate[u][p] = "new" => fate'[u][p] = "new"
    BY <2>1, BecomesKeepsNews
  <2>3. CASE u # t.user \/ t.user \in run.moved
    <3>1. lastSent'[u] = lastSent[u]
      BY <1>5, <2>1, <2>3 DEF Send, Types
    <3> QED BY <1>u, <2>1, <2>2, <3>1, ToldKept
  <2>4. CASE u = t.user /\ t.user \notin run.moved
    <3>1. lastSent'[u] = now /\ sentAt[u] # Never /\ sentAt'[u] = sentAt[u] /\ now' = now
      BY <1>5, <2>1, <2>4 DEF Send, Types, Sending
    <3>2. now <= Slot(sentAt[u]) * MomentsPerSlot + MomentsPerSlot
      BY <2>1, <2>4 DEF Sending
    <3>3. \A p \in PostId : fate'[u][p] # "new" => \E q \in AllPosts' : q.id = p /\ q.at <= sentAt'[u]
      BY <1>u, <2>2, <3>1, KeepsPosts DEF ToldOf
    <3>4. StartTime <= now /\ now <= now /\ StartTime <= sentAt[u] /\ sentAt[u] < now
      BY <1>u, <3>1 DEF Clock, ToldOf
    <3> QED BY <3>1, <3>2, <3>3, <3>4 DEF ToldOf
  <2> QED BY <2>3, <2>4
<1>6. ASSUME NEW t \in run.at, SendFail(t) PROVE ToldOf(u)'
  <2>1. run.pc = "send" /\ Becomes(t.user, "failed") /\ "failed" \in Fate
        /\ UNCHANGED <<now, sentAt, horizon, lastSent>>
    BY <1>6 DEF SendFail, Fate, userVars
  <2>2. \A p \in PostId : fate[u][p] = "new" => fate'[u][p] = "new"
    BY <2>1, BecomesKeepsNews
  <2> QED BY <1>u, <2>1, <2>2, ToldKept
<1>7. ASSUME NEW v \in Member, Restarts(v) PROVE ToldOf(u)'
  <2>1. CASE u = v
    <3>1. sentAt'[u] = Never /\ horizon'[u] = Never /\ lastSent'[u] = Never
          /\ \A p \in PostId : fate'[u][p] = "new"
      BY <1>7, <2>1, RestartFields DEF Restarts
    <3> QED BY <3>1 DEF ToldOf
  <2>2. CASE u # v
    <3>1. sentAt'[u] = sentAt[u] /\ fate'[u] = fate[u] /\ horizon'[u] = horizon[u] /\ lastSent'[u] = lastSent[u]
      BY <1>7, <2>2, RestartFields DEF Restarts
    <3> QED BY <1>u, <3>1, ToldKept
  <2> QED BY <2>1, <2>2
<1> QED BY <1>1, <1>2, <1>3, <1>4, <1>5, <1>6, <1>7, Steps

-----------------------------------------------------------------------------
(* What a count saw, and the summary about to be sent.                     *)
LEMMA NextMemberPc ==
  ASSUME Types, NEW t, NextMember(t) PROVE run'.pc # "mark" /\ run'.pc # "send"
BY NextMemberRun

LEMMA CountedStep == ASSUME Types, Clock, Numbered, RunOK, Counted, Next PROVE Counted'
<1>1. CASE Aside
  <2>1. CASE AllPosts' = AllPosts
    BY <1>1, <2>1 DEF Aside, Counted
  <2>2. ASSUME NEW p \in Post, AllPosts' = AllPosts \cup {p}, p.id = Cardinality(AllPosts) + 1
        PROVE  Counted'
    <3> SUFFICES ASSUME run.pc = "mark", NEW t \in run.at
                 PROVE  /\ \A i \in run.seen : \E q \in AllPosts' : q.id = i
                        /\ \A q \in AllPosts' : q.id \in run.missed => q.at > t.since
                        /\ \A q \in AllPosts' : q.id \in run.seen \ run.missed => q.at <= t.since
      BY <1>1 DEF Aside, Counted
    <3>1. /\ \A i \in run.seen : \E q \in AllPosts : q.id = i
          /\ \A q \in AllPosts : q.id \in run.missed => q.at > t.since
          /\ \A q \in AllPosts : q.id \in run.seen \ run.missed => q.at <= t.since
          /\ run.missed \subseteq run.seen
      BY DEF Counted, RunOK
    <3>2. p.id \notin run.seen
      <4>1. Cardinality(AllPosts) \in Nat
        BY FS_CardinalityType DEF Numbered
      <4>2. \A q \in AllPosts : q.id \in Int /\ q.id <= Cardinality(AllPosts)
        BY PostFields DEF Numbered
      <4>3. \A q \in AllPosts : q.id # p.id
        BY <2>2, <4>1, <4>2
      <4> QED BY <3>1, <4>3
    <3> QED BY <2>2, <3>1, <3>2
  <2> QED BY <2>1, <2>2, PostsGrow
<1>2. ASSUME NEW t \in run.todo, Count(t) PROVE Counted'
  <2>1. /\ run'.at = {t} /\ run'.missed = CountPostsSince(t)
        /\ run'.seen = {p.id : p \in Visible(t.user)}
    BY <1>2, CountFields
  <2>2. AllPosts' = AllPosts
    BY <1>2 DEF Count, postVars, AllPosts
  <2>3. Visible(t.user) \subseteq AllPosts
    BY DEF Visible, AllPosts
  <2>4. ASSUME NEW q \in AllPosts, q.id \in CountPostsSince(t) PROVE q.at > t.since
    <3>1. PICK p \in Visible(t.user) : p.id = q.id /\ p.at > t.since
      BY <2>4 DEF CountPostsSince
    <3>2. p = q
      BY <2>3, <3>1 DEF Numbered
    <3> QED BY <3>1, <3>2
  <2>5. ASSUME NEW q \in AllPosts, q.id \in {p.id : p \in Visible(t.user)} \ CountPostsSince(t)
        PROVE  q.at <= t.since
    <3>1. PICK p \in Visible(t.user) : p.id = q.id
      BY <2>5
    <3>2. p = q
      BY <2>3, <3>1 DEF Numbered
    <3>3. ~(q.at > t.since)
      BY <2>5, <3>1, <3>2 DEF CountPostsSince
    <3>4. q.at \in Int /\ t.since \in Int
      BY PostFields, TargetFields
    <3> QED BY <3>3, <3>4
  <2>6. \A i \in {p.id : p \in Visible(t.user)} : \E q \in AllPosts : q.id = i
    BY <2>3
  <2> QED BY <2>1, <2>2, <2>4, <2>5, <2>6 DEF Counted
<1>3. ASSUME NEW t, NextMember(t) PROVE Counted'
  BY <1>3, NextMemberPc DEF Counted
<1>4. ASSUME NEW t \in run.at, Mark(t) PROVE Counted'
  <2>1. CASE run' = [run EXCEPT !.pc = "send"]
    <3>1. run'.pc = "send"
      BY <2>1 DEF Types, RunState
    <3> QED BY <3>1 DEF Counted
  <2> QED BY <1>3, <1>4, <2>1 DEF Mark
<1>5. CASE Tick
  <2>1. run'.pc # "mark"
    BY <1>5 DEF Tick, IdleRun
  <2> QED BY <2>1 DEF Counted
<1>6. CASE Abort
  BY <1>6 DEF Abort, IdleRun, Counted
<1>7. ASSUME NEW u \in Member, Restarts(u) PROVE Counted'
  BY <1>7, RestartFields DEF Counted, Restarts, AllPosts
<1>8. ASSUME NEW t \in run.todo, CountFail(t) PROVE Counted'
  BY <1>3, <1>8 DEF CountFail
<1>9. ASSUME NEW t \in run.at, MarkFail(t) \/ Send(t) \/ SendFail(t) PROVE Counted'
  BY <1>3, <1>9 DEF MarkFail, Send, SendFail
<1> QED BY <1>1, <1>2, <1>4, <1>5, <1>6, <1>7, <1>8, <1>9, Steps

\* A member who is marked was last sent a summary more than Quiet before
\* the run began, give or take the slot that the last send ran over.
LEMMA QuietBefore ==
  ASSUME Types, Clock, RunOK, Waiting, Told, NEW t \in run.at, run.pc = "mark",
         t.user \notin run.moved, lastSent[t.user] # Never
  PROVE  run.began > lastSent[t.user] + Quiet - MomentsPerSlot
<1> DEFINE u == t.user
<1>1. u \in Member /\ sentAt[u] \in Int /\ lastSent[u] \in Int /\ run.began \in Int
  BY TargetFields DEF Types, RunState
<1>2. sentAt[u] # Never /\ lastSent[u] <= Slot(sentAt[u]) * MomentsPerSlot + MomentsPerSlot
  BY <1>1 DEF Told, ToldOf
<1>3. sentAt[u] < run.began - Quiet
  BY <1>2 DEF Waiting, Unmarked
<1> HIDE DEF u
<1>4. Slot(sentAt[u]) * MomentsPerSlot <= sentAt[u] /\ Slot(sentAt[u]) * MomentsPerSlot \in Int
  BY <1>1, Slots
<1>5. run.began > lastSent[u] + Quiet - MomentsPerSlot
  BY <1>1, <1>2, <1>3, <1>4, Units
<1> QED BY <1>5 DEF u

LEMMA SendingStep ==
  ASSUME Types, Clock, Numbered, RunOK, Waiting, Told, Sending, Next PROVE Sending'
<1>1. CASE Aside /\ run.pc = "send"
  <2> SUFFICES ASSUME NEW t \in run.at, t.user \notin run.moved
               PROVE  /\ now' <= Slot(sentAt[t.user]) * MomentsPerSlot + MomentsPerSlot
                      /\ Slot(run.began) = Slot(now') => Slot(sentAt[t.user]) = Slot(now')
    BY <1>1 DEF Aside, Sending
  <2>1. /\ now <= Slot(sentAt[t.user]) * MomentsPerSlot + MomentsPerSlot
        /\ Slot(run.began) = Slot(now) => Slot(sentAt[t.user]) = Slot(now)
    BY <1>1 DEF Sending
  <2>2. CASE now' = now
    BY <2>1, <2>2
  <2>3. CASE Pass
    <3>1. Slot(run.began) = Slot(now) /\ Slot(sentAt[t.user]) = Slot(now)
      BY <1>1, <2>1, <2>3 DEF Pass
    <3>2. now' = Slot(now) * MomentsPerSlot + MomentsPerSlot /\ Slot(now') = Slot(now) + 1
          /\ Slot(now) \in Int /\ now' \in Int
      BY <2>3, SlotPasses, Slots DEF Pass, Clock
    <3> QED BY <3>1, <3>2
  <2> QED BY <1>1, <2>2, <2>3, ClockMoves
<1>2. CASE run'.pc # "send"
  BY <1>2 DEF Sending
<1>3. ASSUME NEW t \in run.at, Mark(t), run' = [run EXCEPT !.pc = "send"] PROVE Sending'
  <2> DEFINE u == t.user
  <2>1. /\ u \in Member /\ now' = now + 1 /\ Slot(now') = Slot(now) /\ sentAt'[u] = now
        /\ now' \in Int /\ run.pc = "mark" /\ run.at = {t} /\ lastSent' = lastSent
    BY <1>3, TargetFields, StampFields DEF Mark, Clock
  <2>2. run'.at = {t} /\ run'.moved = run.moved /\ run'.began = run.began /\ run'.missed = run.missed
    BY <1>3, <2>1 DEF Types, RunState
  <2>3. \A p \in run.missed : fate'[u][p] = "counted"
    <3>1. \A p \in PostId : fate'[u][p] = FateAtMark(u)[p]
      BY <1>3, <2>1 DEF Mark, Types
    <3>2. run.missed \subseteq PostId
      BY DEF Types, RunState
    <3> QED BY <3>1, <3>2 DEF FateAtMark
  <2>4. u \notin run.moved /\ lastSent[u] # Never => run.began > lastSent[u] + Quiet - MomentsPerSlot
    BY <2>1, QuietBefore
  <2>5. now # Never
    BY ConstantsAssumption DEF Clock, Never
  <2>6. now' <= Slot(now) * MomentsPerSlot + MomentsPerSlot
    <3>1. now' < Slot(now') * MomentsPerSlot + MomentsPerSlot /\ Slot(now') * MomentsPerSlot \in Int
      BY <2>1, Slots
    <3> QED BY <2>1, <3>1, Units
  <2> HIDE DEF u
  <2>7. u \notin run.moved =>
          /\ sentAt'[u] # Never
          /\ now' <= Slot(sentAt'[u]) * MomentsPerSlot + MomentsPerSlot
          /\ Slot(run'.began) = Slot(now') => Slot(sentAt'[u]) = Slot(now')
          /\ lastSent'[u] # Never => run'.began > lastSent'[u] + Quiet - MomentsPerSlot
          /\ \A p \in run'.missed : fate'[u][p] = "counted"
    BY <2>1, <2>2, <2>3, <2>4, <2>5, <2>6
  <2> QED BY <2>2, <2>7 DEF Sending, u
<1>4. ASSUME NEW t \in run.at, Mark(t) PROVE Sending'
  BY <1>2, <1>3, <1>4, NextMemberPc DEF Mark
<1>5. ASSUME NEW u \in Member, Restarts(u) PROVE Sending'
  <2>1. CASE run.pc = "send"
    <3>1. run'.at = run.at /\ run'.moved = run.moved \cup {u} /\ run'.began = run.began
          /\ run'.missed = run.missed /\ now' = now
      BY <1>5, <2>1, RestartFields DEF Restarts
    <3>2. ASSUME NEW t \in run.at, t.user # u
          PROVE  sentAt'[t.user] = sentAt[t.user] /\ lastSent'[t.user] = lastSent[t.user]
                 /\ fate'[t.user] = fate[t.user]
      BY <1>5, <3>2, TargetFields, RestartFields DEF Restarts
    <3> QED BY <2>1, <3>1, <3>2 DEF Sending
  <2>2. CASE run.pc # "send"
    BY <1>2, <1>5, <2>2, RestartFields
  <2> QED BY <2>1, <2>2
<1>6. ASSUME NEW t \in run.todo, Count(t) PROVE Sending'
  BY <1>2, <1>6, CountFields
<1>7. ASSUME NEW t \in run.todo, CountFail(t) PROVE Sending'
  BY <1>2, <1>7, NextMemberPc DEF CountFail
<1>8. ASSUME NEW t \in run.at, MarkFail(t) \/ Send(t) \/ SendFail(t) PROVE Sending'
  BY <1>2, <1>8, NextMemberPc DEF MarkFail, Send, SendFail
<1>9. CASE Tick \/ Abort
  <2>1. run'.pc # "send"
    <3>1. CASE Tick
      BY <3>1 DEF Tick, IdleRun
    <3>2. CASE Abort
      BY <3>2 DEF Abort, IdleRun
    <3> QED BY <1>9, <3>1, <3>2
  <2> QED BY <1>2, <2>1
<1>10. CASE Aside /\ run.pc # "send"
  BY <1>2, <1>10 DEF Aside
<1> QED BY <1>1, <1>4, <1>5, <1>6, <1>7, <1>8, <1>9, <1>10, Steps

-----------------------------------------------------------------------------
(* The invariant holds.                                                    *)
LEMMA BaseInit == ASSUME Init PROVE Base
<1>1. Clock
  <2>1. MaxNow \in Int /\ StartTime \in Int /\ StartTime <= MaxNow
    BY ConstantsAssumption
  <2>2. MaxNow < Slot(MaxNow) * MomentsPerSlot + MomentsPerSlot /\ Slot(MaxNow) * MomentsPerSlot \in Int
    BY <2>1, Slots
  <2>3. now = StartTime /\ ticked = FALSE
    BY DEF Init
  <2>4. StartTime < Slot(MaxNow) * MomentsPerSlot + 2 * MomentsPerSlot
    <3> DEFINE B == Slot(MaxNow) * MomentsPerSlot
    <3>1. B \in Int /\ MaxNow < B + MomentsPerSlot
      BY <2>2
    <3> HIDE DEF B
    <3>2. StartTime < B + 2 * MomentsPerSlot
      BY <2>1, <3>1, Units
    <3> QED BY <3>2 DEF B
  <2>5. now \in Int /\ StartTime <= now
    <3>1. now = StartTime
      BY <2>3
    <3>2. StartTime \in Int /\ StartTime <= StartTime
      BY <2>1
    <3> QED BY <3>1, <3>2
  <2>7. ticked \in BOOLEAN
    BY <2>3
  <2>6. now < Slot(MaxNow) * MomentsPerSlot + 2 * MomentsPerSlot
    BY <2>3, <2>4
  <2> QED BY <2>5, <2>6, <2>7 DEF Clock
<1>2. Types
  <2>1. Untold \in [PostId -> Fate] /\ Never \in Int
    BY DEF Untold, Fate, Never
  <2>2. run \in RunState
    BY IdleRunIsARun DEF Init
  <2>3. prefs \in [Member -> Pref]
    BY ConstantsAssumption DEF Init
  <2>4. patch \in [Request -> PatchState]
    BY DEF Init, PatchState
  <2> QED BY <2>1, <2>2, <2>3, <2>4 DEF Init, Types
<1>3. Numbered
  BY FS_EmptySet DEF Init, Numbered, AllPosts
<1>4. RunOK /\ Waiting /\ Counted /\ Sending
  BY DEF Init, IdleRun, RunOK, Waiting, Unmarked, Counted, Sending
<1>5. Told
  BY DEF Init, Told, ToldOf, Untold
<1> QED BY <1>1, <1>2, <1>3, <1>4, <1>5 DEF Base

LEMMA BaseStutters == ASSUME Base, UNCHANGED vars PROVE Base'
<1>1. /\ UNCHANGED <<now, ticked, prefs, sentAt, active, blocked, posts, open, run, patch>>
      /\ UNCHANGED <<fate, horizon, lastSent, smooth>>
  BY DEF vars, userVars, postVars, history
<1>2. Clock' /\ Types' /\ Numbered' /\ RunOK'
  BY <1>1 DEF Base, Clock, Types, Numbered, AllPosts, RunOK
<1>3. Waiting' /\ Counted' /\ Sending'
  BY <1>1 DEF Base, Waiting, Unmarked, LocalHourAt, Counted, AllPosts, Sending
<1>4. Told'
  BY <1>1 DEF Base, Told, ToldOf, AllPosts
<1> QED BY <1>2, <1>3, <1>4 DEF Base

LEMMA BaseStep == ASSUME Base, [Next]_vars PROVE Base'
<1>1. CASE Next
  BY <1>1, ClockStep, TypesStep, NumberedStep, RunOKStep, WaitingStep, ToldStep, CountedStep, SendingStep
  DEF Base
<1> QED BY <1>1, BaseStutters

LEMMA AlwaysBase == Spec => []Base
<1>1. Init => Base
  BY BaseInit
<1>2. Base /\ [Next]_vars => Base'
  BY BaseStep
<1> QED BY <1>1, <1>2, PTL DEF Spec

-----------------------------------------------------------------------------
(* The settings, the run, the clock and the history have their types: the  *)
(* run holds one target between a count and a send, a mark and a send lie  *)
(* in the past, and the clock stops within two slots of its bound.         *)
LEMMA BaseTypes == ASSUME Base PROVE TypeOK
<1>0. Clock /\ Types /\ Numbered /\ RunOK /\ Told
  BY DEF Base
<1>1. now \in StartTime..(MaxNow + 2 * MomentsPerSlot)
  <2> DEFINE B == Slot(MaxNow) * MomentsPerSlot
  <2>1. B \in Int /\ B <= MaxNow /\ MaxNow \in Int /\ StartTime \in Int
    BY Slots, ConstantsAssumption
  <2>2. now \in Int /\ StartTime <= now /\ now < B + 2 * MomentsPerSlot
    BY <1>0 DEF Clock
  <2> HIDE DEF B
  <2> QED BY <2>1, <2>2, Units
<1>2. \A u \in Member : sentAt[u] \in {Never} \cup StartTime..now
                        /\ lastSent[u] \in {Never} \cup StartTime..now
  <2> SUFFICES ASSUME NEW u \in Member
               PROVE  sentAt[u] \in {Never} \cup StartTime..now
                      /\ lastSent[u] \in {Never} \cup StartTime..now
    OBVIOUS
  <2>1. ToldOf(u) /\ now \in Int /\ StartTime \in Int /\ sentAt[u] \in Int /\ lastSent[u] \in Int
    BY <1>0, ConstantsAssumption DEF Told, Clock, Types
  <2> QED BY <2>1 DEF ToldOf
<1>3. Cardinality(run.at) <= 1
  <2>1. run.at = {} \/ \E t \in run.at : run.at = {t}
    BY <1>0 DEF RunOK, Types, RunState
  <2>2. CASE run.at = {}
    <3>1. Cardinality(run.at) = 0
      BY <2>2, FS_EmptySet
    <3> QED BY <3>1
  <2>3. ASSUME NEW t \in run.at, run.at = {t} PROVE Cardinality(run.at) <= 1
    <3>1. Cardinality({t}) = 1
      BY FS_Singleton
    <3> QED BY <2>3, <3>1
  <2> QED BY <2>1, <2>2, <2>3
<1>4. run.pc \in {"idle", "pick", "mark", "send"} /\ run.todo \subseteq Target /\ run.at \subseteq Target
      /\ run.missed \subseteq run.seen /\ run.seen \subseteq PostId /\ run.moved \subseteq Member
  BY <1>0 DEF RunOK, Types, RunState
<1>5. \A r \in Request : patch[r].pc \in {"idle", "write"}
  BY <1>0 DEF Types, PatchState, NoPatch
<1>6. sentAt \in [Member -> {Never} \cup StartTime..now]
      /\ lastSent \in [Member -> {Never} \cup StartTime..now]
  BY <1>0, <1>2 DEF Types
<1> QED BY <1>0, <1>1, <1>3, <1>4, <1>5, <1>6 DEF TypeOK, Clock, Types, Numbered, AllPosts

THEOREM TypeCorrect == Spec => []TypeOK
BY AlwaysBase, BaseTypes, PTL

(* While a member keeps the same window two summaries are more than Quiet  *)
(* apart, less the slot that a send may run over: DigestTargets looks at   *)
(* the mark, and the mark comes before the send.                           *)
LEMMA SendsApart ==
  ASSUME Base, Next, NEW u \in Member,
         lastSent'[u] # lastSent[u], lastSent'[u] # Never, lastSent[u] # Never
  PROVE  now > lastSent[u] + Quiet - MomentsPerSlot
<1>0. Types /\ RunOK /\ Sending /\ Clock
  BY DEF Base
<1>1. ASSUME NEW t \in run.at, Send(t) PROVE now > lastSent[u] + Quiet - MomentsPerSlot
  <2>1. t.user \in Member /\ run.pc = "send"
    BY <1>0, <1>1, TargetFields DEF Send
  <2>2. u = t.user /\ u \notin run.moved
    BY <1>0, <1>1, <2>1 DEF Send, Types
  <2>3. run.began > lastSent[u] + Quiet - MomentsPerSlot
    BY <1>0, <2>1, <2>2 DEF Sending
  <2>4. run.began <= now /\ run.began \in Int /\ now \in Int /\ lastSent[u] \in Int
    BY <1>0, <2>1 DEF RunOK, Types, RunState, Clock
  <2> QED BY <2>3, <2>4, Units
<1>2. ASSUME NEW v \in Member, Restarts(v) PROVE FALSE
  BY <1>0, <1>2, RestartFields
<1>3. ~Aside
  BY DEF Aside
<1>4. ~Tick /\ ~Abort
  BY DEF Tick, Abort, history
<1>5. ASSUME NEW t \in run.todo, Count(t) \/ CountFail(t) PROVE FALSE
  BY <1>5 DEF Count, CountFail, history
<1>6. ASSUME NEW t \in run.at, Mark(t) \/ MarkFail(t) \/ SendFail(t) PROVE FALSE
  BY <1>6 DEF Mark, MarkFail, SendFail
<1> QED BY <1>0, <1>1, <1>2, <1>3, <1>4, <1>5, <1>6, Steps

THEOREM Apart == Spec => OneSummaryPerDay
<1>1. Base /\ [Next]_vars =>
        [\A u \in Member :
           lastSent'[u] # lastSent[u] /\ lastSent'[u] # Never /\ lastSent[u] # Never
             => now > lastSent[u] + Quiet - MomentsPerSlot]_vars
  BY SendsApart
<1> QED BY <1>1, AlwaysBase, PTL DEF Spec, OneSummaryPerDay

(* What a member was told of, or should have been, never comes up again in *)
(* the same window: what a mark counts lies after the mark before it.      *)
LEMMA CountsOnlyNews ==
  ASSUME Base, NEW t \in run.at, run.pc = "mark", NEW p \in run.missed
  PROVE  fate[t.user][p] = "new"
<1>0. Types /\ Numbered /\ RunOK /\ Waiting /\ Told /\ Counted
  BY DEF Base
<1>1. p \in PostId /\ p \in run.seen /\ t.user \in Member
  BY <1>0, TargetFields DEF RunOK, Types, RunState
<1>2. PICK q \in AllPosts : q.id = p /\ q.at > t.since
  BY <1>0, <1>1 DEF Counted
<1>3. SUFFICES ASSUME fate[t.user][p] # "new" PROVE FALSE
  OBVIOUS
<1>4. sentAt[t.user] # Never
  BY <1>0, <1>1, <1>3 DEF Told, ToldOf
<1>5. t.since = sentAt[t.user]
  BY <1>0, <1>4 DEF Waiting, Unmarked
<1>6. PICK r \in AllPosts : r.id = p /\ r.at <= sentAt[t.user]
  BY <1>0, <1>1, <1>3, <1>4 DEF Told, ToldOf
<1>7. q = r
  BY <1>0, <1>2, <1>6 DEF Numbered
<1>8. q.at \in Int /\ t.since \in Int
  BY <1>0, PostFields, TargetFields
<1> QED BY <1>2, <1>5, <1>6, <1>7, <1>8

LEMMA FatesSettle ==
  ASSUME Base, Next, NEW u \in Member, NEW p \in PostId, fate[u][p] \in {"failed", "delivered"}
  PROVE  fate'[u][p] \in {fate[u][p], "new"}
<1>0. Types /\ RunOK /\ Sending /\ Clock
  BY DEF Base
<1>1. ASSUME NEW t \in run.at, run.pc = "mark", t.user = u PROVE FateAtMark(u)[p] = fate[u][p]
  <2>1. p \notin run.missed
    BY <1>1, CountsOnlyNews
  <2> QED BY <2>1 DEF FateAtMark
<1>2. ASSUME NEW t \in run.at, Mark(t) PROVE fate'[u][p] = fate[u][p]
  <2>1. t.user \in Member /\ run.pc = "mark"
    BY <1>0, <1>2, TargetFields DEF Mark
  <2>2. fate'[u] = IF u = t.user THEN FateAtMark(u) ELSE fate[u]
    BY <1>0, <1>2, <2>1 DEF Mark, Types
  <2> QED BY <1>1, <2>1, <2>2
<1>3. ASSUME NEW t \in run.at, MarkFail(t) PROVE fate'[u][p] = fate[u][p]
  <2>1. t.user \in Member /\ run.pc = "mark"
    BY <1>0, <1>3, TargetFields DEF MarkFail
  <2>2. CASE fate' = fate
    BY <2>2
  <2>3. CASE fate' = [fate EXCEPT ![t.user] =
               [i \in PostId |-> IF FateAtMark(t.user)[i] = "counted" THEN "failed"
                                 ELSE FateAtMark(t.user)[i]]]
    <3>1. CASE u = t.user
      <4>1. fate'[u][p] = IF FateAtMark(u)[p] = "counted" THEN "failed" ELSE FateAtMark(u)[p]
        BY <1>0, <2>1, <2>3, <3>1 DEF Types
      <4> QED BY <1>1, <2>1, <3>1, <4>1
    <3>2. CASE u # t.user
      BY <1>0, <2>3, <3>2 DEF Types
    <3> QED BY <3>1, <3>2
  <2> QED BY <1>3, <2>2, <2>3 DEF MarkFail
<1>4. ASSUME NEW t \in run.at, NEW f \in Fate, run.pc = "send", Becomes(t.user, f)
      PROVE  fate'[u][p] = fate[u][p]
  <2>1. t.user \in Member
    BY <1>0, TargetFields
  <2>2. CASE u = t.user /\ u \notin run.moved
    <3>1. p \notin run.missed
      BY <1>0, <1>4, <2>2 DEF Sending
    <3> QED BY <1>0, <1>4, <2>1, <2>2, <3>1, BecomesFields
  <2> QED BY <1>0, <1>4, <2>1, <2>2, BecomesFields
<1>5. "failed" \in Fate /\ "delivered" \in Fate
  BY DEF Fate
<1>6. CASE Abort
  <2>1. CASE run.pc = "send"
    BY <1>4, <1>5, <1>6, <2>1 DEF Abort
  <2> QED BY <1>6, <2>1 DEF Abort
<1>7. ASSUME NEW t \in run.at, Send(t) \/ SendFail(t) PROVE fate'[u][p] = fate[u][p]
  BY <1>4, <1>5, <1>7 DEF Send, SendFail
<1>8. CASE Aside \/ Tick \/ \E t \in run.todo : Count(t) \/ CountFail(t)
  BY <1>8 DEF Aside, Tick, Count, CountFail, history
<1>9. ASSUME NEW v \in Member, Restarts(v) PROVE fate'[u][p] \in {fate[u][p], "new"}
  BY <1>0, <1>9, RestartFields
<1> QED BY <1>0, <1>2, <1>3, <1>6, <1>7, <1>8, <1>9, Steps

THEOREM ToldOnce == Spec => NeverToldTwice
<1>1. Base /\ [Next]_vars =>
        [\A u \in Member, p \in PostId :
           fate[u][p] \in {"failed", "delivered"} => fate'[u][p] \in {fate[u][p], "new"}]_vars
  BY FatesSettle
<1> QED BY <1>1, AlwaysBase, PTL DEF Spec, NeverToldTwice

-----------------------------------------------------------------------------
(* Between the first window and the last mark nothing that a count could   *)
(* have seen is left out: one window begins where the last was marked.     *)
TiledOf(u) ==
  sentAt[u] # Never =>
    \A p \in AllPosts :
      p.author # u /\ horizon[u] < p.at /\ p.at <= sentAt[u] => fate[u][p.id] # "new"
Tiled == \A u \in Member : TiledOf(u)

LEMMA TiledKept ==
  ASSUME Base, Next, NEW u \in Member, TiledOf(u),
         sentAt'[u] = sentAt[u], horizon'[u] = horizon[u],
         \A p \in PostId : fate[u][p] # "new" => fate'[u][p] # "new"
  PROVE  TiledOf(u)'
<1>0. Types /\ Numbered /\ Told /\ Clock
  BY DEF Base
<1>1. \A p \in AllPosts : p.id \in PostId /\ p.at \in Int
  <2>1. AllPosts \subseteq Post
    BY <1>0 DEF AllPosts, Types
  <2> QED BY <2>1, <1>0, PostFields DEF Post
<1>2. CASE AllPosts' = AllPosts
  BY <1>1, <1>2 DEF TiledOf
<1>3. ASSUME NEW p \in Post, AllPosts' = AllPosts \cup {p}, p.at = now PROVE TiledOf(u)'
  <2>1. sentAt[u] # Never => sentAt[u] < now
    BY <1>0 DEF Told, ToldOf
  <2>2. sentAt[u] \in Int /\ now \in Int
    BY <1>0 DEF Types, Clock
  <2>3. sentAt[u] # Never => ~(p.at <= sentAt[u])
    BY <1>3, <2>1, <2>2
  <2> QED BY <1>1, <1>3, <2>3 DEF TiledOf
<1> QED BY <1>0, <1>2, <1>3, PostsGrow

\* The window that a mark closes: what it leaves was told before, or lies
\* before the first window.
LEMMA MarkTiles ==
  ASSUME Base, Tiled, NEW t \in run.at, run.pc = "mark", Stamp(t.user), UNCHANGED <<posts, open>>,
         horizon' = [horizon EXCEPT ![t.user] = IF @ = Never THEN t.since ELSE @],
         \A p \in PostId : fate'[t.user][p] = "new" => FateAtMark(t.user)[p] = "new"
  PROVE  TiledOf(t.user)'
<1> DEFINE u == t.user
<1>0. Types /\ Numbered /\ Waiting /\ Told /\ Counted /\ Clock
  BY DEF Base
<1>1. u \in Member /\ t.since \in Int /\ horizon[u] \in Int /\ sentAt[u] \in Int
  BY <1>0, TargetFields DEF Types
<1>2. AllPosts' = AllPosts
  BY DEF AllPosts
<1>3. horizon'[u] = IF horizon[u] = Never THEN t.since ELSE horizon[u]
  BY <1>0, <1>1 DEF Types
<1>4. SUFFICES ASSUME NEW p \in AllPosts, p.author # u, horizon'[u] < p.at, fate'[u][p.id] = "new"
               PROVE  FALSE
  BY <1>2 DEF TiledOf
<1>5. p.id \in PostId /\ p.at \in Int
  <2>1. AllPosts \subseteq Post
    BY <1>0 DEF AllPosts, Types
  <2> QED BY <2>1, <1>0, PostFields DEF Post
<1>6. FateAtMark(u)[p.id] = "new"
  BY <1>4, <1>5
<1>7. p.id \notin run.missed /\ fate[u][p.id] = "new"
  BY <1>5, <1>6 DEF FateAtMark
<1>8. p.id \in run.seen
  <2>1. \E q \in posts \cup open : q.id = p.id
    BY DEF AllPosts
  <2> QED BY <1>5, <1>6, <1>7, <2>1 DEF FateAtMark
<1>9. p.at <= t.since
  BY <1>0, <1>7, <1>8 DEF Counted
<1>10. horizon[u] # Never
  BY <1>1, <1>3, <1>4, <1>5, <1>9
<1>11. sentAt[u] # Never
  BY <1>0, <1>1, <1>10 DEF Told, ToldOf
<1>12. t.since = sentAt[u]
  BY <1>0, <1>11 DEF Waiting, Unmarked
<1> QED BY <1>1, <1>3, <1>4, <1>7, <1>9, <1>10, <1>11, <1>12 DEF Tiled, TiledOf

LEMMA TiledStep == ASSUME Base, Tiled, Next PROVE Tiled'
<1> SUFFICES ASSUME NEW u \in Member PROVE TiledOf(u)'
  BY DEF Tiled
<1>0. Types /\ RunOK /\ Sending /\ Clock /\ TiledOf(u)
  BY DEF Base, Tiled
<1>1. CASE UNCHANGED <<sentAt, fate, horizon>>
  BY <1>0, <1>1, TiledKept
<1>2. ASSUME NEW t \in run.at, NEW f \in Fate \ {"new"}, run.pc = "send", Becomes(t.user, f),
             UNCHANGED <<sentAt, horizon>>
      PROVE  TiledOf(u)'
  <2>1. t.user \in Member
    BY <1>0, TargetFields
  <2>2. \A p \in PostId : fate[u][p] # "new" => fate'[u][p] # "new"
    BY <1>0, <1>2, <2>1, BecomesFields
  <2> QED BY <1>0, <1>2, <2>2, TiledKept
<1>3. "failed" \in Fate \ {"new"} /\ "delivered" \in Fate \ {"new"}
  BY DEF Fate
<1>4. CASE Aside \/ Tick \/ \E t \in run.todo : Count(t) \/ CountFail(t)
  BY <1>1, <1>4 DEF Aside, Tick, Count, CountFail, WindowIntact, userVars, history
<1>5. CASE Abort
  <2>1. CASE run.pc = "send"
    BY <1>2, <1>3, <1>5, <2>1 DEF Abort, userVars
  <2> QED BY <1>1, <1>5, <2>1 DEF Abort, userVars
<1>6. ASSUME NEW t \in run.at, Send(t) \/ SendFail(t) PROVE TiledOf(u)'
  BY <1>2, <1>3, <1>6 DEF Send, SendFail, userVars
<1>7. ASSUME NEW v \in Member, Restarts(v) PROVE TiledOf(u)'
  <2>1. CASE u = v
    BY <1>7, <2>1 DEF Restarts, TiledOf
  <2>2. CASE u # v
    BY <1>0, <1>7, <2>2, RestartFields, TiledKept DEF Restarts
  <2> QED BY <2>1, <2>2
<1>8. ASSUME NEW t \in run.at, NEW F, run.pc = "mark", Stamp(t.user), fate' = [fate EXCEPT ![t.user] = F],
             UNCHANGED <<posts, open>>,
             horizon' = [horizon EXCEPT ![t.user] = IF @ = Never THEN t.since ELSE @],
             \A p \in PostId : F[p] = "new" => FateAtMark(t.user)[p] = "new"
      PROVE  TiledOf(u)'
  <2>1. t.user \in Member
    BY <1>0, TargetFields
  <2>2. CASE u = t.user
    <3>1. fate'[t.user] = F
      BY <1>0, <1>8, <2>1 DEF Types
    <3> QED BY <1>8, <2>2, <3>1, MarkTiles
  <2>3. CASE u # t.user
    <3>1. sentAt'[u] = sentAt[u] /\ horizon'[u] = horizon[u] /\ fate'[u] = fate[u]
      BY <1>0, <1>8, <2>1, <2>3, StampFields DEF Types
    <3> QED BY <1>0, <3>1, TiledKept
  <2> QED BY <2>2, <2>3
<1>9. ASSUME NEW t \in run.at, Mark(t) PROVE TiledOf(u)'
  BY <1>8, <1>9 DEF Mark, postVars
<1>10. ASSUME NEW t \in run.at, MarkFail(t) PROVE TiledOf(u)'
  <2> DEFINE F == [p \in PostId |-> IF FateAtMark(t.user)[p] = "counted" THEN "failed"
                                    ELSE FateAtMark(t.user)[p]]
  <2>1. CASE UNCHANGED <<now, sentAt, fate, horizon>>
    BY <1>1, <2>1
  <2>2. CASE /\ Stamp(t.user)
             /\ fate' = [fate EXCEPT ![t.user] = F]
             /\ horizon' = [horizon EXCEPT ![t.user] = IF @ = Never THEN t.since ELSE @]
    <3>1. \A p \in PostId : F[p] = "new" => FateAtMark(t.user)[p] = "new"
      OBVIOUS
    <3>2. run.pc = "mark" /\ UNCHANGED <<posts, open>>
      BY <1>10 DEF MarkFail, postVars
    <3> HIDE DEF F
    <3> QED BY <1>8, <2>2, <3>1, <3>2
  <2>3. UNCHANGED <<now, sentAt, fate, horizon>>
          \/ /\ Stamp(t.user)
             /\ fate' = [fate EXCEPT ![t.user] = F]
             /\ horizon' = [horizon EXCEPT ![t.user] = IF @ = Never THEN t.since ELSE @]
    BY <1>10 DEF MarkFail
  <2> QED BY <2>1, <2>2, <2>3
<1> QED BY <1>0, <1>4, <1>5, <1>6, <1>7, <1>9, <1>10, Steps

THEOREM Tiles == Spec => []WindowsTile
<1>1. Init => Tiled
  BY DEF Init, Tiled, TiledOf
<1>2. Base /\ Tiled /\ [Next]_vars => Tiled'
  <2>1. CASE Next
    BY <2>1, TiledStep
  <2>2. CASE UNCHANGED vars
    BY <2>2 DEF Tiled, TiledOf, AllPosts, vars, userVars, postVars, history
  <2> QED BY <2>1, <2>2
<1>3. Tiled => WindowsTile
  BY DEF Tiled, TiledOf, WindowsTile, AllPosts
<1> QED BY <1>1, <1>2, <1>3, AlwaysBase, PTL DEF Spec

-----------------------------------------------------------------------------
(* A member nothing interferes with is looked at every day, when the quiet *)
(* time leaves room for it: with the code's ten minutes between ticks and  *)
(* twenty hours of quiet, Slack says that three ticks fit an hour, and     *)
(* that a mark made at the end of the chosen hour, one tick late, is       *)
(* older than the quiet time when the hour comes round.                    *)
Slack == 3 <= SlotsPerHour /\ Quiet + Hour + 2 * MomentsPerSlot <= Day

LEMMA SlackFields ==
  ASSUME Slack
  PROVE  3 * MomentsPerSlot <= Hour /\ Quiet + Hour + 2 * MomentsPerSlot <= Day
<1>1. MomentsPerSlot \in Nat /\ SlotsPerHour \in Nat /\ 3 <= SlotsPerHour
  BY ConstantsAssumption DEF Slack
<1> QED BY <1>1 DEF Slack, Hour

LEMMA LookedKept ==
  ASSUME NEW u \in Member, LookedOf(u),
         smooth'[u] => smooth[u], u \in active' => u \in active,
         prefs'[u] = prefs[u], sentAt'[u] = sentAt[u],
         Slot(now') = Slot(now), ticked' = ticked,
         u \notin run.moved => u \notin run'.moved,
         smooth'[u] /\ Awaited(u) => Awaited(u)' /\ run'.began = run.began
  PROVE  LookedOf(u)'
<1> SUFFICES ASSUME smooth'[u]
             PROVE  /\ u \notin run'.moved
                    /\ prefs'[u].enabled /\ u \in active' =>
                         \E h \in (sentAt'[u] - Hour - 2 * MomentsPerSlot)..sentAt'[u] :
                           /\ sentAt'[u] < h + Hour + 2 * MomentsPerSlot
                           /\ HourBegins(u, h)' /\ Turn(u, h + Day)'
  BY DEF LookedOf
<1>1. u \notin run'.moved
  BY DEF LookedOf
<1>2. ASSUME NEW h, HourBegins(u, h) PROVE HourBegins(u, h)'
  BY <1>2 DEF HourBegins
<1>3. ASSUME NEW e, Turn(u, e) PROVE Turn(u, e)'
  BY <1>3 DEF Turn, SlotBegan
<1>4. ASSUME prefs'[u].enabled, u \in active'
      PROVE  \E h \in (sentAt'[u] - Hour - 2 * MomentsPerSlot)..sentAt'[u] :
                           /\ sentAt'[u] < h + Hour + 2 * MomentsPerSlot
                           /\ HourBegins(u, h)' /\ Turn(u, h + Day)'
  <2>1. PICK h \in (sentAt[u] - Hour - 2 * MomentsPerSlot)..sentAt[u] :
           /\ sentAt[u] < h + Hour + 2 * MomentsPerSlot
           /\ HourBegins(u, h) /\ Turn(u, h + Day)
    BY <1>4 DEF LookedOf
  <2> QED BY <1>2, <1>3, <2>1
<1> QED BY <1>1, <1>4

\* When the hour comes round the member is due.
LEMMA DueTomorrow ==
  ASSUME Slack, Types, Clock, NEW u \in Member, prefs[u].enabled, u \in active,
         NEW h \in (sentAt[u] - Hour - 2 * MomentsPerSlot)..sentAt[u], HourBegins(u, h),
         sentAt[u] < h + Hour + 2 * MomentsPerSlot,
         h + Day <= SlotBegan, SlotBegan < h + Day + MomentsPerSlot
  PROVE  Due(u)
<1>1. /\ now \in Int /\ sentAt[u] \in Int /\ h \in Int /\ SlotBegan \in Int
      /\ SlotBegan <= now /\ now < SlotBegan + MomentsPerSlot
  BY Slots, Units DEF Types, Clock, SlotBegan
<1>2. h + Day <= now /\ now < h + Day + Hour
  BY <1>1, SlackFields, Units
<1>3. LocalHourAt(u, now) = prefs[u].hour
  BY <1>1, <1>2, SameHourTomorrow
<1>4. sentAt[u] < now - Quiet
  BY <1>1, <1>2, SlackFields, Units
<1>5. ~(sentAt[u] >= now - Quiet)
  BY <1>1, <1>4, Units
<1> QED BY <1>3, <1>5 DEF Due, LocalHour, LocalHourAt, Recent

LEMMA LookedTick == ASSUME Slack, Base, LookedAfter, Tick, NEW u \in Member PROVE LookedOf(u)'
<1>0. Clock /\ Types /\ RunOK /\ LookedOf(u)
  BY DEF Base, LookedAfter
<1>1. /\ run.pc = "idle" /\ now' = now
      /\ UNCHANGED <<prefs, sentAt, active, smooth>>
  BY DEF Tick, userVars, history
<1>2. Unmarked = {}
  BY <1>0, <1>1 DEF RunOK, Unmarked
<1>3. Unmarked' = DigestTargets /\ run'.moved = {}
  <2>1. CASE DigestTargets = {}
    BY <2>1 DEF Tick, IdleRun, Unmarked
  <2>2. CASE DigestTargets # {}
    <3>1. run' = [pc |-> "pick", todo |-> DigestTargets, at |-> {}, missed |-> {}, seen |-> {},
                  began |-> now, moved |-> {}]
      BY <2>2 DEF Tick, IdleRun
    <3> QED BY <3>1 DEF Unmarked
  <2> QED BY <2>1, <2>2
<1>4. SUFFICES ASSUME smooth[u], prefs[u].enabled, u \in active
               PROVE  \E h \in (sentAt[u] - Hour - 2 * MomentsPerSlot)..sentAt[u] :
                         /\ sentAt[u] < h + Hour + 2 * MomentsPerSlot
                         /\ HourBegins(u, h)' /\ Turn(u, h + Day)'
  BY <1>1, <1>3 DEF LookedOf
<1>5. PICK h \in (sentAt[u] - Hour - 2 * MomentsPerSlot)..sentAt[u] :
         /\ sentAt[u] < h + Hour + 2 * MomentsPerSlot
         /\ HourBegins(u, h) /\ Turn(u, h + Day)
  BY <1>0, <1>4 DEF LookedOf
<1>6. HourBegins(u, h)'
  BY <1>1, <1>5 DEF HourBegins
<1>7. SlotBegan' = SlotBegan /\ ~Awaited(u)
  BY <1>1, <1>2 DEF SlotBegan, Awaited
<1>8. h + Day \in Int /\ SlotBegan \in Int
  BY <1>0, Slots, Units DEF Types, Clock, SlotBegan
<1>9. CASE SlotBegan < h + Day
  <2>1. Turn(u, h + Day)'
    BY <1>7, <1>9 DEF Turn
  <2> QED BY <1>5, <1>6, <2>1
<1>10. CASE ~(SlotBegan < h + Day)
  <2>1. h + Day <= SlotBegan /\ SlotBegan < h + Day + MomentsPerSlot
    BY <1>5, <1>7, <1>8, <1>10 DEF Turn
  <2>2. Due(u)
    BY <1>0, <1>4, <1>5, <2>1, DueTomorrow
  <2>3. Awaited(u)'
    BY <1>0, <1>3, <2>2, DigestTargetFields DEF Awaited
  <2>4. Turn(u, h + Day)'
    BY <1>7, <2>1, <2>3 DEF Turn
  <2> QED BY <1>5, <1>6, <2>4
<1> QED BY <1>9, <1>10

LEMMA LookedPass == ASSUME Slack, Base, LookedAfter, Pass, NEW u \in Member PROVE LookedOf(u)'
<1>0. Clock /\ Types /\ RunOK /\ LookedOf(u)
  BY DEF Base, LookedAfter
<1>1. /\ ticked' = FALSE /\ UNCHANGED <<prefs, sentAt, active, run>>
      /\ run.pc = "idle" \/ Slot(run.began) = Slot(now)
      /\ now' = (Slot(now) + 1) * MomentsPerSlot
      /\ smooth'[u] => smooth[u] /\ ticked
  <2>1. smooth'[u] => smooth[u] /\ ticked
    BY <1>0, UpsetFields DEF Pass
  <2> QED BY <2>1 DEF Pass, userVars
<1>2. /\ Slot(now') = Slot(now) + 1 /\ Slot(now) \in Int
      /\ SlotBegan' = SlotBegan + MomentsPerSlot /\ SlotBegan \in Int
  <2>1. now \in Int
    BY <1>0 DEF Clock
  <2>2. Slot(now') = Slot(now) + 1 /\ Slot(now) \in Int /\ Slot(now) * MomentsPerSlot \in Int
        /\ now' = Slot(now) * MomentsPerSlot + MomentsPerSlot
    BY <1>1, <2>1, SlotPasses, Slots
  <2>3. SlotBegan' = now'
    BY <1>1, <2>2 DEF SlotBegan
  <2> QED BY <2>2, <2>3 DEF SlotBegan
<1>3. SUFFICES ASSUME smooth'[u], prefs[u].enabled, u \in active
               PROVE  \E h \in (sentAt[u] - Hour - 2 * MomentsPerSlot)..sentAt[u] :
                         /\ sentAt[u] < h + Hour + 2 * MomentsPerSlot
                         /\ HourBegins(u, h)' /\ Turn(u, h + Day)'
  BY <1>0, <1>1 DEF LookedOf
<1>4. PICK h \in (sentAt[u] - Hour - 2 * MomentsPerSlot)..sentAt[u] :
         /\ sentAt[u] < h + Hour + 2 * MomentsPerSlot
         /\ HourBegins(u, h) /\ Turn(u, h + Day)
  BY <1>0, <1>1, <1>3 DEF LookedOf
<1>5. HourBegins(u, h)'
  BY <1>1, <1>4 DEF HourBegins
<1>6. Awaited(u) => run.pc # "idle"
  BY <1>0 DEF Awaited, Unmarked, RunOK
<1>7. Awaited(u)' <=> Awaited(u)
  BY <1>1 DEF Awaited, Unmarked
<1> DEFINE e == h + Day
<1>8. e \in Int /\ MomentsPerSlot \in Nat
  BY <1>0, Units DEF Types
<1> HIDE DEF e
<1>9. CASE SlotBegan < e
  BY <1>1, <1>2, <1>4, <1>5, <1>8, <1>9 DEF Turn, e
<1>10. CASE SlotBegan < e + MomentsPerSlot /\ Awaited(u)
  <2>1. Slot(run'.began) # Slot(now')
    BY <1>1, <1>2, <1>6, <1>10
  <2>2. SlotBegan' < e + 2 * MomentsPerSlot
    BY <1>2, <1>8, <1>10
  <2>3. Turn(u, e)'
    BY <1>7, <1>10, <2>1, <2>2 DEF Turn
  <2> QED BY <1>4, <1>5, <2>3 DEF e
<1>11. ~(Awaited(u) /\ Slot(run.began) # Slot(now))
  BY <1>1, <1>6
<1> QED BY <1>1, <1>3, <1>4, <1>9, <1>10, <1>11 DEF Turn, e

\* A mark is made in the run's own slot or the next, so that the next day's
\* hour is still ahead of it.
LEMMA LookedMarked ==
  ASSUME Slack, Base, NEW t \in run.at, Mark(t) PROVE LookedOf(t.user)'
<1> DEFINE u == t.user
<1>0. Clock /\ Types /\ RunOK /\ Waiting
  BY DEF Base
<1>1. /\ u \in Member /\ now' = now + 1 /\ Slot(now') = Slot(now) /\ sentAt'[u] = now /\ run.pc = "mark"
      /\ UNCHANGED <<prefs, active>>
  BY <1>0, TargetFields, StampFields DEF Mark
<1>2. smooth'[u] = (u \notin run.moved)
  BY <1>0, <1>1 DEF Mark, Types
<1>3. SUFFICES ASSUME u \notin run.moved PROVE LookedOf(u)'
  BY <1>2 DEF LookedOf
<1>4. u \notin run'.moved
  <2>1. CASE NextMember(t)
    BY <1>0, <1>3, <2>1, NextMemberRun
  <2>2. CASE run' = [run EXCEPT !.pc = "send"]
    BY <1>0, <1>3, <2>2 DEF Types, RunState
  <2> QED BY <2>1, <2>2 DEF Mark
<1>5. LocalHourAt(u, run.began) = prefs[u].hour
  BY <1>0, <1>1, <1>3 DEF Waiting, Unmarked
<1>6. run.began \in Int /\ now \in Int /\ run.began <= now /\ Slot(now) <= Slot(run.began) + 1
  BY <1>0, <1>1 DEF RunOK, Types, RunState, Clock
<1> HIDE DEF u
<1>7. PICK h \in Int : HourBegins(u, h) /\ h <= run.began /\ run.began < h + Hour
  BY <1>0, <1>1, <1>5, <1>6, HourOf
<1>8. SlotBegan <= run.began + MomentsPerSlot /\ now < run.began + 2 * MomentsPerSlot /\ SlotBegan \in Int
  <2>1. /\ Slot(now) \in Int /\ Slot(run.began) \in Int /\ SlotBegan \in Int /\ now < SlotBegan + MomentsPerSlot
        /\ Slot(run.began) * MomentsPerSlot \in Int /\ Slot(run.began) * MomentsPerSlot <= run.began
        /\ SlotBegan <= now
    BY <1>6, Slots DEF SlotBegan
  <2>2. SlotBegan <= Slot(run.began) * MomentsPerSlot + MomentsPerSlot
    <3>1. CASE Slot(now) < Slot(run.began) + 1
      <4>1. Slot(now) <= Slot(run.began)
        BY <2>1, <3>1
      <4>2. Slot(now) = Slot(run.began) \/ Slot(now) < Slot(run.began)
        BY <2>1, <4>1
      <4>3. CASE Slot(now) < Slot(run.began)
        <5>1. Slot(now) * MomentsPerSlot + MomentsPerSlot <= Slot(run.began) * MomentsPerSlot
          BY <1>6, <4>3, LaterSlot
        <5> QED BY <2>1, <5>1, Units DEF SlotBegan
      <4>4. CASE Slot(now) = Slot(run.began)
        <5>1. SlotBegan = Slot(run.began) * MomentsPerSlot
          BY <4>4 DEF SlotBegan
        <5> QED BY <2>1, <5>1, Units
      <4> QED BY <4>2, <4>3, <4>4
    <3>2. CASE Slot(now) = Slot(run.began) + 1
      <4>1. Slot(now) * MomentsPerSlot = Slot(run.began) * MomentsPerSlot + MomentsPerSlot
        BY <2>1, <3>2, Units
      <4> QED BY <2>1, <4>1 DEF SlotBegan
    <3> QED BY <1>6, <2>1, <3>1, <3>2
  <2> QED BY <1>6, <2>1, <2>2, Units
<1>9. SlotBegan' = SlotBegan
  BY <1>1 DEF SlotBegan
<1>10. SlotBegan < h + Day
  BY <1>6, <1>7, <1>8, SlackFields, Units
<1>11. Turn(u, h + Day)'
  BY <1>9, <1>10 DEF Turn
<1>12. HourBegins(u, h)'
  BY <1>1, <1>7 DEF HourBegins
<1>13. h \in (now - Hour - 2 * MomentsPerSlot)..now /\ now < h + Hour + 2 * MomentsPerSlot
  BY <1>6, <1>7, <1>8, Units
<1> QED BY <1>1, <1>4, <1>11, <1>12, <1>13 DEF LookedOf

\* A member still ahead of the run stays ahead of it, unless the run gives
\* it up.
LEMMA StillAwaited ==
  ASSUME Types, NEW u, NEW t, NextMember(t), Awaited(u), u # t.user, Unmarked \subseteq run.todo \cup {t}
  PROVE  Awaited(u)' /\ run'.began = run.began
<1>1. PICK s \in Unmarked : s.user = u
  BY DEF Awaited
<1>2. s \in run.todo \ {t}
  BY <1>1
<1>3. Unmarked' = run.todo \ {t} /\ run'.began = run.began
  BY <1>2, NextMemberUnmarked
<1> QED BY <1>1, <1>2, <1>3 DEF Awaited

LEMMA NextMemberMoved ==
  ASSUME Types, NEW u, NEW t, NextMember(t), u \notin run.moved PROVE u \notin run'.moved
BY NextMemberRun

LEMMA LookedRun ==
  ASSUME Slack, Base, LookedAfter, NEW u \in Member,
         \/ Abort
         \/ \E t \in run.todo : Count(t) \/ CountFail(t)
         \/ \E t \in run.at : Mark(t) \/ MarkFail(t) \/ Send(t) \/ SendFail(t)
  PROVE  LookedOf(u)'
<1>0. Clock /\ Types /\ RunOK /\ LookedOf(u)
  BY DEF Base, LookedAfter
<1>1. CASE Abort
  <2>1. run'.moved = {}
    BY <1>1 DEF Abort, IdleRun
  <2>2. smooth'[u] => smooth[u] /\ u \notin {t.user : t \in Unmarked}
    BY <1>0, <1>1, UpsetFields DEF Abort, Unmarked
  <2>3. smooth'[u] => ~Awaited(u)
    BY <2>2 DEF Awaited
  <2> QED BY <1>0, <1>1, <2>1, <2>2, <2>3, LookedKept DEF Abort, userVars
<1>2. ASSUME NEW t \in run.todo, Count(t) PROVE LookedOf(u)'
  <2>1. Unmarked' = Unmarked /\ run'.moved = run.moved /\ run'.began = run.began
    BY <1>0, <1>2, CountFields DEF Unmarked
  <2>2. Awaited(u)' <=> Awaited(u)
    BY <2>1 DEF Awaited
  <2> QED BY <1>0, <1>2, <2>1, <2>2, LookedKept DEF Count, userVars, history
<1>3. ASSUME NEW t \in run.todo, CountFail(t) PROVE LookedOf(u)'
  <2>1. NextMember(t) /\ UNCHANGED <<now, ticked, prefs, sentAt, active>> /\ Unmarked \subseteq run.todo \cup {t}
    BY <1>3 DEF CountFail, WindowIntact, Unmarked
  <2>2. smooth'[u] => smooth[u] /\ u # t.user
    BY <1>0, <1>3, UpsetFields DEF CountFail
  <2> QED BY <1>0, <2>1, <2>2, StillAwaited, NextMemberMoved, LookedKept
<1>4. ASSUME NEW t \in run.at, Mark(t), u # t.user PROVE LookedOf(u)'
  <2>1. /\ t.user \in Member /\ Slot(now') = Slot(now) /\ sentAt'[u] = sentAt[u] /\ run.at = {t}
        /\ run.pc = "mark" /\ UNCHANGED <<ticked, prefs, active>>
    BY <1>0, <1>4, TargetFields, StampFields DEF Mark
  <2>2. smooth'[u] = smooth[u]
    BY <1>0, <1>4, <2>1 DEF Mark, Types
  <2>3. Unmarked = run.todo \cup {t}
    BY <2>1 DEF Unmarked
  <2>4. CASE NextMember(t)
    BY <1>0, <1>4, <2>1, <2>2, <2>3, <2>4, StillAwaited, NextMemberMoved, LookedKept
  <2>5. CASE run' = [run EXCEPT !.pc = "send"]
    <3>1. run'.pc = "send" /\ run'.todo = run.todo /\ run'.moved = run.moved /\ run'.began = run.began
      BY <1>0, <2>5 DEF Types, RunState
    <3>2. Unmarked' = run.todo
      BY <3>1 DEF Unmarked
    <3>3. Awaited(u) => Awaited(u)'
      BY <1>4, <2>3, <3>2 DEF Awaited
    <3> QED BY <1>0, <2>1, <2>2, <3>1, <3>3, LookedKept
  <2> QED BY <1>4, <2>4, <2>5 DEF Mark
<1>5. ASSUME NEW t \in run.at, MarkFail(t) PROVE LookedOf(u)'
  <2>1. smooth'[u] => smooth[u] /\ u # t.user
    BY <1>0, <1>5, UpsetFields DEF MarkFail
  <2>2. SUFFICES ASSUME u # t.user PROVE LookedOf(u)'
    BY <2>1 DEF LookedOf
  <2>3. /\ NextMember(t) /\ Slot(now') = Slot(now) /\ sentAt'[u] = sentAt[u] /\ run.at = {t}
        /\ run.pc = "mark" /\ UNCHANGED <<ticked, prefs, active>>
    BY <1>0, <1>5, <2>2, TargetFields, StampFields DEF MarkFail
  <2>4. Unmarked = run.todo \cup {t}
    BY <2>3 DEF Unmarked
  <2> QED BY <1>0, <2>1, <2>2, <2>3, <2>4, StillAwaited, NextMemberMoved, LookedKept
<1>6. ASSUME NEW t \in run.at, Send(t) \/ SendFail(t) PROVE LookedOf(u)'
  <2>1. NextMember(t) /\ UNCHANGED <<now, ticked, prefs, sentAt, active, smooth>> /\ run.pc = "send"
    BY <1>6 DEF Send, SendFail, userVars
  <2>2. Unmarked = run.todo /\ t \notin run.todo
    BY <1>0, <2>1 DEF Unmarked, RunOK
  <2>3. Awaited(u) => Awaited(u)' /\ run'.began = run.began
    <3>1. run.todo \ {t} = run.todo
      BY <2>2
    <3> QED BY <1>0, <2>1, <2>2, <3>1, NextMemberUnmarked DEF Awaited
  <2> QED BY <1>0, <2>1, <2>3, NextMemberMoved, LookedKept
<1>7. ASSUME NEW t \in run.at, Mark(t) PROVE LookedOf(u)'
  BY <1>4, <1>7, LookedMarked
<1> QED BY <1>1, <1>2, <1>3, <1>5, <1>6, <1>7

\* Members change nothing here but what is their own.
LEMMA LookedSame ==
  ASSUME NEW u \in Member, LookedOf(u),
         smooth'[u] => smooth[u], u \in active' => u \in active,
         UNCHANGED <<now, ticked, prefs, sentAt, run>>
  PROVE  LookedOf(u)'
<1>1. Awaited(u)' <=> Awaited(u)
  BY DEF Awaited, Unmarked
<1> QED BY <1>1, LookedKept

LEMMA LookedStep == ASSUME Slack, Base, LookedAfter, Next PROVE LookedAfter'
<1> SUFFICES ASSUME NEW u \in Member PROVE LookedOf(u)'
  BY DEF LookedAfter
<1>0. Clock /\ Types /\ RunOK /\ LookedOf(u)
  BY DEF Base, LookedAfter
<1>1. CASE TargetsFail
  <2>1. ~smooth'[u]
    BY <1>0, <1>1, UpsetFields DEF TargetsFail
  <2> QED BY <2>1 DEF LookedOf
<1>2. ASSUME NEW r \in Request, WritePrefs(r) PROVE LookedOf(u)'
  <2> DEFINE v == patch[r].user
  <2>1. v \in Member /\ UNCHANGED <<now, ticked, active>>
    BY <1>0, <1>2, WritePrefsFields
  <2>2. CASE UNCHANGED <<prefs, sentAt, run, fate, horizon, lastSent, smooth>>
    BY <1>0, <2>1, <2>2, LookedSame
  <2>3. CASE ~UNCHANGED <<prefs, sentAt, run, fate, horizon, lastSent, smooth>>
    <3>1. Restarts(v)
      BY <1>0, <1>2, <2>3, WritePrefsFields DEF Restarts
    <3> HIDE DEF v
    <3>2. smooth'[u] => smooth[u] /\ u # v
      BY <1>0, <3>1, UpsetFields DEF Restarts
    <3>3. SUFFICES ASSUME u # v PROVE LookedOf(u)'
      BY <3>2 DEF LookedOf
    <3>4. /\ run'.pc = run.pc /\ run'.todo = run.todo /\ run'.at = run.at /\ run'.began = run.began
          /\ u \notin run.moved => u \notin run'.moved
      BY <1>0, <2>1, <3>1, <3>3, RestartFields
    <3>5. Awaited(u)' <=> Awaited(u)
      BY <3>4 DEF Awaited, Unmarked
    <3> QED BY <1>0, <2>1, <3>1, <3>2, <3>3, <3>4, <3>5, LookedKept DEF Restarts
  <2> QED BY <2>2, <2>3
<1>3. ASSUME NEW v \in Member, SetUserStatus(v) PROVE LookedOf(u)'
  <2>1. smooth'[u] => smooth[u]
    BY <1>0, <1>3, UpsetFields DEF SetUserStatus
  <2> QED BY <1>0, <1>3, <2>1, LookedSame DEF SetUserStatus
<1>4. ASSUME NEW r \in Request, NEW v \in Member, NEW named \in Patches, ReadPrefs(r, v, named)
      PROVE  LookedOf(u)'
  BY <1>0, <1>4, LookedSame DEF ReadPrefs, userVars, history
<1>5. ASSUME NEW r \in Request, PatchFail(r) PROVE LookedOf(u)'
  BY <1>0, <1>5, LookedSame DEF PatchFail, userVars, history
<1>6. ASSUME NEW v \in Poster, BeginPost(v) PROVE LookedOf(u)'
  BY <1>0, <1>6, LookedSame DEF BeginPost, userVars, history
<1>7. ASSUME NEW v \in Member, NEW w \in Poster, SetBlock(v, w) PROVE LookedOf(u)'
  BY <1>0, <1>7, LookedSame DEF SetBlock, history
<1>8. ASSUME NEW p \in open, CommitPost(p) PROVE LookedOf(u)'
  BY <1>0, <1>8, LookedSame DEF CommitPost, userVars, history
<1> QED BY <1>1, <1>2, <1>3, <1>4, <1>5, <1>6, <1>7, <1>8, LookedTick, LookedPass, LookedRun DEF Next

LEMMA LookedIsDaily ==
  ASSUME Slack, Base, LookedAfter PROVE SummarisedDaily
<1> SUFFICES ASSUME NEW u \in Member, smooth[u], prefs[u].enabled, u \in active
             PROVE  now - sentAt[u] < Day + Hour
  BY DEF SummarisedDaily
<1>1. Clock /\ Types /\ LookedOf(u)
  BY DEF Base, LookedAfter
<1>2. PICK h \in (sentAt[u] - Hour - 2 * MomentsPerSlot)..sentAt[u] : Turn(u, h + Day)
  BY <1>1 DEF LookedOf
<1>3. /\ now \in Int /\ sentAt[u] \in Int /\ h \in Int /\ h <= sentAt[u] /\ SlotBegan \in Int
      /\ now < SlotBegan + MomentsPerSlot
  BY <1>1, <1>2, Slots, Units DEF Types, Clock, SlotBegan
<1>4. SlotBegan < h + Day + 2 * MomentsPerSlot
  BY <1>2, <1>3, Units DEF Turn
<1> QED BY <1>3, <1>4, SlackFields, Units

THEOREM LookedAtDaily == ASSUME Slack PROVE Spec => []SummarisedDaily
<1>1. Init => LookedAfter
  BY DEF Init, LookedAfter, LookedOf
<1>2. Base /\ LookedAfter /\ [Next]_vars => LookedAfter'
  <2>1. CASE Next
    BY <2>1, LookedStep
  <2>2. ASSUME Base, LookedAfter, UNCHANGED vars PROVE LookedAfter'
    BY <2>2, LookedSame DEF LookedAfter, vars, userVars, history
  <2> QED BY <2>1, <2>2
<1>3. Base /\ LookedAfter => SummarisedDaily
  BY LookedIsDaily
<1> QED BY <1>1, <1>2, <1>3, AlwaysBase, PTL DEF Spec

(* The code's numbers have the slack: a tick every ten minutes             *)
(* (digestTick), and twenty hours in the query of DigestTargets.           *)
THEOREM CodeHasSlack ==
  ASSUME SlotsPerHour = 6, HoursPerDay = 24, Quiet = 20 * Hour PROVE Slack
<1>1. MomentsPerSlot \in Nat /\ Hour = 6 * MomentsPerSlot
  BY ConstantsAssumption DEF Hour
<1>2. Day = 24 * Hour
  BY <1>1 DEF Day
<1>3. Quiet + Hour + 2 * MomentsPerSlot <= Day
  BY <1>1, <1>2
<1> QED BY <1>3 DEF Slack
=============================================================================
