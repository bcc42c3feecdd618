------------------------------- MODULE Digest -------------------------------
(***************************************************************************)
(* The daily summary.  One loop per server wakes up several times an hour, *)
(* reads which members' chosen hour it is, and for each of them counts     *)
(* what they missed, marks them as summarised, and sends, in that order    *)
(* and each in a statement of its own.  Meanwhile members post, change     *)
(* their settings, block each other and are revoked; statements and sends  *)
(* fail; the process stops between any two of them and starts again.       *)
(*                                                                         *)
(* Time is counted in moments, MomentsPerSlot to the slot and SlotsPerHour *)
(* slots to the hour: a mark takes a moment, so that a post and a mark in  *)
(* one slot still have an order.  A summary is the set of posts it counts. *)
(***************************************************************************)
EXTENDS Integers, FiniteSets

CONSTANTS
  Member,
  Poster,           \* bound on the members who post
  Request,          \* PATCH /api/me/notifications requests
  InitPrefs,        \* the digest settings members start with, by member
  Patches,          \* what a request may name: functions from fields to values
  MomentsPerSlot,   \* bound on the marks of a slot, plus one
  SlotsPerHour, HoursPerDay,
  Quiet,            \* the "20 hours" of DigestTargets, in moments
  StartTime, MaxNow,      \* bounds of the clock
  MaxPosts, MaxOpen,      \* bounds on posts, and on those being written at once
  MaxChanges        \* bound on setting changes, blocks and revocations

Hour == MomentsPerSlot * SlotsPerHour
Day == Hour * HoursPerDay
Slot(t) == t \div MomentsPerSlot
Pref == [enabled : BOOLEAN, hour : 0..(HoursPerDay - 1), offset : Int]
Field == {"enabled", "hour", "offset"}
PostId == 1..MaxPosts
Never == -1                    \* a NULL digest_sent_at

\* Requests name settings that Normalize leaves as they are.
Normalized(named) ==
  /\ DOMAIN named \subseteq Field
  /\ "enabled" \in DOMAIN named => named["enabled"] \in BOOLEAN
  /\ "hour" \in DOMAIN named => named["hour"] \in 0..(HoursPerDay - 1)
  /\ "offset" \in DOMAIN named => named["offset"] \in Int

ASSUME ConstantsAssumption ==
  /\ MomentsPerSlot \in Nat \ {0} /\ SlotsPerHour \in Nat \ {0}
  /\ HoursPerDay \in Nat \ {0}
  /\ Poster \subseteq Member
  /\ InitPrefs \in [Member -> Pref]
  /\ \A q \in Patches : Normalized(q)
  /\ Quiet \in Nat /\ Hour <= Quiet /\ Quiet <= Day - Hour
  /\ StartTime \in Nat /\ MaxNow \in Nat /\ StartTime <= MaxNow
  /\ MaxPosts \in Nat /\ MaxOpen \in Nat /\ MaxChanges \in Nat

VARIABLES
  now,        \* the clock
  ticked,     \* the ticker has fired in this slot
  prefs,      \* users.digest_enabled, digest_hour, digest_offset
  sentAt,     \* users.digest_sent_at
  active,     \* members with status 'active'
  blocked,    \* user_blocks, as pairs <<blocker, blocked>>
  posts,      \* committed posts
  open,       \* posts whose transaction has begun and not committed
  run,        \* the local state of runDigest
  patch,      \* the local state of every settings request
  changes,    \* changes made so far
  \* History, read by properties only; all of it starts over for a member
  \* whose digest window changes:
  fate,       \* what became of a post in a member's summaries
  horizon,    \* where the first window began, Never before it
  lastSent,   \* when the last summary was delivered
  smooth      \* nothing has come between a member and the loop since the mark

userVars == <<prefs, sentAt, active, blocked>>
postVars == <<posts, open>>
history == <<fate, horizon, lastSent, smooth>>
vars == <<now, ticked, userVars, postVars, run, patch, changes, history>>

Post == [id : PostId, author : Member, at : Nat]
Target == [user : Member, since : Int]
Fate == {"new", "unseen", "counted", "failed", "delivered"}
IdleRun == [pc |-> "idle", todo |-> {}, at |-> {}, missed |-> {}, seen |-> {},
            began |-> 0, moved |-> {}]
NoPatch == [pc |-> "idle"]
Untold == [p \in PostId |-> "new"]

TypeOK ==
  /\ now \in StartTime..(MaxNow + 2 * MomentsPerSlot) /\ ticked \in BOOLEAN
  /\ prefs \in [Member -> Pref]
  /\ sentAt \in [Member -> {Never} \cup StartTime..now]
  /\ active \subseteq Member /\ blocked \subseteq Member \X Member
  /\ posts \subseteq Post /\ open \subseteq Post
  /\ \A p, q \in posts \cup open : p.id = q.id => p = q
  /\ run.pc \in {"idle", "pick", "mark", "send"}
  /\ run.todo \subseteq Target /\ run.at \subseteq Target /\ Cardinality(run.at) <= 1
  /\ run.missed \subseteq run.seen /\ run.seen \subseteq PostId
  /\ run.moved \subseteq Member
  /\ \A r \in Request : patch[r].pc \in {"idle", "write"}
  /\ fate \in [Member -> [PostId -> Fate]]
  /\ horizon \in [Member -> Int] /\ lastSent \in [Member -> {Never} \cup StartTime..now]
  /\ smooth \in [Member -> BOOLEAN]

-----------------------------------------------------------------------------
Init ==
  /\ now = StartTime /\ ticked = FALSE
  /\ prefs = InitPrefs
  /\ sentAt = [u \in Member |-> Never]
  /\ active = Member /\ blocked = {}
  /\ posts = {} /\ open = {}
  /\ run = IdleRun
  /\ patch = [r \in Request |-> NoPatch]
  /\ changes = 0
  /\ fate = [u \in Member |-> Untold]
  /\ horizon = [u \in Member |-> Never]
  /\ lastSent = [u \in Member |-> Never]
  /\ smooth = [u \in Member |-> FALSE]

(* DigestTargets: it is the member's hour, and no summary is recent.       *)
LocalHour(u) == ((now + prefs[u].offset) \div Hour) % HoursPerDay
RecentWithinDay(u) == sentAt[u] # Never /\ sentAt[u] >= now - Day
RecentByMinutes(u) == sentAt[u] # Never /\ sentAt[u] >= now - Quiet \div 6
Recent(u) == sentAt[u] # Never /\ sentAt[u] >= now - Quiet
Due(u) == prefs[u].enabled /\ u \in active /\ LocalHour(u) = prefs[u].hour /\ ~Recent(u)
SinceADay(u) == now - Day
Since(u) == IF sentAt[u] = Never THEN now - Day ELSE sentAt[u]
DigestTargets == {[user |-> u, since |-> Since(u)] : u \in {v \in Member : Due(v)}}

(* The loop's process misses a member it should have served.               *)
Upset(us) == smooth' = [u \in Member |-> smooth[u] /\ u \notin us]

(* A tick: the targets are read.  Ticks come once a slot at least, and any *)
(* number of times when the process restarts.                              *)
Tick ==
  /\ run.pc = "idle"
  /\ ticked' = TRUE
  /\ run' = IF DigestTargets = {} THEN IdleRun
              ELSE [IdleRun EXCEPT !.pc = "pick", !.todo = DigestTargets, !.began = now]
  /\ UNCHANGED <<now, userVars, postVars, patch, changes, history>>

TargetsFail ==
  /\ run.pc = "idle" /\ ~ticked
  /\ ticked' = TRUE
  /\ Upset(Member)
  /\ UNCHANGED <<now, userVars, postVars, run, patch, changes, fate, horizon, lastSent>>

(* On to the next member, or out of the loop.                              *)
NextMember(t) ==
  run' = IF run.todo \ {t} = {} THEN IdleRun
         ELSE [IdleRun EXCEPT !.pc = "pick", !.todo = run.todo \ {t},
                              !.began = run.began, !.moved = run.moved]

(* CountPostsSince: what the member can see of others since the window's   *)
(* beginning.                                                              *)
Visible(u) == {p \in posts : /\ p.author # u /\ p.author \in active
                             /\ <<u, p.author>> \notin blocked}
CountPostsSince(t) == {p.id : p \in {q \in Visible(t.user) : q.at > t.since}}

Count(t) ==
  /\ run.pc = "pick" /\ t \in run.todo
  /\ run' = [run EXCEPT !.pc = "mark", !.todo = @ \ {t}, !.at = {t},
               !.missed = CountPostsSince(t), !.seen = {p.id : p \in Visible(t.user)}]
  /\ UNCHANGED <<now, ticked, userVars, postVars, patch, changes, history>>

StampNextDue(u) ==
  /\ Slot(now + 1) = Slot(now)
  /\ now' = now + 1
  /\ sentAt' = [sentAt EXCEPT ![u] = now + Day]

(* MarkDigestSent's statement.                                             *)
Stamp(u) ==
  /\ Slot(now + 1) = Slot(now)
  /\ now' = now + 1
  /\ sentAt' = [sentAt EXCEPT ![u] = now]

AfterCountError(u) == sentAt' = [sentAt EXCEPT ![u] = now]
WindowIntact(u) == UNCHANGED sentAt

CountFail(t) ==
  /\ run.pc = "pick" /\ t \in run.todo
  /\ NextMember(t)
  /\ WindowIntact(t.user)
  /\ Upset({t.user})
  /\ UNCHANGED <<now, ticked, prefs, active, blocked, postVars, patch, changes,
                 fate, horizon, lastSent>>

(* What a mark makes of the posts: those counted, and those that the count *)
(* could not see and that no later window reaches back to.                 *)
FateAtMark(u) ==
  [p \in PostId |->
     IF p \in run.missed THEN "counted"
     ELSE IF fate[u][p] = "new" /\ p \notin run.seen
               /\ \E q \in posts \cup open : q.id = p THEN "unseen"
     ELSE fate[u][p]]

(* MarkDigestSent, then the run goes on to the send, or to the next member *)
(* when nothing was missed.                                                *)
Mark(t) ==
  /\ run.pc = "mark" /\ run.at = {t}
  /\ Stamp(t.user)
  /\ IF run.missed = {} THEN NextMember(t) ELSE run' = [run EXCEPT !.pc = "send"]
  /\ fate' = [fate EXCEPT ![t.user] = FateAtMark(t.user)]
  /\ horizon' = [horizon EXCEPT ![t.user] = IF @ = Never THEN t.since ELSE @]
  /\ smooth' = [smooth EXCEPT ![t.user] = t.user \notin run.moved]
  /\ UNCHANGED <<ticked, prefs, active, blocked, postVars, patch, changes, lastSent>>

(* The mark reports an error, whether or not the database took it.         *)
MarkFail(t) ==
  /\ run.pc = "mark" /\ run.at = {t}
  /\ NextMember(t)
  /\ \/ UNCHANGED <<now, sentAt, fate, horizon>>
     \/ /\ Stamp(t.user)
        /\ fate' = [fate EXCEPT ![t.user] =
             [p \in PostId |-> IF FateAtMark(t.user)[p] = "counted" THEN "failed"
                               ELSE FateAtMark(t.user)[p]]]
        /\ horizon' = [horizon EXCEPT ![t.user] = IF @ = Never THEN t.since ELSE @]
  /\ Upset({t.user})
  /\ UNCHANGED <<ticked, prefs, active, blocked, postVars, patch, changes, lastSent>>

(* The history of a window that has changed under the run starts with the  *)
(* next one: run.moved holds the members it has changed for.               *)
Becomes(u, f) ==
  fate' = IF u \in run.moved THEN fate
          ELSE [fate EXCEPT ![u] = [p \in PostId |-> IF p \in run.missed THEN f ELSE @[p]]]

(* push.Send: the summary is delivered, or it is not (an error, no device).*)
Send(t) ==
  /\ run.pc = "send" /\ run.at = {t}
  /\ NextMember(t)
  /\ Becomes(t.user, "delivered")
  /\ lastSent' = IF t.user \in run.moved THEN lastSent
                  ELSE [lastSent EXCEPT ![t.user] = now]
  /\ UNCHANGED <<now, ticked, userVars, postVars, patch, changes, horizon, smooth>>

SendFail(t) ==
  /\ run.pc = "send" /\ run.at = {t}
  /\ NextMember(t)
  /\ Becomes(t.user, "failed")
  /\ UNCHANGED <<now, ticked, userVars, postVars, patch, changes, horizon, lastSent, smooth>>

(* The process stops, a panic is recovered, or the two minutes are up: the *)
(* members not yet marked keep their windows.                              *)
Abort ==
  /\ run.pc # "idle"
  /\ run' = IdleRun
  /\ Upset({t.user : t \in run.todo \cup IF run.pc = "mark" THEN run.at ELSE {}})
  /\ IF run.pc = "send" THEN \E t \in run.at : Becomes(t.user, "failed")
       ELSE UNCHANGED fate
  /\ UNCHANGED <<now, ticked, userVars, postVars, patch, changes, horizon, lastSent>>

-----------------------------------------------------------------------------
(* handleUpdateNotificationPrefs: the settings are read, the fields named  *)
(* by the request replaced, and all of them written back.                  *)
Merged(named, old) == [f \in Field |-> IF f \in DOMAIN named THEN named[f] ELSE old[f]]

ReadPrefs(r, u, named) ==
  /\ patch[r].pc = "idle" /\ u \in active
  /\ changes < MaxChanges /\ changes' = changes + 1
  /\ patch' = [patch EXCEPT ![r] = [pc |-> "write", user |-> u, named |-> named,
                                    prefs |-> Merged(named, prefs[u])]]
  /\ UNCHANGED <<now, ticked, userVars, postVars, run, history>>

(* SetNotificationPrefs: another window forgets the last summary.          *)
WritePrefs(r) ==
  LET u == patch[r].user
      moved == prefs[u] # patch[r].prefs
  IN  /\ patch[r].pc = "write"
      /\ prefs' = [prefs EXCEPT ![u] = patch[r].prefs]
      /\ sentAt' = IF moved THEN [sentAt EXCEPT ![u] = Never] ELSE sentAt
      /\ patch' = [patch EXCEPT ![r] = NoPatch]
      /\ run' = IF moved /\ run.pc # "idle" THEN [run EXCEPT !.moved = @ \cup {u}] ELSE run
      /\ IF ~moved THEN UNCHANGED history
           ELSE /\ fate' = [fate EXCEPT ![u] = Untold]
                /\ horizon' = [horizon EXCEPT ![u] = Never]
                /\ lastSent' = [lastSent EXCEPT ![u] = Never]
                /\ Upset({u})
      /\ UNCHANGED <<now, ticked, active, blocked, postVars, changes>>

PatchFail(r) ==
  /\ patch[r].pc = "write"
  /\ patch' = [patch EXCEPT ![r] = NoPatch]
  /\ UNCHANGED <<now, ticked, userVars, postVars, run, changes, history>>

(* SetUserStatus: a member is revoked; nothing reinstates one.             *)
SetUserStatus(u) ==
  /\ u \in active
  /\ changes < MaxChanges /\ changes' = changes + 1
  /\ active' = active \ {u}
  /\ Upset({u})
  /\ UNCHANGED <<now, ticked, prefs, sentAt, blocked, postVars, run, patch,
                 fate, horizon, lastSent>>

(* BlockUser and UnblockUser.                                              *)
SetBlock(u, v) ==
  /\ u # v /\ changes < MaxChanges /\ changes' = changes + 1
  /\ blocked' = IF <<u, v>> \in blocked THEN blocked \ {<<u, v>>} ELSE blocked \cup {<<u, v>>}
  /\ UNCHANGED <<now, ticked, prefs, sentAt, active, postVars, run, patch, history>>

(* CreatePost: created_at is when the transaction began, and the post is   *)
(* there for others when it commits.                                       *)
BeginPost(u) ==
  LET id == Cardinality(posts \cup open) + 1
  IN  /\ u \in active /\ id <= MaxPosts /\ Cardinality(open) < MaxOpen
      /\ open' = open \cup {[id |-> id, author |-> u, at |-> now]}
      /\ UNCHANGED <<now, ticked, userVars, posts, run, patch, changes, history>>

CommitPost(p) ==
  /\ open' = open \ {p} /\ posts' = posts \cup {p}
  /\ UNCHANGED <<now, ticked, userVars, run, patch, changes, history>>

(* The clock.  A run is cut off after two minutes, so at most one slot     *)
(* ends in the middle of it; a slot without a tick is an outage.           *)
Pass ==
  /\ now < MaxNow /\ now' = (Slot(now) + 1) * MomentsPerSlot
  /\ run.pc = "idle" \/ Slot(run.began) = Slot(now)
  /\ ticked' = FALSE
  /\ IF ticked THEN UNCHANGED smooth ELSE Upset(Member)
  /\ UNCHANGED <<userVars, postVars, run, patch, changes, fate, horizon, lastSent>>

Next ==
  \/ Tick \/ TargetsFail \/ Abort \/ Pass
  \/ \E t \in run.todo : Count(t) \/ CountFail(t)
  \/ \E t \in run.at : Mark(t) \/ MarkFail(t) \/ Send(t) \/ SendFail(t)
  \/ \E r \in Request, u \in Member, named \in Patches : ReadPrefs(r, u, named)
  \/ \E r \in Request : WritePrefs(r) \/ PatchFail(r)
  \/ \E u \in Member : SetUserStatus(u)
  \/ \E u \in Poster : BeginPost(u)
  \/ \E u \in Member, v \in Poster : SetBlock(u, v)
  \/ \E p \in open : CommitPost(p)

Spec == Init /\ [][Next]_vars

-----------------------------------------------------------------------------
(* Properties.                                                             *)

(* digest.go, "a late or repeated tick can't double-send": while a member  *)
(* keeps the same window, two summaries are more than Quiet apart, even    *)
(* when the run that sends the second was begun long before, or the        *)
(* process restarted in between.                                           *)
OneSummaryPerDay ==
  [][\A u \in Member :
       lastSent'[u] # lastSent[u] /\ lastSent'[u] # Never /\ lastSent[u] # Never
         => now > lastSent[u] + Quiet - MomentsPerSlot]_vars

(* A member with the same window is never told of a post twice: the next   *)
(* window begins where the last one was marked.                            *)
NeverToldTwice ==
  [][\A u \in Member, p \in PostId :
       fate[u][p] \in {"failed", "delivered"} => fate'[u][p] \in {fate[u][p], "new"}]_vars

(* Between a member's first window and the last mark there is no post that *)
(* the counts could see and did not count: an error before the mark leaves *)
(* the window where it was.                                                *)
WindowsTile ==
  \A u \in Member, p \in posts :
    /\ sentAt[u] # Never /\ p.author # u
    /\ horizon[u] < p.at /\ p.at <= sentAt[u]
    => fate[u][p.id] # "new"

(* A member nothing interferes with is looked at every day: the quiet time *)
(* is short enough that a late summary does not cost the next day's.       *)
SummarisedDaily ==
  \A u \in Member :
    smooth[u] /\ prefs[u].enabled /\ u \in active => now - sentAt[u] < Day + Hour

(* digest.go: "a send that fails after this point is simply rolled into    *)
(* tomorrow's count", so its posts are still ahead of the next window.     *)
FailedSendRollsOver ==
  \A u \in Member, p \in posts :
    fate[u][p.id] = "failed" => sentAt[u] = Never \/ p.at > sentAt[u]

(* push_handlers.go: "Omitted fields keep their current value".            *)
OmittedFieldsKept ==
  [][\A r \in Request : \A f \in Field :
       /\ patch[r].pc = "write" /\ patch'[r].pc = "idle"
       /\ f \notin DOMAIN patch[r].named
       => prefs'[patch[r].user][f] = prefs[patch[r].user][f]]_vars
=============================================================================
