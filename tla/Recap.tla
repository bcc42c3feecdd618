------------------------------- MODULE Recap -------------------------------
(***************************************************************************)
(* The group recap: a post that sums up a period.  A scheduler tick makes  *)
(* one for the group's standing cadence; an admin can also ask for one.    *)
(* Every job (a tick of a server process, or an admin's request) runs as   *)
(* a sequence of database statements, and jobs interleave between them.    *)
(* What makes a recap unique is decided inside CreateRecapPost, in one     *)
(* transaction that holds an advisory lock; everything read before it is   *)
(* only a hint that may be stale by the time it is used.                   *)
(*                                                                         *)
(* Time is counted in slots: SlotsPerHour slots make an hour.  The content *)
(* of a recap (cards, awards, wording) is abstracted to the check-ins of   *)
(* its period, and a title pass to the period it ran over.                 *)
(***************************************************************************)
EXTENDS Integers, FiniteSets

CONSTANTS
  Scheduler,        \* scheduler loops, one per running server process
  Request,          \* admin requests to POST /api/admin/recap
  Member,           \* members who post check-ins
  Settings,         \* recap settings the host may store
  ManualPeriods,    \* periods an admin may ask for
  SlotsPerHour, HoursPerDay, DaysPerWeek,
  FirstOfMonth(_),  \* is this local day the first of its month
  MonthBefore(_),   \* the instant one calendar month earlier
  MinCheckIns(_),   \* RecapMinCheckIns by cadence
  MinPosts, MinPosters,   \* BuildRecap's quality bar
  Since,            \* recap_since, stamped by the migration
  StartTime, MaxNow,      \* bounds of the clock
  MaxCheckIns,      \* bound on check-ins
  MaxActive,        \* bound on jobs running at once
  MaxRecaps         \* bound on recap posts ever inserted

Job == Scheduler \cup Request
Cadence == {"off", "weekly", "monthly", "custom"}
Origin == {"scheduled", "manual"}
PostId == 1..MaxRecaps
None == 0                          \* no post: the nil *int64 of replacePostID

Setting == [cadence : {"off", "weekly", "monthly"}, weekday : Nat,
            hour : Nat, offset : Int]
Period == [start : Int, end : Int]
RecapSpec == [cadence : Cadence, origin : Origin, start : Int, end : Int]

ASSUME ConstantsAssumption ==
  /\ Scheduler \cap Request = {}
  /\ Settings \subseteq Setting
  /\ ManualPeriods \subseteq Period
  /\ SlotsPerHour \in Nat \ {0} /\ HoursPerDay \in Nat \ {0}
  /\ DaysPerWeek \in Nat \ {0}
  /\ MaxRecaps \in Nat /\ StartTime \in Nat /\ MaxNow \in Nat /\ Since \in Int
  /\ StartTime <= MaxNow
  /\ \A t \in -SlotsPerHour..MaxNow : MonthBefore(t) \in Int

VARIABLES
  now,        \* the clock
  settings,   \* server_config's recap columns
  checkins,   \* posts with kind <> 'recap' of active authors
  recaps,     \* the recaps table joined with its posts
  created,    \* post ids handed out to recaps so far
  titled,     \* the period of the last BestowTitles, or NoPeriod
  job,        \* the local state of every tick and request
  notifying,  \* recap posts whose notifyRecap goroutine has not run yet
  \* History, read by properties only:
  birth,      \* post id -> the job that inserted it: spec, settings, target
  pushes      \* post id -> how many times it was pushed

dbVars == <<settings, checkins, recaps, created, titled>>
history == <<birth, pushes>>
vars == <<now, dbVars, job, notifying, history>>

NoPeriod == [start |-> 0, end |-> 0]
NoSetting == [cadence |-> "off", weekday |-> 0, hour |-> 0, offset |-> 0]
NoSpec == [cadence |-> "off", origin |-> "manual", start |-> 0, end |-> 0]
Idle == [pc |-> "idle", spec |-> NoSpec, by |-> NoSetting, replace |-> None,
         bestow |-> FALSE, dup |-> FALSE, post |-> None]

Row == [post : PostId, spec : RecapSpec]
Birth == [spec : RecapSpec, by : Setting, replace : PostId \cup {None}]
Pc == {"idle", "exists", "count", "build", "lock", "check", "write", "finish"}
JobState == [pc : Pc, spec : RecapSpec, by : Setting, replace : PostId \cup {None},
             bestow : BOOLEAN, dup : BOOLEAN, post : PostId \cup {None}]

TypeOK ==
  /\ now \in StartTime..MaxNow
  /\ settings \in Setting
  /\ checkins \subseteq [author : Member, at : Nat]
  /\ recaps \subseteq Row
  /\ created \in 0..MaxRecaps
  /\ titled \in Period
  /\ job \in [Job -> JobState]
  /\ \A j \in Job : job[j].pc = "finish" => job[j].post \in 1..created
  /\ \A r \in recaps : r.post <= created
  /\ notifying \subseteq 1..created
  /\ birth \in [PostId -> Birth]
  /\ pushes \in [PostId -> Nat]

-----------------------------------------------------------------------------
(* recapDuePeriod: the group's local hour and day, and the period ending   *)
(* at the top of that local hour.                                          *)

Local(s, t) == t + s.offset
LocalHour(s, t) == (Local(s, t) \div SlotsPerHour) % HoursPerDay
LocalDay(s, t) == Local(s, t) \div (SlotsPerHour * HoursPerDay)
Week == SlotsPerHour * HoursPerDay * DaysPerWeek

Due(s, t) ==
  /\ LocalHour(s, t) = s.hour
  /\ \/ s.cadence = "weekly" /\ LocalDay(s, t) % DaysPerWeek = s.weekday
     \/ s.cadence = "monthly" /\ FirstOfMonth(LocalDay(s, t))

TickTime(s, t) == t
TopOfHour(s, t) == t - (Local(s, t) % SlotsPerHour)

DuePeriod(s, t) ==
  LET end == TopOfHour(s, t)
  IN  [start |-> IF s.cadence = "monthly" THEN MonthBefore(end) ELSE end - Week,
       end |-> end]

(* What recapCandidates and CountRecapCheckIns select.                     *)
Candidates(p) == {c \in checkins : p.start <= c.at /\ c.at < p.end}

QualityBar(p) ==
  /\ Cardinality(Candidates(p)) >= MinPosts
  /\ Cardinality({c.author : c \in Candidates(p)}) >= MinPosters

(* findRecapDuplicate, FindManualRecap and RecapExistsForPeriod agree on   *)
(* what the same recap is: cadence and start for a scheduled one, the      *)
(* period for a manual one (v1 has one panel set).                         *)
SameRecap(a, b) ==
  /\ a.origin = b.origin
  /\ a.start = b.start
  /\ \/ a.origin = "scheduled" /\ a.cadence = b.cadence
     \/ a.origin = "manual" /\ a.end = b.end

SamePeriod(spec) ==
  {r \in recaps : r.spec.start = spec.start /\ r.spec.end = spec.end}
Duplicates(spec) == {r \in recaps : SameRecap(r.spec, spec)}

(* recapLockKey: the key is what SameRecap compares, so two jobs share a   *)
(* key exactly when their recaps would be the same.                        *)
LockScheduledOnly(a, b) == a.origin = "scheduled" /\ SameRecap(a, b)
SameLock(a, b) == SameRecap(a, b)
InTransaction(j) == job[j].pc \in {"check", "write"}
NoLock(j) == TRUE
LockFree(j) == \A k \in Job \ {j} :
                 ~(InTransaction(k) /\ SameLock(job[k].spec, job[j].spec))

(* recaps_scheduled_idx, the partial unique index.                         *)
IndexAllows(spec) ==
  spec.origin = "scheduled" =>
    \A r \in recaps : r.spec.origin = "scheduled" =>
       <<r.spec.cadence, r.spec.start>> # <<spec.cadence, spec.start>>

-----------------------------------------------------------------------------
Init ==
  /\ now = StartTime
  /\ settings \in Settings
  /\ checkins = {}
  /\ recaps = {}
  /\ created = 0
  /\ titled = NoPeriod
  /\ job = [j \in Job |-> Idle]
  /\ notifying = {}
  /\ birth = [p \in PostId |-> [spec |-> NoSpec, by |-> NoSetting, replace |-> None]]
  /\ pushes = [p \in PostId |-> 0]

(* The bounds on recap posts and on jobs under way at once.                *)
WithinBound ==
  /\ created < MaxRecaps
  /\ Cardinality({j \in Job : job[j].pc # "idle"}) < MaxActive

Goto(j, pc) == job' = [job EXCEPT ![j].pc = pc]
Return(j) == job' = [job EXCEPT ![j] = Idle]

(* runRecapTick up to the backfill guard: settings and clock are read, and *)
(* the tick goes on only if a period is due and does not predate Since.    *)
Tick(j) ==
  /\ job[j].pc = "idle"
  /\ WithinBound
  /\ settings.cadence # "off"
  /\ Due(settings, now)
  /\ DuePeriod(settings, now).start >= Since
  /\ LET p == DuePeriod(settings, now) IN
     job' = [job EXCEPT ![j] =
       [Idle EXCEPT !.pc = "exists", !.by = settings,
          !.spec = [cadence |-> settings.cadence, origin |-> "scheduled",
                    start |-> p.start, end |-> p.end]]]
  /\ UNCHANGED <<now, dbVars, notifying, history>>

(* RecapExistsForPeriod, the cheap pre-check.                              *)
PreCheck(j) ==
  /\ job[j].pc = "exists"
  /\ IF Duplicates(job[j].spec) # {} THEN Return(j) ELSE Goto(j, "count")
  /\ UNCHANGED <<now, dbVars, notifying, history>>

(* generateScheduledRecap's quiet-period gate.                             *)
CountGate(j) ==
  /\ job[j].pc = "count"
  /\ IF Cardinality(Candidates(job[j].spec)) < MinCheckIns(job[j].spec.cadence)
       THEN Return(j) ELSE Goto(j, "build")
  /\ UNCHANGED <<now, dbVars, notifying, history>>

(* handleGenerateRecap up to FindManualRecap, which already answers 409    *)
(* when the recap exists and the request does not ask to replace it.  Of   *)
(* several it names the one with the latest created_at: a transaction's    *)
(* start, which is in no fixed relation to the order of the ids.           *)
Ask(j, p, replace, bestow) ==
  LET spec == [cadence |-> "custom", origin |-> "manual",
               start |-> p.start, end |-> p.end]
      found == Duplicates(spec)
  IN  /\ job[j].pc = "idle"
      /\ found = {} \/ replace
      /\ WithinBound
      /\ \E target \in IF found = {} THEN {None} ELSE {r.post : r \in found} :
           job' = [job EXCEPT ![j] =
             [Idle EXCEPT !.pc = "build", !.spec = spec,
                          !.replace = target, !.bestow = bestow]]
      /\ UNCHANGED <<now, dbVars, notifying, history>>

(* BuildRecap: ErrRecapEmpty ends the job.                                 *)
Build(j) ==
  /\ job[j].pc = "build"
  /\ IF QualityBar(job[j].spec) THEN Goto(j, "lock") ELSE Return(j)
  /\ UNCHANGED <<now, dbVars, notifying, history>>

(* CreateRecapPost, first statement: pg_advisory_xact_lock.                *)
Lock(j) ==
  /\ job[j].pc = "lock"
  /\ LockFree(j)
  /\ Goto(j, "check")
  /\ UNCHANGED <<now, dbVars, notifying, history>>

(* CreateRecapPost, second statement: findRecapDuplicate under the lock.   *)
(* A duplicate ends a scheduled job and a request that replaces nothing.   *)
Check(j) ==
  LET dup == Duplicates(job[j].spec) # {}
  IN  /\ job[j].pc = "check"
      /\ IF dup /\ (job[j].spec.origin = "scheduled" \/ job[j].replace = None)
           THEN Return(j)
           ELSE job' = [job EXCEPT ![j].pc = "write", ![j].dup = dup]
      /\ UNCHANGED <<now, dbVars, notifying, history>>

(* What CreateRecapPost hands back: the id of the new post.                *)
InsertedNoId(j, id) == [job[j] EXCEPT !.pc = "finish", !.post = job[j].replace]
Inserted(j, id) == [job[j] EXCEPT !.pc = "finish", !.post = id]

(* CreateRecapPost, the writes and the commit, which frees the lock: the   *)
(* replaced post goes (its row cascades) and the new one comes in.  The    *)
(* unique index turns a second scheduled row into an error.  notifyRecap   *)
(* is started unless the insertion replaced a post; a scheduled job starts *)
(* it after its title pass.                                                *)
Write(j) ==
  LET id == created + 1
      target == job[j].replace
  IN  /\ job[j].pc = "write"
      /\ created < MaxRecaps
      /\ IndexAllows(job[j].spec)
      /\ recaps' = {r \in recaps : r.post # target}
                     \cup {[post |-> id, spec |-> job[j].spec]}
      /\ created' = id
      /\ job' = [job EXCEPT ![j] = Inserted(j, id)]
      /\ birth' = [birth EXCEPT ![id] =
           [spec |-> job[j].spec, by |-> job[j].by, replace |-> target]]
      /\ UNCHANGED <<now, settings, checkins, titled, notifying, pushes>>

(* After the insertion: BestowTitles (always for a scheduled recap, on     *)
(* request for a manual one, and its failure changes nothing) and the      *)
(* notification (never for a replacement).                                 *)
AlwaysNotifies(j) == TRUE
Notifies(j) == job[j].replace = None
Bestows(j) == job[j].spec.origin = "scheduled" \/ job[j].bestow

Retitled(j) == titled' = [start |-> job[j].spec.start, end |-> job[j].spec.end]

Finish(j) ==
  /\ job[j].pc = "finish"
  /\ titled' = titled \/ (Bestows(j) /\ Retitled(j))
  /\ notifying' = IF Notifies(j) THEN notifying \cup {job[j].post} ELSE notifying
  /\ Return(j)
  /\ UNCHANGED <<now, settings, checkins, recaps, created, history>>

(* A statement fails, the two-minute budget runs out, or the process dies: *)
(* the job ends where it is and an open transaction is rolled back.  A     *)
(* scheduled job may have given out the titles by then.                    *)
Abort(j) ==
  /\ job[j].pc # "idle"
  /\ \/ titled' = titled
     \/ job[j].pc = "finish" /\ job[j].spec.origin = "scheduled" /\ Retitled(j)
  /\ Return(j)
  /\ UNCHANGED <<now, settings, checkins, recaps, created, notifying, history>>

(* notifyRecap: one push to every active member, or none when it fails.    *)
Notify(p) ==
  /\ p \in notifying
  /\ notifying' = notifying \ {p}
  /\ pushes' \in {pushes, [pushes EXCEPT ![p] = @ + 1]}
  /\ UNCHANGED <<now, dbVars, job, birth>>

-----------------------------------------------------------------------------
(* The rest of the program, as far as recaps see it.                       *)

(* handleUpdateServer stores new recap settings.                           *)
ChangeSettings(s) ==
  /\ s # settings
  /\ settings' = s
  /\ UNCHANGED <<now, checkins, recaps, created, titled, job, notifying, history>>

CheckIn(m) ==
  /\ Cardinality(checkins) < MaxCheckIns
  /\ [author |-> m, at |-> now] \notin checkins
  /\ checkins' = checkins \cup {[author |-> m, at |-> now]}
  /\ UNCHANGED <<now, settings, recaps, created, titled, job, notifying, history>>

(* A check-in leaves the candidates: deleted, or its author revoked.       *)
RemoveCheckIn(c) ==
  /\ checkins' = checkins \ {c}
  /\ UNCHANGED <<now, settings, recaps, created, titled, job, notifying, history>>

(* deletePost on a recap: its recaps row goes by cascade.                  *)
DeleteRecap(r) ==
  /\ recaps' = recaps \ {r}
  /\ UNCHANGED <<now, settings, checkins, created, titled, job, notifying, history>>

Pass ==
  /\ now < MaxNow
  /\ now' = now + 1
  /\ UNCHANGED <<dbVars, job, notifying, history>>

Step(j) == PreCheck(j) \/ CountGate(j) \/ Build(j) \/ Lock(j) \/ Check(j)
             \/ Write(j) \/ Finish(j) \/ Abort(j)

Next ==
  \/ \E j \in Scheduler : Tick(j)
  \/ \E j \in Request, p \in ManualPeriods, replace, bestow \in BOOLEAN :
       Ask(j, p, replace, bestow)
  \/ \E j \in Job : Step(j)
  \/ \E p \in notifying : Notify(p)
  \/ \E s \in Settings : ChangeSettings(s)
  \/ \E m \in Member : CheckIn(m)
  \/ \E c \in checkins : RemoveCheckIn(c)
  \/ \E r \in recaps : DeleteRecap(r)
  \/ Pass

Spec == Init /\ [][Next]_vars

-----------------------------------------------------------------------------
(* Properties.                                                             *)

(* What findRecapDuplicate answered under the lock is still true when the  *)
(* insertion runs, whatever other jobs, deletions and setting changes do   *)
(* in between: no recap of the same key has appeared.                      *)
CheckHolds ==
  \A j \in Job : job[j].pc = "write" /\ ~job[j].dup => Duplicates(job[j].spec) = {}

(* Weekly recaps made under the same settings never cover the same moment: *)
(* a late tick, a repeated tick or a second process computes the same      *)
(* window, because its end is the top of the hour and not the tick's time. *)
WeeklyWindowsDisjoint ==
  \A a, b \in recaps :
    /\ a # b
    /\ a.spec.cadence = "weekly" /\ b.spec.cadence = "weekly"
    /\ birth[a.post].by = birth[b.post].by
    => a.spec.end <= b.spec.start \/ b.spec.end <= a.spec.start

(* Two manual recaps of one period exist only if one of them was inserted  *)
(* as a replacement: without replace the lock-guarded check keeps them     *)
(* apart however the requests interleave.                                  *)
ManualDuplicateNeedsReplace ==
  \A a, b \in recaps :
    a # b /\ a.spec.origin = "manual" /\ SameRecap(a.spec, b.spec)
      => birth[a.post].replace # None \/ birth[b.post].replace # None

(* A replacement removes only a recap of the same period: the id it read   *)
(* before building the deck has not come to name another recap.            *)
ReplaceTargetsSameRecap ==
  \A j \in Job : job[j].pc = "write" =>
    \A r \in recaps : r.post = job[j].replace => SameRecap(r.spec, job[j].spec)

(* Members are buzzed at most once for a recap post and never for one that *)
(* replaced another.                                                       *)
PushedOnceAndNeverForReplace ==
  \A p \in PostId : pushes[p] <= IF birth[p].replace = None THEN 1 ELSE 0

(* CreateRecapPost, statement by statement under its lock, implements the  *)
(* ledger in which checking and inserting is one step.                     *)
Ledger == INSTANCE RecapLedger WITH
            rows <- recaps, last <- created, Same <- SameRecap,
            replaced <- IF created = 0 THEN None ELSE birth[created].replace
LedgerSpec == Ledger!Spec

(* 0018_recap.sql: "one SCHEDULED recap per period, ever".  Deleting the   *)
(* recap deletes the row every check looks for.                            *)
OneScheduledEver ==
  \A p, q \in 1..created :
    p # q /\ birth[p].spec.origin = "scheduled" => ~SameRecap(birth[p].spec, birth[q].spec)

(* "a duplicate request for the same (periodStart, periodEnd, panels) is   *)
(* confirmed, never silently duplicated": no two manual recaps of a period *)
(* are in the feed at once.                                                *)
NeverSilentlyDuplicated ==
  \A a, b \in recaps :
    a # b /\ a.spec.origin = "manual" => ~SameRecap(a.spec, b.spec)
=============================================================================
