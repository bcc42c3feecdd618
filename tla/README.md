# Check-In in TLA+

A verification project for the Check-In server (`src/server`, Go on PostgreSQL);
of its app (`src/app`, Flutter) only the reading of lists page by page is in it. One server serves one group of
people who sign up by invitation, post check-ins with photos and clips, and get
a daily summary and a weekly or monthly recap.

The server is stateless but for three loops and a few in-process maps: state is
in PostgreSQL and in a directory of files. Most handlers are **sequences of
statements, each its own transaction at READ COMMITTED**, so the interesting
behaviour is what other requests, loops and crashes do between two statements.
The modules model the handlers at that grain.

## The system

| Part | Source | State | Operations |
|---|---|---|---|
| Recap | `api/recap.go`, `db/recap.go`, `0018_recap.sql` | `recaps` + `posts`, `server_config.recap_*`, `users.title` | tick every 10 min, admin request (confirm / replace), title pass, push |
| Daily summary | `api/digest.go`, `0013_digest.sql` | `users.digest_*` | tick, count, mark, send; settings PATCH |
| Media | `api/media_handlers.go`, `storage/`, `db/queries.go` | `media`, `post_media`, `comments.media_id`, `users.profile_media_id`, files | upload, poster, attach, photo, delete post / comment / account |
| Membership | `api/auth_handlers.go`, `admin_handlers.go`, `debug_handlers.go`, `moderation_handlers.go` | `users`, `allowed_phones`, `server_config.initialized` | signup, invite, remove, revoke, promote, delete account |
| Sessions, passwords, reset codes | `auth/`, `api/auth_handlers.go`, `helpers.go` | `sessions`, `users.reset_*` | login, logout, slide, reset |
| Posts, feed, activity | `content_handlers.go`, `db/queries.go`, `db/activity.go` | `posts`, `comments`, `likes`, `activity_seen_at` | create, comment, reply, like, delete, page |
| Blocks and reports | `moderation_handlers.go` | `user_blocks`, `content_reports` | block, unblock, report, dismiss |
| Push | `push/`, `push_handlers.go` | device tokens, `users.notify_*`, relay key | register, choose devices, send |
| Rate limits, routing | `ratelimit.go`, `server.go` | buckets in memory | allow, evict |
| Derived views | `timeline.go`, `events*.go`, `memories.go`, `forgotten.go`, `places.go`, `recap_select.go` | none, but for `users.title` | each page is computed when it is opened |
| Gazetteer | `gazetteer/`, `places.go` | `gazetteer_cache`, the file found at the first use | look up, store |
| App | `app/lib/state` and the screens | group list, tokens, overlays | restore, hydrate, add, sign out, expire, remove, like |

How they meet. A recap counts check-ins and is itself a post: deleting the post
deletes the recap row by cascade. The summary counts posts of others that are
visible through blocks and revocations. Posts, comments and profile photos
share media rows, and deleting any of them, or an account, collects the rows
nothing refers to. A like, a comment or a block changes what every other member is shown
and told, and every derived view. Deleting an account takes its invite with it, and promoting,
revoking and inviting decide who can do any of this. Pushes are started in
goroutines after the commit and may be lost.

What is hard: two loops or requests in one due hour; a value read before an
expensive step (building a deck, hashing a password) and used after it; a
transaction's start time used as its order; a lock taken by one statement and
waited for by another; two stores (rows, files) with no common transaction; a
process that stops between any two of these; a list that changes while it is
read; one rule written twice, in Go and in SQL, or once for the phone that
rings and once for the list that is opened. `PROJECT.json` lists each hazard
at its line.

### What makes each part correct

- Recap: one recap per period and kind, whatever overlaps; windows that neither
  overlap nor leave gaps; a replacement takes exactly the recap it names; a push once.
- Summary: every post a member may see is told once or explicitly lost; at most
  one summary a day, and no day without the loop looking.
- Media: a row never outlives its file; a file without a row is one of the known
  leaks; nobody's attachment disappears because of somebody else.
- Membership: an invite lets in one person; nobody is refused over a stale flag;
  somebody can still administer the group.
- Sessions: a session in use is not lost and none passes its absolute age; a
  reset ends the sessions of earlier passwords; a redeemed or guessed-out code is dead.
- Derived views: what happened together is told, whole, once, and in one place;
  a list and the page behind each of its lines agree; a cap leaves nobody out
  while there is room; what a viewer's blocks hide, they hide everywhere.
- Gazetteer: a good answer stays; a bad one is a real "no such place".
- Threads: everyone is told of what concerns them, once; what rang and what is
  listed agree, through blocks, revocations and deletions.
- Reading: nothing twice and nothing skipped at a page boundary; it ends.

## The modules

### Recap, RecapLedger, RecapCalendar, RecapProofs

`Recap` is the state machine of all recap jobs. A job is a tick of a server
process (`Scheduler`) or an admin's request (`Request`); its `pc` says which
statement is next.

| Action | Code |
|---|---|
| `Tick` | `runRecapTick`: settings, clock, `recapDuePeriod`, backfill guard |
| `PreCheck` | `RecapExistsForPeriod` |
| `CountGate` | `CountRecapCheckIns` against `RecapMinCheckIns` |
| `Ask` | `handleGenerateRecap` up to `FindManualRecap` and its 409 |
| `Build` | `BuildRecap` and its quality bar |
| `Lock`, `Check`, `Write` | the transaction of `CreateRecapPost`: advisory lock, `findRecapDuplicate`, the writes and the commit |
| `Finish`, `Notify` | `BestowTitles` and the `notifyRecap` goroutine |
| `Abort` | an error, the two-minute budget, a crash |
| `ChangeSettings`, `CheckIn`, `RemoveCheckIn`, `DeleteRecap`, `Pass` | the rest of the program and the clock |

`RecapLedger` says what `CreateRecapPost` promises: looking for a recap and
inserting one is a single step. `Recap` implements it under
`rows <- recaps, last <- created, Same <- SameRecap` (`LedgerSpec`).
`RecapCalendar` gives the parameters `FirstOfMonth` and `MonthBefore` their
meaning on the real calendar: `AddDate(0, -1, 0)` with its normalisation.

Abstracted: a recap's cards to the check-ins of its period, panels to one set
(v1 has one), a title pass to its period, 19:00 on Mondays to slots, hours and
weeks of any size. `birth` and `pushes` are history, read by properties only.

### Digest, DigestProofs

The loop (`Tick`, `Count`, `Mark`, `Send` and their failures), the settings
request (`ReadPrefs`, `WritePrefs`), and what changes under them: posts that
begin and commit, blocks, revocations, the clock. `run` is the loop's local
state: the members still to do, the member it is at, what it counted. Deleting
a post is left out: it only removes posts the properties speak of. `fate`,
`horizon`, `lastSent` and `smooth` are history; they start over for a member
whose window a settings change has reset, as the code resets `digest_sent_at`.

### MediaStore, MediaStoreProofs

Uploads, posters, attachments, photos and the three deletions at the grain of
statements, with the row locks that decide who waits for whom: an insertion's
key-share lock on the rows it refers to (`KeyShared`), and a deletion's lock on
the rows it removes (`Dying`). `Orphan` is the condition of
`deleteOrphanMedia`, `Decide` evaluates it and `Remove` deletes the row after
waiting: PostgreSQL does not evaluate a subquery on other tables again after a
wait for a row that was only locked, so a reference that committed meanwhile is
lost (`raced`, and `MediaRaced.cfg`). `Crash` drops all requests; `Rollback`
one. A poster whose upload was reported as failed and yet taken (`torn`) loses
its file; the code cannot tell that case from a failure.

### Accounts, AccountsProofs

Signup (`ReadInitialized`, `ReadAllowed`, `ReadRegistered`, `CreateUser`,
`Mark`), the administrator's and the operator's requests, and account deletion
(`CheckOtherAdmin`, `DeleteInvite`, `DeleteUser`). An admin acts on the row
read at authentication. `uses`, `late` and `uninvited` are history. Passwords
and sessions are not in it: any active account may send a request.

### Sessions, SessionsProofs, ResetProofs

Passwords and codes are hashed slowly, between the statement that reads the
stored hash and the one that acts on the outcome; there requests overlap.
`Login` reads the account and `CreateSession` inserts the session later;
`Redeem` reads code, expiry and attempts, then `BumpResetAttempt`, or
`SetPasswordAndClearReset`, `Purge` (sign out everywhere), `Reload` and
`CreateSession`. `Revoke` and `Kick` are the two statements of a revocation;
`Authenticate` and `ExtendSession` those of every authenticated request, on the
clock read between them; `Cleanup` is the hourly purge; `Cut` ends a request
anywhere. A password is the number of times it was set, a code a number, a
wrong guess `NoCode`. `good`, `guesses` and `redeemed`, and the last three
columns of a session, are history: `good[t]` is the moment until which the last use of a session promised
to keep it. Left out: the session a signup starts with, and the cascade of an
account's deletion.

Two exceptions in the proved properties are what the code does, and the
violated ones are without them: two requests that are both past the check of
one code both set a password (`RedeemedCodesAreDead` speaks of checks made after
a redemption, `CodesSetOnce` of all), and a login that read the old password may
make its session after the reset has deleted the others (`OldSessionsEnd`). A
signing out that fails or is cancelled is excepted only: the code ignores it on
purpose.

### Ranking, Events, Places, RecapCards, Timeline

The derived views are pure functions of the rows a query fetched and of the
present, and so are these modules: operators and no variables. `Ranking` is
`sort.Slice` with a strict order, followed by a cut, and the filtering of a list
in its order (`kept`: what the library's `SelectSeq` returns, which is defined
by recursion that the prover does not expand).

| Module | Code |
|---|---|
| `Events` | `events_cluster.go`, `events.go`: `computeHomeBases`, `computeHomeArea`, `detectTrips` (runs of days, cut by pause and span), `buildTripIfQualifies`, `detectGatherings` over what the trips left, `buildEvent`, the order and cut of the page |
| `Places` | `places.go`, `gazetteer.go`: grouping by normalised label, `buildPlaceStats`, the gazetteer's tiers, and the three passes of the coordinates: measured or unambiguous, dominant, nearest to what is known |
| `RecapCards` | `recap_select.go`, `recap.go`: the wall of cards, the roster, the figures, the deck filtered for a viewer, the nine awards and the title each member gets |
| `Timeline` | `timeline.go`, `memories.go`, `forgotten.go`: months and their pages, a random memory, a forgotten photo (the rule in Go and the one in SQL) |

Functions defined by recursion are recursive functions (`runStarts`) and folds.
Abstracted: labels are numbers, of which 2n and 2n + 1 spell place n; positions
lie on a line, since only distances between them are compared; a month has a
fixed number of ticks and a day too; captions, sizes and texts are left out.

### Journal, JournalProofs

The state machine under those functions. Members check in (`CheckIn`, `Wait`),
delete, like and comment; the viewer blocks; a member is revoked;
`BestowTitles` gives the period's titles. `Miss` and `Store` are the two halves
of `candidatesCached`, read file and `INSERT ... ON CONFLICT DO NOTHING`, of
several readers at once, with failing reads, and `Restart` starts the process
with or without the file. **Every page is evaluated in every reachable state**:
the properties speak of `Told`, `PlacesTold`, `Wall`, `Deck` as they would be
shown then. `MCJournal` gives eight short histories ("scenes"): a week of travels,
a first visit with deletions and a block, places resolved in four ways, two
racing readers with restarts, and two recap weeks.

### Threads, ThreadsProofs

Comments, replies, likes, blocks and the pushes they cause, per statement.
`Arrive` is authentication and what the handler reads before it writes
(`PostVisible`); `CheckParent` is `ParentCommentForPost`; `Begin` starts the
insertion, whose start time the row is stamped with; `Commit` makes it visible
or fails on a foreign key, and hands the push to a goroutine. `Serve` is a
request of one statement or transaction (deletions with their cascades, unlike,
block, unblock, device registration, settings, revocation). `Notify` is the
goroutine: **it chooses the devices from the tables as they are by then**
(`TokensForReply`, `TokensForCommentReply`, `TokensForLike`,
`TokensForNewPost`). `Activity` is the union of three queries in `activity.go`.
A scene is a set of tables and the requests that come, each once and in any
order and overlap. `pushed` is history. `Consistent` says what a scene may start
from: the keys and references that the schema enforces, and a reply under the
check-in of what it replies to, as `ParentCommentForPost` sees to.

### Reading, PagedRead

`Reading` adds to `Threads` a member who reads the feed or the activity list
page by page: `NextPage` answers the rows after the cursor in
`(created_at, kind, id)`, as `ORDER BY ... LIMIT` may, and takes the cursor to
the last row of the page; `Live` is any step of the group. `PagedRead` is what
that promises: a page is of rows not shown before, and at the end whatever stood
in the list throughout has been shown. `Reading` implements it with
`Entries <- Entry, listed <- Listed, state <- reader.pc`. `standing` is history.

## The runs

Every cfg but one checks safety or action properties under
`Init /\ [][Next]_vars`. Deadlock is not checked: clocks and numbers of posts,
requests, accounts and crashes are bounded, so every instance stops.

| Run | Shows | Bounds, and why they are enough |
|---|---|---|
| `recap` | type, `CheckHolds`, windows disjoint, duplicates only by replacement, replacement only of its own kind, one push, `LedgerSpec` | 2 processes and 2 requests, 2 at work at once (every race here is between two), a week and a month due in the same hour with two ticks in it, 2 recaps (a duplicate needs two) |
| `recap_replace` (violation) | two replace requests leave two identical recaps | 2 requests, 3 recaps |
| `recap_month` (violation) | the monthly window of a group east of UTC starts days late | real calendar, the night of 31 March UTC |
| `digest` | tiling, daily look, one a day, never twice | slots of 2 moments, days of 4 slots; 7 slots, that is two due hours and the quiet time between them; 2 members, 2 posts, one change of settings, block or revocation |
| `media` | rows have files, files accounted for, attachments kept | 2 requests at once, 1 shared row, 2 poster files, a post and two comments, one crash or failure anywhere |
| `media_account` (violation) | an account's own files are not returned | as `media` |
| `accounts` | one admission per invite, first-signup window, no false refusal, last admin | 2 requests, 2 numbers, 4 accounts (an account, its deletion, and both again), 2 invitations, one cut-off request |
| `sessions` | sessions in use kept, capped, ended by a reset; codes bounded and dead once redeemed | 1 member (accounts do not interact), 2 requests at once, 2 sessions, 1 code with 2 attempts, an idle limit of 3 ticks, an absolute age of 4 and a throttle of 1, so that the second use slides a session and the cap cuts that short, one cut-off request or failed statement |
| `journal` | big days told whole, once; trips apart and not lost by check-ins elsewhere; guesses only when nothing is known; answers that stay; pages that agree; fair walls, filtered decks and titles | the thresholds scaled down so that a week of two-tick days reaches both sides of each: pause 1 day, span 2, home base 2 days, home area 2 episodes of 2 members, gathering 3 posts of 2, wall of 2 to 3 cards with 4 posters, pages of 2, month of 5 ticks; up to 9 check-ins by 4 members; dominance 10, distance 15, population 5 over a dataset with an unambiguous, two comparable, a dominant, an aliased and an unknown name |
| `first_trip` (violation) | a first trip disappears on its third day | pause, span and the day counts as in the code, 2 members, 3 days |
| `negative_cache` (violation) | one bad read is stored as "no such place" | 2 readers, one failing read, restarts |
| `reading` | list and pushes agree, nobody is told twice, `PagedReads`, `ReadingEnds` | 8 scenes of 3 members (a race between two actors over what concerns a third) with 2 to 5 requests each, all overlaps; entries that tie in time, and in time and id; pages of 1 and 2 over 2 to 6 entries; clock to 3 |

Each property of a passing run is broken by a mutant of a mapped definition
(`PROJECT.json`, "mutants"): an unlocked insertion, a window ending at the
tick's own time, an orphan condition without comments, a pause of exactly the
window ending a run, a month bounded with the offset's sign swapped, a cursor
that forgets the kind, and so on.

Three bounds in the properties deserve a word. `FirstSignupWindow` allows as many
uninvited administrators as requests can be in flight together, plus one for
each request cut off before `MarkInitialized`: the code closes the window no
earlier. `LastAdminKept` excepts deletions that overlap another
administrator's; `AnAdminRemains` does not, and fails. In the same way
`OnlyOrphansRemoved` is `AttachmentsKept` without its exception, `CodesSetOnce`
and `OldSessionsEnd` are `RedeemedCodesAreDead` and `SessionsOfThePassword`
without theirs: what the proved property leaves out, a violated one shows.
`BuzzedOnce` compares pushes about one row: a like taken back and given again is
a new row, and rings again, as in the code.

### Fairness

The only liveness property is `ReadingEnds`: a reading once begun comes to its
end. It assumes `WF_vars(NextPage /\ reader.pc = "reading")`, that whoever began
to read goes on: `_loadMore` is called near the end of the list and
`_maybeFillViewport` (`feed_screen.dart`) asks by itself until the screen is
full, and a request that failed is asked again. Nothing is assumed of those who
post: the reading ends however much comes in, because new entries sort before
the cursor and each page takes it strictly on. What "must happen daily" in
`Digest` is stated as a bound on a clock (`SummarisedDaily`), which holds of
every tick pattern with one tick a slot and needs no fairness.

## What is proved

`RecapProofs` proves, for any number of processes, requests, members, settings,
periods and any sizes of slots and bounds (from `ConstantsAssumption` alone):
`TypeCorrect`, `CheckIsNeverStale`, `ReplacesOnlyTheSame`, `ManualDuplicates`,
`PushedOnce`, `WeeklyWindows` and the refinement `ImplementsLedger`.

`CheckHolds` is not inductive: that nobody inserts the same recap between my
check and my insertion needs that nobody else with my key is inside the
transaction. The invariant is `IInv == TypeOK /\ LockExclusive /\ JobOK /\
RowOK /\ CheckHolds`: two jobs between `check` and `write` never have the same
key; a job's replacement target names a recap of its own period or nothing; a
row's spec is that of the job that inserted it. `Frames` reduces a step to what
it does to jobs and rows, so that each part has a short proof; the step that
matters is `Write` of another job, which `LockExclusive` excludes. The
refinement needs `CheckHolds` for the ledger's guard and `JobOK` for what a
replacement may remove. Pushes have an invariant of their own (`PushInv`): a
post is waiting to be pushed only if it was not yet. `WeeklyWindows` is about
arithmetic: a weekly job's period ends at an aligned mark (`Aligned`), the right
hour of the right local weekday, because a tick is due only then and the end is
rounded down to the hour. Two aligned marks are equal or at least a week apart
(`NextMultiple`), a window is a week long (`WholeWeek`), and the unique index
keeps two scheduled rows of a cadence from one beginning; so two windows of one
setting touch at most at an end. That a `Tick` is late, repeated or concurrent
moves its end by nothing, which is what the rounding is for.

`ThreadsProofs` proves first `ReadingImplementsPagedRead`, that is
`Spec => PagedReads`, for every group, history, set of requests, page size and
interleaving (from `ScenesAreWellFormed`: rows are stamped and numbered with
naturals, and a page holds at least one). The abstract promise is not inductive
either: that a page shows nothing twice needs to know where the shown entries
lie. The invariant (`InductiveInvariant`) is `IInv == Stamped /\ Partway`: in
the middle of a reading every shown entry is the cursor's or sorts above it, and
every entry that stood throughout is shown or sorts below. The step that matters
is `NextPage`: the page is an upper segment of what lies below the cursor, and
its last entry becomes the cursor, so both halves of `Split` follow from
the sort key being a strict total order (`AboveIsStrict`, `AboveIsTransitive`,
`AboveIsTotal`); without the kind in the key they fail, as the mutant shows. A
step of the group cannot disturb it, for the cursor and `shown` stay and
`standing` only shrinks.

It then proves `ActivityMirrorsPush` and `BuzzedOnce` for every group,
set of rows and requests, from `ScenesAreWellFormed` (which TLC evaluates on the
scenes it is given). The first is about one state, and yet not of every state:
the list finds a reply's check-in in the reply's row and the push finds it
through the parent, which agree because a reply is under its parent's check-in.
That is checked two statements before the insertion, so it needs an invariant of
the requests in between (`Replying`), which holds since no key is given out
twice (`FreshRows`). The second needs to remember: a check-in that rang its
author for a comment may be deleted before the reply's goroutine reads the
tables. The invariant says of every note that it is true of its row while the
row stands and names keys that were given out (`NoteOK`), that two notes about
one row are of one check-in and of different kinds (`Distinct`), and of everyone
rung what the tables, as far as they still stand, show of them (`Rang`): for a
comment the check-in's author, for a reply its parent's, below somebody else's.
The step that matters is `Notify`: a second ring for one row would find a
check-in that is the member's by the one query and is not by the other. That
what rang is listed as well needs the cascade: `under` removes a parent only
with its replies.

`SessionsProofs` and `ResetProofs` prove all six invariants and action
properties of `Sessions`, for
any members, requests, sessions, codes and limits, from `ConstantsAssumption`.
Everything rests on `Shape`, which says column by column what a row, a session
and a request look like, and on two summaries of a step: a session that is
there before and after slid within its cap or did not change (`Passing`,
`Making`), and every step but four leaves codes, attempts and passwords alone
(`OtherSteps`). `SessionsSlideForwardToTheCap` follows; `UseKeepsSignedIn` needs
`Promised`: what the last use promised is at most the expiry, which a later
slide can only raise. `ResetCodesAreSingleUse` needs `Codes`: a code belongs to
one member at most (`Personal`), a request about to redeem holds a code that was
issued, so that no code issued later is its own (`Held`), and no member's code
is spent (`Spent`). `GuessesBounded` is not inductive: that one more wrong guess
fits needs that the earlier ones are accounted for. `Counted` says where they
are: in the attempts of the row, in requests about to count theirs, or in
requests that were cut; a request passes the check only below `MaxAttempts`, and
the one that guesses is not among those about to count. `ResetSignsOut` adds the
same promise for requests on their way to a session (`RequestsOfThePassword`):
of an old password, they have been overtaken, or another request is about to
sign out everywhere. Then each step is `Peaceful`, a signing out (`SignsOut`),
or the setting of a password, which puts its own request before the purge. The
exact types (`TypeCorrect`) have an invariant of their own, `Typed`: a slide is
under way with a real token and clock, a redemption with a code that was issued.

`AccountsProofs` proves all five properties of `Accounts` for any requests,
numbers, invitations and bounds on ids, invites and cuts (`ConstantsAssumption`,
which takes requests to be finitely many). `Base` is the type invariant with what a request
knows at each point (`JobsOK`). `Steps` says what a step can do to the tables (a
signup, a deletion, an addition to or a removal from the list, or nothing), and
`Progress` what it can do to its own request. `AnInviteAdmitsOne` is not
inductive; `Admissions` adds where the used entries are: a signup that saw an
entry and is not late finds it still listed (`SawFresh`), a deletion in flight
is of an account that exists, and the only one of it (`Deletions`), an entry
added behind a deletion that found none has let nobody in (`Unused`), and an
entry that was used is held by an account (`UsedIsHeld`): the account goes
together with the entry, so no later signup uses it again.
`ADeletionLeavesAnAdmin` needs `LastAdmin`, that the check still holds until
another deletion makes it late. `TheFirstSignupWindowIsBounded` counts
(`Window`): before the server is initialized, whoever came in uninvited is about
to mark it or was cut; afterwards only those who had begun may follow.
`NobodyIsRefusedForNothing` needs no more than `Base`.

`DigestProofs` proves all four invariants of `Digest` for any members, requests,
numbers of moments, slots and hours. None is inductive. `Base` collects what
every one needs: the clock and where the loop stands (`Clock`, `RunOK`), that
posts are numbered as they begin (`Numbered`), that a target not yet marked
still has the mark and the hour it was chosen for, unless a settings change has
reset them (`Waiting`), that what was told lies behind the last mark (`Told`),
that a count saw what its window holds (`Counted`), and that a summary about to
be sent is of the mark just made (`Sending`). `ToldOnce` and `Apart` follow
from it. `Tiles` adds that no post between the first window and the last mark was passed over (`Tiled`);
the step that matters is `Mark`: every post up to the mark was in the count's
window or was told before. `LookedAtDaily` bounds a wait:
`LookedAfter` says how late a mark can be at each place the loop may stand, from
the next turn of the hour (`Turn`, `HourBegins`) at which the member's quiet
time is over (`Awaited`). It needs room: an hour of at least three slots, and a
day that the quiet time leaves an hour and two slots of (`Slack`). That is not
an assumption about the environment but about the constants, and
`CodeHasSlack` proves that ten-minute ticks and twenty hours of quiet have it;
the instance TLC checks is smaller and satisfies the property all the same. The
proof corrected the model in one place: `TypeOK` had bounded the clock too
tightly for slots of three moments or more, which the instance does not have.

`MediaStoreProofs` proves all four properties of `MediaStore` for any members,
files, requests and bounds. The invariant is about the tables (`Tables`,
`Owners`), rows and their files (`RowFiles`), what each request has in hand
(`Jobs`, one `JobOK` for each) and what two requests may not both have (`Pairs`).
That a row has its files is not inductive: an upload's row is safe only because
no deletion in flight lists the file it just wrote (`Fresh`, `Apart`), and the
files a deletion removes after its commit are files of no row (`Lists`), which
nobody can name again, for names are never used twice. `FilesTraced` steps a
file through its holders: whatever a step takes from the rows it gives to a
request (`HoldingStep`), and what it takes from a request reaches a row, is
removed, or is one of the known losses. `AttachmentsStay` needs `Takes`: a
deletion about to remove a row that a committed post or comment names decided
before that reference was there, and is marked as raced.

`JournalProofs` proves all nine properties of `Journal` for any members,
histories, gazetteer, thresholds, caps and offset, from the named assumptions of
the modules it is built from: `ScenesAssumption` (posts of a history have keys
of their own, counted from 1; members and labels are numbers),
`EventsAssumption`, `PlacesAssumption`, `CardsAssumption` and
`TimelineAssumption` (thresholds and caps are naturals, units of time are not
zero, and a photo must be older to be forgotten than to be a memory, as the code's
90 and 14 days are). TLC evaluates all of them on the instance. The machine's own
invariant is small (`JournalInv`): rows have their types, keys are given out once
(`Rows`), and what is cached or about to be is nothing or what the gazetteer
holds (`Answers`), from which `CacheKeepsAnswers` follows. The other eight are
about what the derived views compute from any rows with keys of their own, and
so are the lemmas, in five groups.

- *Induction.* The library's induction theorems cannot be used (they take an
  operator), but well-foundedness of strict inclusion can: `SmallestIn` gives a
  smallest counterexample in a finite set. `FirstOne`, `MaxIs`, `MinIs`,
  `MostCommon` and the two recursive functions rest on it: that the function
  `runStarts` defines exists and satisfies its equation (`RunStartsDef`), and the
  same for sums (`SumsAre`), that is for the fold behind `sumOf`.
- *Lists.* `ranked` chooses the element with i - 1 others before it. For a
  strict total order that is a listing (`ListingIs`): it holds every element
  once, in order, it is the only one that does (`SameListing`), filtering it
  gives the listing of what is left (`KeptListing`), and its first k are the k
  best (`PageOf`). Every sort of the code gets a lemma that its comparison is
  such an order on the rows it is given: `ByTimeOrders`, `MeritOrders`,
  `RosterIs`, `NewestOrders`, `TimelineTells`, `PlacesListed`, `EventsOrder`,
  `ForgottenIsNeglected`. For events this needs that no two of them begin with the same
  check-in, and so `ToldOnce`.
- *Runs.* `RunsOfDays` says what `runStarts` computes: starts are days of the
  run, grow with the day, and a new one has a reason in the day before. So the
  runs of a place partition its rows (`RunsAre`), trips are disjoint
  (`TripsApartFromEachOther`), whole days are claimed or left, and a trip's end
  is the last day before the next start: `EveryBigDayIsTold` and
  `ToldTripsAreApart`. `TripsOutliveElsewhere` compares two sets of rows of which
  the larger differs elsewhere only: the homes of the trip's members do not
  disappear and do not move to the trip's place (`HomeStays`).
- *Walls and titles.* `Worths` counts a post's rank among its author's,
  `Fill` and `WallTakes` count what is taken. A wall smaller than its cap has
  left nothing that could be added; a full one has taken the best
  (`WallFair`). Titles need that scores are integers, through the sums
  (`ScoreInt`), that the early bird's award is won by anyone who posted, and that the
  order of the awards settles ties (`BestAward`).
- *Filtered decks and pages.* That the roster without the blocked is the roster
  of the posts without theirs is `SameListing` again (`PeopleKept`), that the
  figures agree is a sum over a partition (`PostsAdd`). Pages agree with lists
  because a month's two ends on the stored clock are where the shifted division
  puts them (`MonthIs`), and a place is shown under a label of its own
  (`PlacesListed`).

As a check against vacuity the mutants that TLC finds out were given to the
prover as well: with any of them in the place of its definition, a lemma that the
property's theorem rests on is no longer proved.

Only model-checked: `ReadingEnds`, for liveness under fairness and `ENABLED` are
out of the prover's reach, and the properties that are violated, in a run or
by hand. Every other property of every run is a theorem. RECURSIVE operators are
outside the prover's reach too, and the modules declare none.

## Disagreements found

With their lines under "findings" in `PROJECT.json`:

- `recap_replace`: two replace requests duplicate a manual recap.
- `recap_month`: a monthly window starts on the wrong day east of UTC.
- `media_account`: the files of a deleted account stay on disk.
- `first_trip`: a group's first trip is told for two days and then becomes its
  members' home base and vanishes, the outcome the comment calls backwards.
- `negative_cache`: one failed read of the gazetteer is stored as "no such place".

Known divergences whose configuration is kept and can be run by hand (each one
ends in a counterexample):

| Module, cfg | Property | What the code says and does |
|---|---|---|
| `MCAccounts`, `LastAdmin.cfg` | `AnAdminRemains` | "Refuse to delete the only admin: doing so would leave the server with no one able to invite members" (`moderation_handlers.go:198`): the last two administrators may delete themselves at once |
| `MCAccounts`, `OnlyAdmin.cfg` | `OnlyAdminRefused` | the same line: the check counts revoked administrators, so the only one who can invite may delete itself |
| `MCMediaStore`, `MediaComments.cfg` | `CommentMediaCollected` | "plus any media that becomes orphaned as a result" (`queries.go:1234`): a deleted post's comments go with it, and what they had attached stays, row and file. (The same holds of the replies that go with a comment, which the model has only in `Threads`.) |
| `MCMediaStore`, `MediaRaced.cfg` | `OnlyOrphansRemoved` | "any candidate media rows no longer referenced" (`queries.go:1304`): a deletion that waited for an insertion takes the row the new post refers to |
| `MCSessions`, `CodeTwice.cfg` | `CodesSetOnce` | "(single-use)" (`queries.go:239`, `0006_reset_code.sql:3`): one reset code, in two requests, sets two passwords |
| `MCSessions`, `LateLogin.cfg` | `OldSessionsEnd` | "Sign out everywhere" (`auth_handlers.go:617`): a login overlapping a reset keeps the session of the old password |
| `MCRecap`, `RecapEver.cfg` | `OneScheduledEver` | "one SCHEDULED recap per period, ever" (`0018_recap.sql:33`): one deleted in its due hour is made and pushed again |
| `MCDigest`, `DigestRolls.cfg` | `FailedSendRollsOver` | "simply rolled into tomorrow's count" (`digest.go:67`): a summary that could not be sent is not rolled over to the next |
| `MCDigest`, `DigestFields.cfg` | `OmittedFieldsKept` | "Omitted fields keep their current value" (`push_handlers.go:74`): of two overlapping settings PATCHes each writes back the fields it did not name |
| `MCReading`, `HiddenPush.cfg` | `PushedCanBeOpened` | "the notification cannot be acted on and should never have been sent" (`queries.go:611`): Ben comments on Ann's check-in and blocks Ann, Cem replies to Ben: Ben's phone rings for a check-in that `GetPost` answers 404 for |

Seen while reading, without a model of their own: `PostVisible` has no exception
for recaps where the feed has one, so a member who blocked a recap's author sees
it and cannot like it or comment on it. `MarkActivitySeen` sets the time its
transaction began, so an update that waited on the row may move the marker back,
and an item stamped before the marker but committed after it is never unread.
Profile pages are cut at `created_at` alone, and skip posts that tie at the
boundary. `ListComments` shows comments of revoked members, whose posts are
hidden. A report of something already dismissed has no effect.

## Not modelled

- The app's state (`app_state.dart`): its notifiers write preferences across
  awaits, and one of the hazards is there; a like is shown before the server has
  it and rolled back if that fails; the screens.
- Byte-level parsers (EXIF, MP4, GIF) and the format of `places.bin`.
- The merged "All" view: the app reads the feeds of several groups side by side,
  a cursor for each, and collapses the copies of a cross-posted check-in.
  `Reading` is one group's feed.
- Text search, location filters, profile pages; the report queue; the marker of
  what is unread (one column set to `now()`).
- Rate limits and routing; the relay's registration, batching and collapse ids
  (the relay and FCM are external and appear as a send that succeeds or fails).
- The GIF proxy, the join page, configuration, the migrations' runner, the
  deployment scripts, and the dashboard's full reset.

## What could come next

`Accounts` and `Sessions` composed (a signup's session, a deletion's cascade,
the dashboard's reset that restarts the ids requests hold); the app's group
list and tokens across its awaits; an abstract specification of the media store
that `MediaStore` implements up to its known leaks, and one of the digest that
`Digest` implements.
