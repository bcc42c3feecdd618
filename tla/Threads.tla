------------------------------- MODULE Threads -------------------------------
(***************************************************************************)
(* What members say to one another: check-ins, comments and the replies to *)
(* them, likes, blocks, and the push notifications these give rise to.     *)
(*                                                                         *)
(* A request is served statement by statement.  What it tells others, it   *)
(* hands to a goroutine after its commit, which chooses the devices later, *)
(* from the tables as they are by then.  The list of what happened about a *)
(* member is derived from the same tables whenever it is asked for.        *)
(*                                                                         *)
(* A scene is the tables at the start and the requests that may come; each *)
(* comes once, at any time, beside any other.                              *)
(***************************************************************************)
EXTENDS Integers, FiniteSets

CONSTANTS
  Scenes,
  MaxNow      \* bound of the clock

NoParent == 0

\* Keys are unique and were given out, references name rows, and a reply is
\* to a comment on the same check-in.
Consistent(s) ==
  /\ \A p, q \in s.posts : p.id = q.id => p = q
  /\ \A c, d \in s.comments : c.id = d.id => c = d
  /\ \A k, l \in s.likes : k.id = l.id => k = l
  /\ \A p \in s.posts : p.id \in 1..s.ids.post
  /\ \A c \in s.comments : c.id \in 1..s.ids.comment /\ \E p \in s.posts : p.id = c.post
  /\ \A c \in s.comments :
       c.parent # NoParent => \E d \in s.comments : d.id = c.parent /\ d.post = c.post
  /\ \A l \in s.likes : l.id \in 1..s.ids.like /\ \E p \in s.posts : p.id = l.post

\* Rows are stamped and numbered, and a page holds something.
ScenesAssumption ==
  \A s \in Scenes :
    /\ Consistent(s)
    /\ s.now \in Nat /\ s.limit \in Nat \ {0}
    /\ s.ids \in [post : Nat, comment : Nat, like : Nat]
    /\ \A p \in s.posts : p.id \in Nat /\ p.at \in Nat
    /\ \A c \in s.comments : c.id \in Nat /\ c.at \in Nat
    /\ \A l \in s.likes : l.id \in Nat /\ l.at \in Nat
ASSUME ScenesAreWellFormed == ScenesAssumption

VARIABLES
  scene,
  now,
  plan,       \* requests still to come
  posts, comments, likes,    \* tables: sets of rows
  ids,        \* the last id each of the three gave out
  blocks,     \* <<blocker, blocked>>
  muted,      \* <<member, notification>> that the member's settings turn off
  active,     \* members whose status is 'active'
  devices,    \* device_tokens: a token names the member it rings for
  jobs,       \* requests between two of their statements
  outbox,     \* goroutines that have not read the devices yet
  pushed      \* history: what rang, and whether it could be opened then

tables == <<posts, comments, likes, ids>>
social == <<blocks, muted, active, devices>>
threadVars == <<scene, now, plan, tables, social, jobs, outbox, pushed>>

----------------------------------------------------------------------------
(* What a member is shown.                                                 *)

PostVisible(p, viewer) ==
  \E r \in posts : r.id = p /\ r.by \in active /\ <<viewer, r.by>> \notin blocks

Feed(viewer) ==
  {r \in posts : r.by \in active /\ (r.kind = "recap" \/ <<viewer, r.by>> \notin blocks)}

GetPost(viewer, p) ==
  \E r \in posts : /\ r.id = p /\ r.by \in active
                   /\ r.kind = "recap" \/ <<viewer, r.by>> \notin blocks

ListComments(p, viewer) ==
  {c \in comments : c.post = p /\ PostVisible(p, viewer) /\ <<viewer, c.by>> \notin blocks}

parentOf(c) == {d \in comments : d.id = c.parent}

item(kind, row) == [kind |-> kind, row |-> row.id, at |-> row.at, by |-> row.by]

\* activityItemsCTE with the reply branch's exception for one's own check-ins.
Activity(viewer) ==
  LET heard(row) == row.by # viewer /\ row.by \in active /\ <<viewer, row.by>> \notin blocks
      mine == {p.id : p \in {r \in posts : r.by = viewer}}
  IN  {item("comment", c) : c \in {d \in comments : d.post \in mine /\ heard(d)}}
      \cup {item("reply", c) :
              c \in {d \in comments : /\ \E pc \in parentOf(d) : pc.by = viewer
                                      /\ d.post \notin mine /\ heard(d)}}
      \cup {item("like", l) : l \in {k \in likes : k.post \in mine /\ heard(k)}}

----------------------------------------------------------------------------
(* Whose devices ring.                                                     *)

\* As it would be with the two columns of user_blocks mistaken for each other.
wantsUnlessBlocked(m, what, actor) ==
  m \in active /\ <<m, what>> \notin muted /\ m # actor /\ <<actor, m>> \notin blocks

wants(m, what, actor) ==
  m \in active /\ <<m, what>> \notin muted /\ m # actor /\ <<m, actor>> \notin blocks

TokensForNewPost(author) == {d \in devices : wants(d.user, "posts", author)}

TokensForReply(p, commenter) ==
  {d \in devices : wants(d.user, "replies", commenter) /\ \E r \in posts : r.id = p /\ r.by = d.user}

\* The author of the check-in hears of every comment already.
TokensForCommentReply(parent, replier) ==
  {d \in devices :
     /\ wants(d.user, "replies", replier)
     /\ \E pc \in comments : /\ pc.id = parent /\ pc.by = d.user
                             /\ \E r \in posts : r.id = pc.post /\ r.by # d.user}

TokensForLike(p, liker) ==
  {d \in devices : wants(d.user, "likes", liker) /\ \E r \in posts : r.id = p /\ r.by = d.user}

Tokens(n) ==
  CASE n.kind = "post" -> TokensForNewPost(n.by)
    [] n.kind = "comment" -> TokensForReply(n.post, n.by)
    [] n.kind = "reply" -> TokensForCommentReply(n.parent, n.by)
    [] n.kind = "like" -> TokensForLike(n.post, n.by)

\* A tap opens the check-in, at the comment the notification names.
opens(viewer, n) ==
  /\ GetPost(viewer, n.post)
  /\ n.kind \in {"comment", "reply"} => \E c \in ListComments(n.post, viewer) : c.id = n.row

----------------------------------------------------------------------------
(* Requests.  q.on is the check-in, comment, member or token q is about.   *)

\* requireAuth, then the first statement: what handleLike and
\* handleAddComment read before they write.
Arrive(q) ==
  /\ q \in plan /\ q.by \in active
  /\ q.op \in {"post", "comment", "like"}
  /\ plan' = plan \ {q}
  /\ jobs' = IF q.op = "post" \/ PostVisible(q.on, q.by)
             THEN jobs \cup {[q |-> q, at |-> 0,
                              pc |-> IF q.op = "comment" /\ q.parent # NoParent THEN "parent" ELSE "insert"]}
             ELSE jobs
  /\ UNCHANGED <<scene, now, tables, social, outbox, pushed>>

\* ParentCommentForPost: a reply must be to a comment on the same check-in.
CheckParent(j) ==
  /\ j.pc = "parent"
  /\ jobs' = (jobs \ {j}) \cup
             (IF \E c \in comments : c.id = j.q.parent /\ c.post = j.q.on
              THEN {[j EXCEPT !.pc = "insert"]} ELSE {})
  /\ UNCHANGED <<scene, now, plan, tables, social, outbox, pushed>>

\* The transaction of the insertion begins: created_at is its start.
Begin(j) ==
  /\ j.pc = "insert"
  /\ jobs' = (jobs \ {j}) \cup {[q |-> j.q, at |-> now, pc |-> "commit"]}
  /\ UNCHANGED <<scene, now, plan, tables, social, outbox, pushed>>

note(kind, j, row) ==
  [kind |-> kind, job |-> j.q, by |-> j.q.by, row |-> row, parent |-> j.q.parent,
   post |-> IF kind = "post" THEN row ELSE j.q.on]

InsertPost(j) ==
  LET id == ids.post + 1
  IN  /\ posts' = posts \cup {[id |-> id, by |-> j.q.by, kind |-> "checkin", at |-> j.at]}
      /\ ids' = [ids EXCEPT !.post = id]
      /\ outbox' = outbox \cup {note("post", j, id)}
      /\ UNCHANGED <<comments, likes>>

\* A foreign key whose row is gone fails the insertion, and nobody is told.
InsertComment(j) ==
  LET id == ids.comment + 1
      held == /\ \E r \in posts : r.id = j.q.on
              /\ j.q.parent = NoParent \/ \E c \in comments : c.id = j.q.parent
  IN  IF held
      THEN /\ comments' = comments \cup
                {[id |-> id, post |-> j.q.on, by |-> j.q.by, parent |-> j.q.parent, at |-> j.at]}
           /\ ids' = [ids EXCEPT !.comment = id]
           /\ outbox' = outbox \cup {note("comment", j, id)} \cup
                (IF j.q.parent # NoParent THEN {note("reply", j, id)} ELSE {})
           /\ UNCHANGED <<posts, likes>>
      ELSE UNCHANGED <<tables, outbox>>

likesOf(p, m) == {l \in likes : l.post = p /\ l.by = m}

\* As it would be if every like were announced.
everyLike(p, m) == TRUE

\* What RowsAffected tells after ON CONFLICT DO NOTHING.
inserted(p, m) == likesOf(p, m) = {}

LikePost(j) ==
  LET id == ids.like + 1
      fresh == IF likesOf(j.q.on, j.q.by) = {}
               THEN {[id |-> id, post |-> j.q.on, by |-> j.q.by, at |-> j.at]} ELSE {}
  IN  IF \E r \in posts : r.id = j.q.on
      THEN /\ likes' = likes \cup fresh
           /\ ids' = [ids EXCEPT !.like = @ + Cardinality(fresh)]
           /\ outbox' = outbox \cup
                (IF inserted(j.q.on, j.q.by)
                 THEN {note("like", j, l.id) : l \in likesOf(j.q.on, j.q.by) \cup fresh} ELSE {})
           /\ UNCHANGED <<posts, comments>>
      ELSE UNCHANGED <<tables, outbox>>

Commit(j) ==
  /\ j.pc = "commit"
  /\ jobs' = jobs \ {j}
  /\ \/ j.q.op = "post" /\ InsertPost(j)
     \/ j.q.op = "comment" /\ InsertComment(j)
     \/ j.q.op = "like" /\ LikePost(j)
  /\ UNCHANGED <<scene, now, plan, social, pushed>>

\* What goes with a comment: its replies, theirs, and so on.
withReplies(rows) == \A d \in comments : (\E c \in rows : d.parent = c.id) => d \in rows
under(c) == {d \in comments : \A rows \in SUBSET comments : c \in rows /\ withReplies(rows) => d \in rows}

ownOrAdmin(q, row) == row.by = q.by \/ q.by \in scene.admins

DeletePost(q) ==
  \E r \in posts :
    /\ r.id = q.on /\ ownOrAdmin(q, r)
    /\ posts' = posts \ {r}
    /\ comments' = {c \in comments : c.post # r.id}
    /\ likes' = {l \in likes : l.post # r.id}
    /\ UNCHANGED <<ids, social>>

DeleteComment(q) ==
  \E c \in comments :
    /\ c.id = q.on /\ ownOrAdmin(q, c)
    /\ comments' = comments \ under(c)
    /\ UNCHANGED <<posts, likes, ids, social>>

UnlikePost(q) ==
  /\ likes' = {l \in likes : l.post # q.on \/ l.by # q.by}
  /\ UNCHANGED <<posts, comments, ids, social>>

BlockUser(q) ==
  /\ q.on \in scene.members \ {q.by}
  /\ blocks' = blocks \cup {<<q.by, q.on>>}
  /\ UNCHANGED <<tables, muted, active, devices>>

UnblockUser(q) ==
  /\ blocks' = blocks \ {<<q.by, q.on>>}
  /\ UNCHANGED <<tables, muted, active, devices>>

\* A token rings for whoever registered it last, and stops for anyone.
UpsertDeviceToken(q) ==
  /\ devices' = {d \in devices : d.token # q.on} \cup {[token |-> q.on, user |-> q.by]}
  /\ UNCHANGED <<tables, blocks, muted, active>>

DeleteDeviceToken(q) ==
  /\ devices' = {d \in devices : d.token # q.on}
  /\ UNCHANGED <<tables, blocks, muted, active>>

\* The only change of status the server makes is a revocation.
SetUserStatus(q) ==
  /\ q.by \in scene.admins /\ q.on # q.by
  /\ active' = active \ {q.on}
  /\ UNCHANGED <<tables, blocks, muted, devices>>

SetNotificationPrefs(q) ==
  /\ muted' = IF <<q.by, q.on>> \in muted THEN muted \ {<<q.by, q.on>>} ELSE muted \cup {<<q.by, q.on>>}
  /\ UNCHANGED <<tables, blocks, active, devices>>

\* Requests that one statement or transaction serves.
Serve(q) ==
  /\ q \in plan /\ q.by \in active
  /\ plan' = plan \ {q}
  /\ \/ q.op = "delete post" /\ DeletePost(q)
     \/ q.op = "delete comment" /\ DeleteComment(q)
     \/ q.op = "unlike" /\ UnlikePost(q)
     \/ q.op = "block" /\ BlockUser(q)
     \/ q.op = "unblock" /\ UnblockUser(q)
     \/ q.op = "register" /\ UpsertDeviceToken(q)
     \/ q.op = "unregister" /\ DeleteDeviceToken(q)
     \/ q.op = "revoke" /\ SetUserStatus(q)
     \/ q.op = "prefs" /\ SetNotificationPrefs(q)
  /\ UNCHANGED <<scene, now, jobs, outbox, pushed>>

\* The goroutine chooses the devices and sends, to all of them at once.
Notify(n) ==
  /\ n \in outbox
  /\ outbox' = outbox \ {n}
  /\ pushed' = pushed \cup
       {[to |-> d.user, token |-> d.token, note |-> n, opens |-> opens(d.user, n)] : d \in Tokens(n)}
  /\ UNCHANGED <<scene, now, plan, tables, social, jobs>>

\* Time matters to what is stamped or paged only.
Tick ==
  /\ now < MaxNow /\ scene.clock /\ (plan # {} \/ jobs # {})
  /\ now' = now + 1
  /\ UNCHANGED <<scene, plan, tables, social, jobs, outbox, pushed>>

ThreadsNext ==
  \/ \E q \in plan : Arrive(q)
  \/ \E q \in plan : Serve(q)
  \/ \E j \in jobs : CheckParent(j)
  \/ \E j \in jobs : Begin(j)
  \/ \E j \in jobs : Commit(j)
  \/ \E n \in outbox : Notify(n)
  \/ Tick

ThreadsInit ==
  /\ scene \in Scenes
  /\ now = scene.now /\ plan = scene.plan
  /\ posts = scene.posts /\ comments = scene.comments /\ likes = scene.likes /\ ids = scene.ids
  /\ blocks = {} /\ muted = {} /\ active = scene.members
  /\ devices = scene.devices
  /\ jobs = {} /\ outbox = {} /\ pushed = {}

----------------------------------------------------------------------------
(* A like or comment that stands, with the member who made it active and   *)
(* not blocked, is on the list of exactly those whom a push about it would *)
(* reach if their settings allowed everything, as activity.go says of its  *)
(* three branches and the three queries they mirror: none is missing from  *)
(* the list, none is listed twice, and no list holds more.                 *)
wouldRing(n) ==
  {m \in scene.members : \E d \in Tokens(n) : d.user = m}
reachable(m, what) == <<m, what>> \notin muted /\ m \in active /\ \E d \in devices : d.user = m

noteOf(kind, row) ==
  [kind |-> kind, by |-> row.by, row |-> row.id, post |-> row.post,
   parent |-> IF kind = "reply" THEN row.parent ELSE NoParent]

ActivityMirrorsPush ==
  \A m \in scene.members :
    LET list == Activity(m)
        mirrored(kind, row) == (item(kind, row) \in list) <=> (m \in wouldRing(noteOf(kind, row)))
    IN  /\ reachable(m, "replies") =>
             \A c \in comments : c.by \in active =>
               mirrored("comment", c) /\ (c.parent # NoParent => mirrored("reply", c))
        /\ reachable(m, "likes") => \A l \in likes : l.by \in active => mirrored("like", l)
        /\ ~ \E i, k \in list : i.kind = "comment" /\ k.kind = "reply" /\ i.row = k.row

(* Nobody's devices ring twice about one comment, though a reply is pushed *)
(* by two goroutines that read the tables at different times, nor twice    *)
(* about one like, though two taps race; and every push about a comment or *)
(* like that still stands has its line in the list of the member it rang   *)
(* for, unless that member has blocked its author since or it was revoked. *)
about(n) == IF n.kind = "reply" THEN <<"comment", n.row>> ELSE <<n.kind, n.row>>
BuzzedOnce ==
  /\ \A p, q \in pushed : p.to = q.to /\ about(p.note) = about(q.note) => p.note = q.note
  /\ \A p \in pushed :
       p.note.by \in active /\ <<p.to, p.note.by>> \notin blocks =>
         /\ \A c \in comments : p.note.kind \in {"comment", "reply"} /\ c.id = p.note.row =>
              item(p.note.kind, c) \in Activity(p.to)
         /\ \A l \in likes : p.note.kind = "like" /\ l.id = p.note.row =>
              item("like", l) \in Activity(p.to)

(* What a push names can be opened when it is sent.  The comment over the  *)
(* token queries says of a push the feed then hides that it "cannot be     *)
(* acted on and should never have been sent" (db/queries.go).              *)
PushedCanBeOpened == \A p \in pushed : p.opens
=============================================================================
