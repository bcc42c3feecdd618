---------------------------- MODULE ThreadsProofs ----------------------------
(* Reading a list page by page implements PagedRead; what rang and what is  *)
(* listed agree, and nothing rings twice for one member: for any group,     *)
(* history, set of requests, length of page and order of events.            *)
EXTENDS Reading, FiniteSetTheorems, TLAPS

\* Rows have natural ids and stamps, whoever inserts them.
Numbered(rows) == \A r \in rows : r.id \in Nat /\ r.at \in Nat
Stamped ==
  /\ scene \in Scenes /\ now \in Nat
  /\ Numbered(posts) /\ Numbered(comments) /\ Numbered(likes)
  /\ ids \in [post : Nat, comment : Nat, like : Nat]
  /\ \A j \in jobs : j.at \in Nat /\ j = [q |-> j.q, at |-> j.at, pc |-> j.pc]

\* What was shown lies at the cursor or above; what has stood all along was
\* shown or lies below.
Split ==
  /\ \A k \in shown : k = reader.cursor \/ above(k, reader.cursor)
  /\ \A k \in standing : k \in shown \/ above(reader.cursor, k)
Partway ==
  /\ reader \in [pc : {"idle", "reading", "complete"}, cursor : Entry \cup {NoCursor}]
  /\ reader.pc = "idle" => reader.cursor = NoCursor /\ shown = {} /\ standing = {}
  /\ reader.pc = "reading" => reader.cursor \in Entry /\ Split
  /\ shown \subseteq Entry
  /\ standing \subseteq Listed
IInv == Stamped /\ Partway

----------------------------------------------------------------------------
(* The sort key (created_at, kind, id) orders entries totally.             *)
LEMMA AboveIsStrict ==
  ASSUME NEW j \in Entry, NEW k \in Entry
  PROVE  ~(above(j, k) /\ above(k, j)) /\ ~above(j, j)
BY SMT DEF above, Entry

LEMMA AboveIsTransitive ==
  ASSUME NEW i \in Entry, NEW j \in Entry, NEW k \in Entry, above(i, j), above(j, k)
  PROVE  above(i, k)
BY SMT DEF above, Entry

LEMMA AboveIsTotal ==
  ASSUME NEW j \in Entry, NEW k \in Entry, j # k
  PROVE  above(j, k) \/ above(k, j)
BY SMT DEF above, Entry

LEMMA NoCursorIsNoEntry == NoCursor \notin Entry
BY SMT DEF NoCursor, Entry

(* Both lists hold entries, if the rows are stamped.                       *)
LEMMA ListedAreEntries == Stamped => Listed \subseteq Entry
<1> SUFFICES ASSUME Stamped PROVE Listed \subseteq Entry
  OBVIOUS
<1>1. feedEntries(scene.reader) \subseteq Entry
  <2>1. SUFFICES ASSUME NEW p \in Feed(scene.reader) PROVE <<p.at, 0, p.id>> \in Entry
    BY DEF feedEntries
  <2>2. p.at \in Nat /\ p.id \in Nat
    BY DEF Feed, Stamped, Numbered
  <2> QED BY <2>2 DEF Entry
<1>2. activityEntries(scene.reader) \subseteq Entry
  <2>1. SUFFICES ASSUME NEW i \in Activity(scene.reader)
                 PROVE  <<i.at, rank(i.kind), i.row>> \in Entry
    BY DEF activityEntries
  <2>2. PICK kind \in {"comment", "reply", "like"}, row \in comments \cup likes : i = item(kind, row)
    BY DEF Activity
  <2>3. row.id \in Nat /\ row.at \in Nat
    BY DEF Stamped, Numbered
  <2>4. i.at \in Nat /\ i.row \in Nat /\ i.kind \in {"comment", "reply", "like"}
    BY <2>2, <2>3 DEF item
  <2> QED BY <2>4 DEF rank, Entry
<1> QED BY <1>1, <1>2 DEF Listed

----------------------------------------------------------------------------
LEMMA StampedInit == Init => Stamped
BY ScenesAreWellFormed DEF Init, ThreadsInit, Stamped, Numbered, ScenesAssumption

LEMMA StampedStep == Stamped /\ ThreadsNext => Stamped'
<1> SUFFICES ASSUME Stamped, ThreadsNext PROVE Stamped'
  OBVIOUS
<1>1. ASSUME NEW q \in plan, Arrive(q) PROVE Stamped'
  BY <1>1 DEF Stamped, Numbered, Arrive, tables, social
<1>2. ASSUME NEW q \in plan, Serve(q) PROVE Stamped'
  <2>1. scene' = scene /\ now' = now /\ jobs' = jobs
    BY <1>2 DEF Serve
  <2>2. /\ posts' \subseteq posts /\ comments' \subseteq comments /\ likes' \subseteq likes
        /\ ids' = ids
    <3>1. CASE DeletePost(q)
      BY <3>1 DEF DeletePost
    <3>2. CASE DeleteComment(q)
      BY <3>2 DEF DeleteComment
    <3>3. CASE UnlikePost(q)
      BY <3>3 DEF UnlikePost
    <3>4. CASE UNCHANGED tables
      BY <3>4 DEF tables
    <3>5. CASE BlockUser(q) \/ UnblockUser(q)
      BY <3>4, <3>5 DEF BlockUser, UnblockUser
    <3>6. CASE UpsertDeviceToken(q) \/ DeleteDeviceToken(q)
      BY <3>4, <3>6 DEF UpsertDeviceToken, DeleteDeviceToken
    <3>7. CASE SetUserStatus(q) \/ SetNotificationPrefs(q)
      BY <3>4, <3>7 DEF SetUserStatus, SetNotificationPrefs
    <3> QED BY <1>2, <3>1, <3>2, <3>3, <3>5, <3>6, <3>7 DEF Serve
  <2> QED BY <2>1, <2>2 DEF Stamped, Numbered
<1>3. ASSUME NEW j \in jobs, CheckParent(j) PROVE Stamped'
  <2>1. [j EXCEPT !.pc = "insert"] = [q |-> j.q, at |-> j.at, pc |-> "insert"]
    BY DEF Stamped
  <2> QED BY <1>3, <2>1 DEF Stamped, Numbered, CheckParent, tables, social
<1>4. ASSUME NEW j \in jobs, Begin(j) PROVE Stamped'
  BY <1>4 DEF Stamped, Numbered, Begin, tables, social
<1>5. ASSUME NEW j \in jobs, Commit(j) PROVE Stamped'
  <2>1. /\ scene' = scene /\ now' = now /\ jobs' \subseteq jobs
        /\ j.at \in Nat
    BY <1>5 DEF Commit, Stamped
  <2>2. CASE InsertPost(j)
    BY <2>1, <2>2 DEF InsertPost, Stamped, Numbered
  <2>3. CASE InsertComment(j)
    <3>1. CASE UNCHANGED tables
      BY <2>1, <3>1 DEF Stamped, Numbered, tables
    <3>2. CASE /\ comments' = comments \cup
                    {[id |-> ids.comment + 1, post |-> j.q.on, by |-> j.q.by,
                      parent |-> j.q.parent, at |-> j.at]}
               /\ ids' = [ids EXCEPT !.comment = ids.comment + 1]
               /\ UNCHANGED <<posts, likes>>
      BY <2>1, <3>2 DEF Stamped, Numbered
    <3> QED BY <2>3, <3>1, <3>2 DEF InsertComment, tables
  <2>4. CASE LikePost(j)
    <3> DEFINE row == [id |-> ids.like + 1, post |-> j.q.on, by |-> j.q.by, at |-> j.at]
               fresh == IF likesOf(j.q.on, j.q.by) = {} THEN {row} ELSE {}
    <3>1. Cardinality(fresh) \in Nat
      <4>1. Cardinality({}) = 0
        BY FS_EmptySet
      <4>2. Cardinality({row}) = 1
        BY FS_Singleton
      <4> QED BY <4>1, <4>2
    <3>2. CASE UNCHANGED tables
      BY <2>1, <3>2 DEF Stamped, Numbered, tables
    <3>3. CASE /\ likes' = likes \cup fresh
               /\ ids' = [ids EXCEPT !.like = @ + Cardinality(fresh)]
               /\ UNCHANGED <<posts, comments>>
      <4>1. \A l \in fresh : l.id \in Nat /\ l.at \in Nat
        BY <2>1 DEF Stamped
      <4>2. Numbered(likes')
        BY <4>1, <3>3 DEF Stamped, Numbered
      <4> HIDE DEF fresh
      <4> QED BY <2>1, <3>1, <3>3, <4>2 DEF Stamped, Numbered
    <3> QED BY <2>4, <3>2, <3>3 DEF LikePost, tables
  <2> QED BY <1>5, <2>2, <2>3, <2>4 DEF Commit
<1>6. ASSUME NEW n \in outbox, Notify(n) PROVE Stamped'
  BY <1>6 DEF Stamped, Numbered, Notify, tables, social
<1>7. CASE Tick
  BY <1>7 DEF Stamped, Numbered, Tick, tables, social
<1> QED BY <1>1, <1>2, <1>3, <1>4, <1>5, <1>6, <1>7 DEF ThreadsNext
----------------------------------------------------------------------------
LEMMA PartwayInit == Init => Partway
BY DEF Init, Partway

(* Whatever the group does leaves the reader where it is.                  *)
LEMMA PartwayLive == ASSUME IInv, Stamped', Live PROVE Partway'
BY ListedAreEntries DEF IInv, Partway, Split, Live

(* A page holds what lies directly below the cursor, and nothing shown yet. *)
LEMMA PartwayPage ==
  ASSUME IInv, NextPage
  PROVE  /\ Partway'
         /\ \E page \in SUBSET (Listed \ shown) : shown' = shown \cup page
         /\ reader'.pc = "complete" => standing' \subseteq shown'
<1> DEFINE rows == {k \in Listed : afterCursor(k, reader.cursor)}
<1>1. Listed \subseteq Entry /\ Listed' = Listed
  BY ListedAreEntries
     DEF IInv, NextPage, threadVars, tables, social, Listed, feedEntries, activityEntries, Feed, Activity, item, parentOf
<1>2. PICK page \in pages(rows, scene.limit) :
        /\ shown' = shown \cup page
        /\ \/ ends(page) /\ reader' = [pc |-> "complete", cursor |-> NoCursor]
           \/ /\ ~ends(page)
              /\ \E last \in page :
                   /\ \A k \in page : k = last \/ above(k, last)
                   /\ reader' = [pc |-> "reading", cursor |-> last]
  BY DEF NextPage
<1>3. /\ page \subseteq rows /\ rows \subseteq Listed
      /\ \A k \in page, j \in rows \ page : ~above(j, k)
      /\ Cardinality(page) < scene.limit => page = rows
  BY <1>2 DEF pages
<1>4. /\ reader.pc \in {"idle", "reading"}
      /\ standing' = IF reader.pc = "idle" THEN Listed ELSE standing
      /\ standing' \subseteq Listed
  BY DEF NextPage, IInv, Partway
<1>5. rows \cap shown = {}
  <2>1. CASE reader.pc = "idle"
    BY <2>1 DEF IInv, Partway
  <2>2. CASE reader.pc = "reading"
    <3>1. reader.cursor \in Entry /\ reader.cursor # NoCursor
      BY <2>2, NoCursorIsNoEntry DEF IInv, Partway
    <3>2. \A k \in rows : above(reader.cursor, k)
      BY <3>1 DEF afterCursor
    <3> QED BY <1>1, <2>2, <3>1, <3>2, AboveIsStrict DEF IInv, Partway, Split
  <2> QED BY <1>4, <2>1, <2>2
<1>6. \A k \in standing' : k \in shown \/ k \in rows
  <2>1. CASE reader.pc = "idle"
    BY <1>4, <2>1 DEF IInv, Partway, afterCursor
  <2>2. CASE reader.pc = "reading"
    BY <1>4, <2>2 DEF IInv, Partway, Split, afterCursor
  <2> QED BY <1>4, <2>1, <2>2
<1>7. CASE ends(page) /\ reader' = [pc |-> "complete", cursor |-> NoCursor]
  <2>1. scene.limit \in Nat \ {0}
    BY ScenesAreWellFormed DEF ScenesAssumption, IInv, Stamped
  <2>2. Cardinality(page) < scene.limit
    BY <1>7, <2>1, FS_EmptySet DEF ends
  <2>3. page = rows
    BY <1>3, <2>2
  <2>4. standing' \subseteq shown'
    BY <1>2, <1>6, <2>3
  <2> QED BY <1>1, <1>2, <1>3, <1>4, <1>5, <1>7, <2>4 DEF IInv, Partway
<1>8. ASSUME NEW last \in page,
             \A k \in page : k = last \/ above(k, last),
             reader' = [pc |-> "reading", cursor |-> last]
      PROVE  Partway'
  <2>1. last \in Entry
    BY <1>1, <1>3
  <2>2. ASSUME NEW k \in shown' PROVE k = last \/ above(k, last)
    <3>1. CASE k \in page
      BY <1>8, <3>1
    <3>2. CASE k \in shown
      <4>1. reader.pc = "reading"
        BY <1>4, <3>2 DEF IInv, Partway
      <4>2. reader.cursor \in Entry /\ k \in Entry /\ (k = reader.cursor \/ above(k, reader.cursor))
        BY <3>2, <4>1 DEF IInv, Partway, Split
      <4>3. above(reader.cursor, last)
        BY <1>3, <4>2, NoCursorIsNoEntry DEF afterCursor
      <4> QED BY <2>1, <4>2, <4>3, AboveIsTransitive
    <3> QED BY <1>2, <3>1, <3>2
  <2>3. ASSUME NEW k \in standing', k \notin shown' PROVE above(last, k)
    <3>1. k \in rows \ page /\ k \in Entry /\ k # last
      BY <1>1, <1>2, <1>3, <1>6, <2>3
    <3>2. ~above(k, last)
      BY <1>3, <3>1
    <3> QED BY <2>1, <3>1, <3>2, AboveIsTotal
  <2> QED BY <1>1, <1>2, <1>3, <1>4, <1>8, <2>1, <2>2, <2>3 DEF IInv, Partway, Split
<1>9. page \subseteq Listed \ shown
  BY <1>3, <1>5
<1> QED BY <1>2, <1>7, <1>8, <1>9, <1>6, <1>3

THEOREM InductiveInvariant == Spec => []IInv
<1>1. Init => IInv
  BY StampedInit, PartwayInit DEF IInv
<1>2. IInv /\ [Next]_vars => IInv'
  <2> SUFFICES ASSUME IInv, [Next]_vars PROVE IInv'
    OBVIOUS
  <2>1. CASE Live
    <3>1. Stamped'
      BY <2>1, StampedStep DEF Live, IInv
    <3> QED BY <2>1, <3>1, PartwayLive DEF IInv
  <2>2. CASE NextPage
    <3>1. Stamped'
      BY <2>2 DEF IInv, Stamped, Numbered, NextPage, threadVars, tables
    <3> QED BY <2>2, <3>1, PartwayPage DEF IInv
  <2>3. CASE UNCHANGED vars
    <3>1. Listed' = Listed
      BY <2>3 DEF vars, threadVars, tables, social, Listed, feedEntries, activityEntries, Feed, Activity, item, parentOf
    <3> QED BY <2>3, <3>1
            DEF IInv, Stamped, Numbered, Partway, Split, vars, threadVars, readVars, tables
  <2> QED BY <2>1, <2>2, <2>3 DEF Next
<1> QED BY <1>1, <1>2, PTL DEF Spec

(* Reading page by page implements PagedRead: nothing shown twice, nothing *)
(* that stood all along left out.                                          *)
THEOREM ReadingImplementsPagedRead == Spec => PagedReads
<1>1. Init => Read!Init
  <2>1. Init => Listed \subseteq Entry
    BY StampedInit, ListedAreEntries
  <2> QED BY <2>1 DEF Init, Read!Init
<1>2. IInv /\ IInv' /\ [Next]_vars => [Read!Next]_Read!vars
  <2> SUFFICES ASSUME IInv, IInv', [Next]_vars PROVE [Read!Next]_Read!vars
    OBVIOUS
  <2>1. CASE Live
    <3>1. (Stamped => Listed \subseteq Entry)'
      BY ListedAreEntries, PTL
    <3> QED BY <2>1, <3>1 DEF IInv, Live, Read!Next, Read!Change
  <2>2. CASE NextPage
    <3>1. Listed' = Listed
      BY <2>2 DEF NextPage, threadVars, tables, social, Listed, feedEntries, activityEntries, Feed, Activity, item, parentOf
    <3>2. /\ \E page \in SUBSET (Listed \ shown) : shown' = shown \cup page
          /\ reader'.pc = "complete" => standing' \subseteq shown'
      BY <2>2, PartwayPage
    <3>3. /\ reader.pc # "complete" /\ reader'.pc \in {"reading", "complete"}
          /\ standing' = IF reader.pc = "idle" THEN Listed ELSE standing
      BY <2>2 DEF NextPage
    <3> QED BY <3>1, <3>2, <3>3 DEF Read!Next, Read!Show
  <2>3. CASE UNCHANGED vars
    BY <2>3 DEF vars, threadVars, readVars, tables, social, Read!vars, Listed, feedEntries, activityEntries,
                Feed, Activity, item, parentOf
  <2> QED BY <2>1, <2>2, <2>3 DEF Next
<1> QED BY <1>1, <1>2, InductiveInvariant, PTL DEF Spec, PagedReads, Read!Spec

----------------------------------------------------------------------------
(* Keys were given out once and stay those of their row; references hold.   *)
Keys ==
  /\ \A p, q \in posts : p.id = q.id => p = q
  /\ \A c, d \in comments : c.id = d.id => c = d
  /\ \A k, l \in likes : k.id = l.id => k = l
  /\ \A p \in posts : p.id \in 1..ids.post
  /\ \A c \in comments : c.id \in 1..ids.comment
  /\ \A l \in likes : l.id \in 1..ids.like
References ==
  /\ \A c \in comments : \E p \in posts : p.id = c.post
  /\ \A c \in comments :
       c.parent # NoParent => \E d \in comments : d.id = c.parent /\ d.post = c.post
  /\ \A l \in likes : \E p \in posts : p.id = l.post

(* A request past CheckParent replies to a comment on its own check-in, if  *)
(* that comment is still there.                                             *)
Replying(j) ==
  j.q.op = "comment" /\ j.q.parent # NoParent /\ j.pc # "parent" =>
    /\ j.q.parent \in 1..ids.comment
    /\ \A c \in comments : c.id = j.q.parent => c.post = j.q.on

(* A note names its row, and what it says of the row is true while it is    *)
(* there; the keys it holds were given out, so no later row has them.       *)
Notes == outbox \cup {p.note : p \in pushed}
NoteOK(n) ==
  /\ n.kind \in {"post", "comment", "reply", "like"}
  /\ n.kind = "post" => n.row \in 1..ids.post
  /\ n.kind # "post" => n.post \in 1..ids.post
  /\ n.kind \in {"comment", "reply"} =>
       /\ n.row \in 1..ids.comment
       /\ \A c \in comments : c.id = n.row => c.by = n.by /\ c.post = n.post
  /\ n.kind = "reply" =>
       /\ n.parent \in 1..ids.comment
       /\ \A c \in comments : c.id = n.row => c.parent = n.parent
       /\ \A c \in comments : c.id = n.parent => c.post = n.post
  /\ n.kind = "like" =>
       /\ n.row \in 1..ids.like
       /\ \A l \in likes : l.id = n.row => l.by = n.by /\ l.post = n.post
Distinct ==
  \A m, n \in Notes : about(m) = about(n) => m.post = n.post /\ (m.kind = n.kind => m = n)

(* Who was rung for a comment or a like wrote the check-in, and who was     *)
(* rung for a reply wrote what it replies to, below somebody else's.        *)
Rang(p) ==
  /\ p.to # p.note.by
  /\ p.note.kind \in {"comment", "like"} => \A r \in posts : r.id = p.note.post => r.by = p.to
  /\ p.note.kind = "reply" =>
       /\ \A r \in posts : r.id = p.note.post => r.by # p.to
       /\ \A c \in comments : c.id = p.note.parent => c.by = p.to
Once == \A p, q \in pushed : p.to = q.to /\ about(p.note) = about(q.note) => p.note = q.note

TableInv == Stamped /\ Keys /\ References /\ \A j \in jobs : Replying(j)
NoteInv == (\A n \in Notes : NoteOK(n)) /\ Distinct
PushInv == (\A p \in pushed : Rang(p)) /\ Once
ThreadInv == TableInv /\ NoteInv /\ PushInv

----------------------------------------------------------------------------
(* No step gives a key out twice, or changes a row.                         *)
FreshRows ==
  /\ ids.post <= ids'.post /\ ids.comment <= ids'.comment /\ ids.like <= ids'.like
  /\ \A p \in posts' : p \in posts \/ p.id > ids.post
  /\ \A c \in comments' : c \in comments \/ c.id > ids.comment
  /\ \A l \in likes' : l \in likes \/ l.id > ids.like

LEMMA Counters ==
  ASSUME Stamped PROVE ids.post \in Nat /\ ids.comment \in Nat /\ ids.like \in Nat
BY DEF Stamped

LEMMA ReplyingStays ==
  ASSUME Stamped, Stamped', FreshRows, NEW j, Replying(j) PROVE Replying(j)'
<1>1. /\ ids.comment \in Nat /\ ids'.comment \in Nat /\ ids.comment <= ids'.comment
      /\ \A c \in comments' : c \in comments \/ c.id > ids.comment
  BY DEF Stamped, FreshRows
<1> QED BY <1>1 DEF Replying

LEMMA NoteStays ==
  ASSUME Stamped, Stamped', FreshRows, NEW n, NoteOK(n) PROVE NoteOK(n)'
<1>1. /\ ids.comment \in Nat /\ ids'.comment \in Nat /\ ids.comment <= ids'.comment
      /\ ids.post \in Nat /\ ids'.post \in Nat /\ ids.post <= ids'.post
      /\ ids.like \in Nat /\ ids'.like \in Nat /\ ids.like <= ids'.like
  BY DEF Stamped, FreshRows
<1>2. /\ \A c \in comments' : c \in comments \/ c.id > ids.comment
      /\ \A l \in likes' : l \in likes \/ l.id > ids.like
  BY DEF FreshRows
<1>3. /\ n.kind \in {"post", "comment", "reply", "like"}
      /\ n.kind = "post" => n.row \in 1..ids'.post
      /\ n.kind # "post" => n.post \in 1..ids'.post
  BY <1>1 DEF NoteOK
<1>4. n.kind \in {"comment", "reply"} =>
        /\ n.row \in 1..ids'.comment
        /\ \A c \in comments' : c.id = n.row => c.by = n.by /\ c.post = n.post
  BY <1>1, <1>2 DEF NoteOK
<1>5. n.kind = "reply" =>
        /\ n.parent \in 1..ids'.comment
        /\ \A c \in comments' : c.id = n.row => c.parent = n.parent
        /\ \A c \in comments' : c.id = n.parent => c.post = n.post
  BY <1>1, <1>2 DEF NoteOK
<1>6. n.kind = "like" =>
        /\ n.row \in 1..ids'.like
        /\ \A l \in likes' : l.id = n.row => l.by = n.by /\ l.post = n.post
  BY <1>1, <1>2 DEF NoteOK
<1> QED BY <1>3, <1>4, <1>5, <1>6 DEF NoteOK

LEMMA RangStays ==
  ASSUME Stamped, FreshRows, NEW p, NoteOK(p.note), Rang(p) PROVE Rang(p)'
<1>1. ids.comment \in Nat /\ ids.post \in Nat
  BY Counters
<1>2. /\ \A c \in comments' : c \in comments \/ c.id > ids.comment
      /\ \A r \in posts' : r \in posts \/ r.id > ids.post
  BY DEF FreshRows
<1>3. PICK n : n = p.note
  OBVIOUS
<1>4. n.kind # "post" => n.post \in 1..ids.post
  BY <1>3 DEF NoteOK
<1>5. n.kind = "reply" => n.parent \in 1..ids.comment
  BY <1>3 DEF NoteOK
<1>6. n.kind \in {"comment", "like"} => \A r \in posts' : r.id = n.post => r.by = p.to
  BY <1>1, <1>2, <1>3, <1>4 DEF Rang
<1>7. n.kind = "reply" =>
        /\ \A r \in posts' : r.id = n.post => r.by # p.to
        /\ \A c \in comments' : c.id = n.parent => c.by = p.to
  BY <1>1, <1>2, <1>3, <1>4, <1>5 DEF Rang
<1> QED BY <1>3, <1>6, <1>7 DEF Rang

\* Notes about a row that has just got its key.
Clear(n) ==
  /\ n.kind \in {"post", "comment", "reply", "like"}
  /\ n.kind = "post" => n.row > ids.post
  /\ n.kind \in {"comment", "reply"} => n.row > ids.comment
  /\ n.kind = "like" => n.row > ids.like

LEMMA AboutKind ==
  ASSUME NEW m, NEW n, about(m) = about(n)
  PROVE  /\ m.row = n.row
         /\ m.kind = n.kind \/ {m.kind, n.kind} \subseteq {"comment", "reply"}
<1>1. about(m)[1] = about(n)[1] /\ about(m)[2] = about(n)[2]
  OBVIOUS
<1>2. \A k : about(k)[2] = k.row /\ about(k)[1] = IF k.kind = "reply" THEN "comment" ELSE k.kind
  BY DEF about
<1> QED BY <1>1, <1>2

LEMMA NotesAdded ==
  ASSUME Stamped, NoteInv, Stamped', FreshRows, NEW N, Notes' \subseteq Notes \cup N,
         \A n \in N : Clear(n) /\ NoteOK(n)',
         \A m, n \in N : m.post = n.post /\ (m.kind = n.kind => m = n)
  PROVE  NoteInv'
<1>1. \A n \in Notes' : NoteOK(n)'
  BY NoteStays DEF NoteInv
<1>2. ASSUME NEW m \in Notes', NEW n \in Notes', about(m) = about(n)
      PROVE  m.post = n.post /\ (m.kind = n.kind => m = n)
  <2>1. ASSUME NEW a \in Notes, NEW b \in N PROVE about(a) # about(b)
    <3>1. NoteOK(a) /\ Clear(b)
      BY DEF NoteInv
    <3>2. ids.post \in Nat /\ ids.comment \in Nat /\ ids.like \in Nat
      BY Counters
    <3> SUFFICES ASSUME about(a) = about(b) PROVE FALSE
      OBVIOUS
    <3>3. a.row = b.row /\ (a.kind = b.kind \/ {a.kind, b.kind} \subseteq {"comment", "reply"})
      BY AboutKind
    <3>4. CASE a.kind = "post"
      BY <3>1, <3>2, <3>3, <3>4 DEF NoteOK, Clear
    <3>5. CASE a.kind = "like"
      BY <3>1, <3>2, <3>3, <3>5 DEF NoteOK, Clear
    <3>6. CASE a.kind \in {"comment", "reply"}
      <4>1. b.kind \in {"comment", "reply"}
        BY <3>3, <3>6
      <4> QED BY <3>1, <3>2, <3>3, <3>6, <4>1 DEF NoteOK, Clear
    <3> QED BY <3>1, <3>4, <3>5, <3>6 DEF NoteOK
  <2>2. (m \in Notes /\ n \in Notes) \/ (m \in N /\ n \in N)
    BY <1>2, <2>1
  <2> QED BY <1>2, <2>2 DEF NoteInv, Distinct
<1>3. Distinct'
  BY <1>2 DEF Distinct, about
<1> QED BY <1>1, <1>3 DEF NoteInv

LEMMA PushesStay ==
  ASSUME Stamped, NoteInv, PushInv, FreshRows, pushed' = pushed
  PROVE  PushInv'
<1>1. \A p \in pushed : NoteOK(p.note)
  BY DEF NoteInv, Notes
<1>2. \A p \in pushed' : Rang(p)'
  BY <1>1, RangStays DEF PushInv
<1>3. Once'
  BY DEF PushInv, Once, about
<1> QED BY <1>2, <1>3 DEF PushInv

----------------------------------------------------------------------------
(* Steps that insert nothing.                                               *)
Fewer ==
  /\ posts' \subseteq posts /\ comments' \subseteq comments /\ likes' \subseteq likes
  /\ ids' = ids

LEMMA FewerIsFresh == ASSUME Stamped, Fewer PROVE FreshRows
BY Counters DEF Fewer, FreshRows

LEMMA FewerKeys == ASSUME Keys, Fewer PROVE Keys'
<1>1. /\ \A p, q \in posts' : p.id = q.id => p = q
      /\ \A c, d \in comments' : c.id = d.id => c = d
      /\ \A k, l \in likes' : k.id = l.id => k = l
  BY DEF Keys, Fewer
<1>2. /\ \A p \in posts' : p.id \in 1..ids'.post
      /\ \A c \in comments' : c.id \in 1..ids'.comment
      /\ \A l \in likes' : l.id \in 1..ids'.like
  BY DEF Keys, Fewer
<1> QED BY <1>1, <1>2 DEF Keys

LEMMA ServeRows ==
  ASSUME TableInv, NEW q, Serve(q)
  PROVE  Fewer /\ References'
<1>1. CASE DeletePost(q)
  <2>1. PICK r \in posts :
          /\ posts' = posts \ {r} /\ comments' = {c \in comments : c.post # r.id}
          /\ likes' = {l \in likes : l.post # r.id} /\ ids' = ids
    BY <1>1 DEF DeletePost
  <2>2. ASSUME NEW c \in comments' PROVE \E p \in posts' : p.id = c.post
    BY <2>1 DEF TableInv, References
  <2>3. ASSUME NEW c \in comments', c.parent # NoParent
        PROVE  \E d \in comments' : d.id = c.parent /\ d.post = c.post
    BY <2>1, <2>3 DEF TableInv, References
  <2>4. ASSUME NEW l \in likes' PROVE \E p \in posts' : p.id = l.post
    BY <2>1 DEF TableInv, References
  <2> QED BY <2>1, <2>2, <2>3, <2>4 DEF Fewer, References
<1>2. CASE DeleteComment(q)
  <2>1. PICK c \in comments : comments' = comments \ under(c) /\ UNCHANGED <<posts, likes, ids>>
    BY <1>2 DEF DeleteComment
  <2>2. ASSUME NEW d \in comments, NEW e \in comments, e \in under(c), d.parent = e.id
        PROVE  d \in under(c)
    BY <2>2 DEF under, withReplies
  <2>3. ASSUME NEW d \in comments', d.parent # NoParent
        PROVE  \E e \in comments' : e.id = d.parent /\ e.post = d.post
    BY <2>1, <2>2, <2>3 DEF TableInv, References
  <2> QED BY <2>1, <2>3 DEF Fewer, References, TableInv
<1>3. CASE UnlikePost(q)
  BY <1>3 DEF UnlikePost, Fewer, References, TableInv
<1>4. CASE UNCHANGED tables
  BY <1>4 DEF tables, Fewer, References, TableInv
<1>5. CASE \/ BlockUser(q) \/ UnblockUser(q) \/ UpsertDeviceToken(q) \/ DeleteDeviceToken(q)
           \/ SetUserStatus(q) \/ SetNotificationPrefs(q)
  BY <1>4, <1>5 DEF BlockUser, UnblockUser, UpsertDeviceToken, DeleteDeviceToken, SetUserStatus,
     SetNotificationPrefs
<1> QED BY <1>1, <1>2, <1>3, <1>5 DEF Serve

\* Requests go on, and no note is added or sent.
LEMMA FewerStep ==
  ASSUME ThreadInv, Stamped', Fewer, References', Notes' \subseteq Notes, pushed' = pushed,
         \A j \in jobs' : Replying(j)' \/ Replying(j)
  PROVE  ThreadInv'
<1>1. FreshRows /\ Keys'
  BY FewerIsFresh, FewerKeys DEF ThreadInv, TableInv
<1>2. \A j \in jobs' : Replying(j)'
  BY <1>1, ReplyingStays DEF ThreadInv, TableInv
<1>3. NoteInv'
  <2>1. PICK N : N = {}
    OBVIOUS
  <2> QED BY <1>1, <2>1, NotesAdded DEF ThreadInv, TableInv
<1>4. PushInv'
  BY <1>1, PushesStay DEF ThreadInv, TableInv
<1> QED BY <1>1, <1>2, <1>3, <1>4 DEF ThreadInv, TableInv

LEMMA SameTables == ASSUME UNCHANGED tables, TableInv PROVE Fewer /\ References'
BY DEF tables, Fewer, References, TableInv

LEMMA SameNotes == ASSUME UNCHANGED <<outbox, pushed>> PROVE Notes' \subseteq Notes /\ pushed' = pushed
BY DEF Notes

LEMMA ArriveStep ==
  ASSUME ThreadInv, Stamped', NEW q \in plan, Arrive(q) PROVE ThreadInv'
<1>1. Fewer /\ References' /\ Notes' \subseteq Notes /\ pushed' = pushed
  BY SameTables, SameNotes DEF Arrive, ThreadInv
<1>2. ASSUME NEW j \in jobs' PROVE Replying(j)' \/ Replying(j)
  <2>1. CASE j \in jobs
    BY <2>1 DEF ThreadInv, TableInv
  <2>2. CASE j = [q |-> q, at |-> 0,
                  pc |-> IF q.op = "comment" /\ q.parent # NoParent THEN "parent" ELSE "insert"]
    BY <2>2 DEF Replying
  <2> QED BY <2>1, <2>2 DEF Arrive
<1> QED BY <1>1, <1>2, FewerStep

LEMMA CheckStep ==
  ASSUME ThreadInv, Stamped', NEW j \in jobs, CheckParent(j) PROVE ThreadInv'
<1>1. Fewer /\ References' /\ Notes' \subseteq Notes /\ pushed' = pushed
  BY SameTables, SameNotes DEF CheckParent, ThreadInv
<1>2. ASSUME NEW k \in jobs' PROVE Replying(k)' \/ Replying(k)
  <2>1. CASE k \in jobs
    BY <2>1 DEF ThreadInv, TableInv
  <2>2. CASE k = [j EXCEPT !.pc = "insert"] /\ \E c \in comments : c.id = j.q.parent /\ c.post = j.q.on
    <3>1. k.q = j.q
      BY <2>2 DEF ThreadInv, TableInv, Stamped
    <3>2. PICK c \in comments : c.id = j.q.parent /\ c.post = j.q.on
      BY <2>2
    <3>3. j.q.parent \in 1..ids.comment /\ \A d \in comments : d.id = j.q.parent => d.post = j.q.on
      BY <3>2 DEF ThreadInv, TableInv, Keys
    <3> QED BY <3>1, <3>3 DEF Replying
  <2> QED BY <2>1, <2>2 DEF CheckParent
<1> QED BY <1>1, <1>2, FewerStep

LEMMA BeginStep ==
  ASSUME ThreadInv, Stamped', NEW j \in jobs, Begin(j) PROVE ThreadInv'
<1>1. Fewer /\ References' /\ Notes' \subseteq Notes /\ pushed' = pushed
  BY SameTables, SameNotes DEF Begin, ThreadInv
<1>2. ASSUME NEW k \in jobs' PROVE Replying(k)' \/ Replying(k)
  <2>1. CASE k \in jobs
    BY <2>1 DEF ThreadInv, TableInv
  <2>2. CASE k = [q |-> j.q, at |-> now, pc |-> "commit"]
    <3>1. k.q = j.q /\ j.pc = "insert" /\ Replying(j)
      BY <2>2 DEF ThreadInv, TableInv, Begin
    <3> QED BY <3>1 DEF Replying
  <2> QED BY <2>1, <2>2 DEF Begin
<1> QED BY <1>1, <1>2, FewerStep

LEMMA ServeStep ==
  ASSUME ThreadInv, Stamped', NEW q \in plan, Serve(q) PROVE ThreadInv'
<1>1. Fewer /\ References'
  BY ServeRows DEF ThreadInv
<1>2. Notes' \subseteq Notes /\ pushed' = pushed
  BY SameNotes DEF Serve
<1>3. \A j \in jobs' : Replying(j)' \/ Replying(j)
  BY DEF Serve, ThreadInv, TableInv
<1> QED BY <1>1, <1>2, <1>3, FewerStep

LEMMA IdleStep ==
  ASSUME ThreadInv, Stamped', UNCHANGED <<tables, jobs, outbox, pushed>> PROVE ThreadInv'
<1>1. Fewer /\ References' /\ Notes' \subseteq Notes /\ pushed' = pushed
  BY SameTables, SameNotes DEF ThreadInv
<1>2. \A j \in jobs' : Replying(j)' \/ Replying(j)
  BY DEF ThreadInv, TableInv
<1> QED BY <1>1, <1>2, FewerStep

----------------------------------------------------------------------------
(* Insertions.                                                              *)
LEMMA InsertedStep ==
  ASSUME ThreadInv, Stamped', FreshRows, Keys', References', jobs' \subseteq jobs, pushed' = pushed,
         NEW N, outbox' \subseteq outbox \cup N,
         \A n \in N : Clear(n) /\ NoteOK(n)',
         \A m, n \in N : m.post = n.post /\ (m.kind = n.kind => m = n)
  PROVE  ThreadInv'
<1>1. \A j \in jobs' : Replying(j)'
  BY ReplyingStays DEF ThreadInv, TableInv
<1>2. Notes' \subseteq Notes \cup N
  BY DEF Notes
<1>3. NoteInv'
  BY <1>2, NotesAdded DEF ThreadInv, TableInv
<1>4. PushInv'
  BY PushesStay DEF ThreadInv, TableInv
<1> QED BY <1>1, <1>3, <1>4 DEF ThreadInv, TableInv

LEMMA PostStep ==
  ASSUME ThreadInv, Stamped', NEW j \in jobs, Commit(j), InsertPost(j) PROVE ThreadInv'
<1>0. PICK n : n = note("post", j, ids.post + 1)
  OBVIOUS
<1>1. ids.post \in Nat /\ ids.comment \in Nat /\ ids.like \in Nat
  BY Counters DEF ThreadInv, TableInv
<1>2. /\ comments' = comments /\ likes' = likes /\ jobs' \subseteq jobs /\ pushed' = pushed
      /\ outbox' = outbox \cup {n}
  BY <1>0 DEF InsertPost, Commit
<1>3. PICK row : posts' = posts \cup {row} /\ row.id = ids.post + 1
  <2>1. PICK row : row = [id |-> ids.post + 1, by |-> j.q.by, kind |-> "checkin", at |-> j.at]
    OBVIOUS
  <2>2. posts' = posts \cup {row} /\ row.id = ids.post + 1
    BY <2>1 DEF InsertPost
  <2> QED BY <2>2
<1>4. ids'.post = ids.post + 1 /\ ids'.comment = ids.comment /\ ids'.like = ids.like
  BY DEF InsertPost, ThreadInv, TableInv, Stamped
<1>5. FreshRows
  BY <1>1, <1>2, <1>3, <1>4 DEF FreshRows
<1>6. Keys'
  <2>1. /\ \A p, q \in posts' : p.id = q.id => p = q
        /\ \A p \in posts' : p.id \in 1..ids'.post
    BY <1>1, <1>3, <1>4 DEF ThreadInv, TableInv, Keys
  <2> QED BY <1>2, <1>4, <2>1 DEF ThreadInv, TableInv, Keys
<1>7. References'
  BY <1>2, <1>3 DEF ThreadInv, TableInv, References
<1>8. n.kind = "post" /\ n.row = ids.post + 1
  BY <1>0 DEF note
<1>9. Clear(n) /\ NoteOK(n)'
  <2>1. n.row \in 1..ids'.post /\ n.row > ids.post
    BY <1>1, <1>4, <1>8
  <2> QED BY <1>8, <2>1 DEF Clear, NoteOK
<1>10. PICK N : N = {n}
  OBVIOUS
<1> QED BY <1>2, <1>5, <1>6, <1>7, <1>9, <1>10, InsertedStep

LEMMA CommentStep ==
  ASSUME ThreadInv, Stamped', NEW j \in jobs, Commit(j), j.q.op = "comment", j.pc = "commit",
         InsertComment(j), ~UNCHANGED <<tables, outbox>>
  PROVE  ThreadInv'
<1> DEFINE id == ids.comment + 1
           new == [id |-> id, post |-> j.q.on, by |-> j.q.by, parent |-> j.q.parent, at |-> j.at]
           told == {note("comment", j, id)} \cup
                   (IF j.q.parent # NoParent THEN {note("reply", j, id)} ELSE {})
<1>1. ids.post \in Nat /\ ids.comment \in Nat /\ ids.like \in Nat
  BY Counters DEF ThreadInv, TableInv
<1>2. /\ \E r \in posts : r.id = j.q.on
      /\ j.q.parent = NoParent \/ \E c \in comments : c.id = j.q.parent
      /\ comments' = comments \cup {new} /\ ids' = [ids EXCEPT !.comment = id]
      /\ outbox' = outbox \cup {note("comment", j, id)} \cup
           (IF j.q.parent # NoParent THEN {note("reply", j, id)} ELSE {})
      /\ UNCHANGED <<posts, likes>>
  BY DEF InsertComment
<1>3. jobs' \subseteq jobs /\ pushed' = pushed /\ outbox' = outbox \cup told
  BY <1>2 DEF Commit
<1>4. PICK row : /\ comments' = comments \cup {row} /\ row.id = ids.comment + 1 /\ row.post = j.q.on
                 /\ row.by = j.q.by /\ row.parent = j.q.parent
  <2>1. PICK row : row = new
    OBVIOUS
  <2>2. /\ row.id = ids.comment + 1 /\ row.post = j.q.on /\ row.by = j.q.by
        /\ row.parent = j.q.parent
    BY <2>1
  <2>3. comments' = comments \cup {row}
    BY <1>2, <2>1
  <2> HIDE DEF new
  <2> QED BY <2>2, <2>3
<1>5. ids'.post = ids.post /\ ids'.comment = ids.comment + 1 /\ ids'.like = ids.like
  BY <1>2 DEF ThreadInv, TableInv, Stamped
<1>6. FreshRows
  BY <1>1, <1>2, <1>4, <1>5 DEF FreshRows
<1>7. Keys'
  <2>1. /\ \A c, d \in comments' : c.id = d.id => c = d
        /\ \A c \in comments' : c.id \in 1..ids'.comment
    BY <1>1, <1>4, <1>5 DEF ThreadInv, TableInv, Keys
  <2> QED BY <1>2, <1>5, <2>1 DEF ThreadInv, TableInv, Keys
<1>8. j.q.parent # NoParent =>
        /\ j.q.parent \in 1..ids.comment
        /\ \A c \in comments : c.id = j.q.parent => c.post = j.q.on
  BY DEF ThreadInv, TableInv, Replying
<1>9. References'
  <2>1. \A c \in comments' : \E p \in posts' : p.id = c.post
    BY <1>2, <1>4 DEF ThreadInv, TableInv, References
  <2>2. ASSUME NEW c \in comments', c.parent # NoParent
        PROVE  \E d \in comments' : d.id = c.parent /\ d.post = c.post
    <3>1. CASE c \in comments
      BY <1>4, <2>2, <3>1 DEF ThreadInv, TableInv, References
    <3>2. CASE c = row
      BY <1>2, <1>4, <1>8, <2>2, <3>2
    <3> QED BY <1>4, <3>1, <3>2
  <2> QED BY <1>2, <2>1, <2>2 DEF ThreadInv, TableInv, References
<1>10. ASSUME NEW n \in told
       PROVE  /\ n.kind \in {"comment", "reply"} /\ (n.kind = "reply" => j.q.parent # NoParent)
              /\ n = note(n.kind, j, id) /\ n.row = ids.comment + 1 /\ n.by = j.q.by
              /\ n.post = j.q.on /\ n.parent = j.q.parent
  BY DEF note
<1>11. j.q.on \in 1..ids.post
  BY <1>2 DEF ThreadInv, TableInv, Keys
<1>12. ASSUME NEW n \in told PROVE Clear(n) /\ NoteOK(n)'
  <2>1. /\ n.kind \in {"comment", "reply"} /\ n.row = ids.comment + 1 /\ n.by = j.q.by
        /\ n.post = j.q.on /\ n.parent = j.q.parent /\ (n.kind = "reply" => j.q.parent # NoParent)
    BY <1>10
  <2>2. Clear(n)
    BY <1>1, <2>1 DEF Clear
  <2>3. n.row \in 1..ids'.comment /\ n.post \in 1..ids'.post
    BY <1>1, <1>5, <1>11, <2>1
  <2>4. \A c \in comments' : c.id = n.row => c.by = n.by /\ c.post = n.post /\ c.parent = n.parent
    BY <1>1, <1>4, <2>1 DEF ThreadInv, TableInv, Keys
  <2>5. n.kind = "reply" =>
          n.parent \in 1..ids'.comment /\ \A c \in comments' : c.id = n.parent => c.post = n.post
    BY <1>1, <1>4, <1>5, <1>8, <2>1
  <2> QED BY <2>1, <2>2, <2>3, <2>4, <2>5 DEF NoteOK
<1>13. \A m, n \in told : m.post = n.post /\ (m.kind = n.kind => m = n)
  BY <1>10
<1> HIDE DEF told
<1>14. PICK N : N = told
  OBVIOUS
<1> QED BY <1>3, <1>6, <1>7, <1>9, <1>12, <1>13, <1>14, InsertedStep

LEMMA LikeStep ==
  ASSUME ThreadInv, Stamped', NEW j \in jobs, Commit(j), LikePost(j), ~UNCHANGED <<tables, outbox>>
  PROVE  ThreadInv'
<1> DEFINE id == ids.like + 1
           row == [id |-> id, post |-> j.q.on, by |-> j.q.by, at |-> j.at]
           old == likesOf(j.q.on, j.q.by)
           fresh == IF old = {} THEN {row} ELSE {}
           told == IF old = {} THEN {note("like", j, l.id) : l \in old \cup fresh} ELSE {}
<1>1. ids.post \in Nat /\ ids.comment \in Nat /\ ids.like \in Nat
  BY Counters DEF ThreadInv, TableInv
<1>2. /\ \E r \in posts : r.id = j.q.on
      /\ likes' = likes \cup fresh /\ ids' = [ids EXCEPT !.like = @ + Cardinality(fresh)]
      /\ outbox' = outbox \cup told
      /\ UNCHANGED <<posts, comments>>
  BY DEF LikePost, inserted
<1>3. jobs' \subseteq jobs /\ pushed' = pushed
  BY DEF Commit
<1>4. ids'.post = ids.post /\ ids'.comment = ids.comment /\ ids'.like = ids.like + Cardinality(fresh)
  <2>1. PICK k : k = Cardinality(fresh)
    OBVIOUS
  <2>2. ids' = [ids EXCEPT !.like = ids.like + k] /\ ids \in [post : Nat, comment : Nat, like : Nat]
    BY <1>2, <2>1 DEF ThreadInv, TableInv, Stamped
  <2> QED BY <2>1, <2>2
<1>5. j.q.on \in 1..ids.post
  BY <1>2 DEF ThreadInv, TableInv, Keys
<1>6. References'
  <2>1. \A l \in fresh : l.post = j.q.on
    OBVIOUS
  <2> HIDE DEF fresh
  <2> QED BY <1>2, <2>1 DEF ThreadInv, TableInv, References
<1>7. CASE old = {}
  <2>1. fresh = {row} /\ told = {note("like", j, id)}
    BY <1>7
  <2>2. Cardinality(fresh) = 1
    BY <2>1, FS_Singleton
  <2>3. PICK new : /\ likes' = likes \cup {new} /\ new.id = ids.like + 1 /\ new.post = j.q.on
                   /\ new.by = j.q.by
    BY <1>2, <2>1
  <2>4. FreshRows
    BY <1>1, <1>2, <1>4, <2>2, <2>3 DEF FreshRows
  <2>5. Keys'
    <3>1. /\ \A k, l \in likes' : k.id = l.id => k = l
          /\ \A l \in likes' : l.id \in 1..ids'.like
      BY <1>1, <1>4, <2>2, <2>3 DEF ThreadInv, TableInv, Keys
    <3> QED BY <1>2, <1>4, <3>1 DEF ThreadInv, TableInv, Keys
  <2>6. PICK n : n = note("like", j, id)
    OBVIOUS
  <2>7. n.kind = "like" /\ n.row = ids.like + 1 /\ n.by = j.q.by /\ n.post = j.q.on
    BY <2>6 DEF note
  <2>8. Clear(n) /\ NoteOK(n)'
    <3>1. Clear(n)
      BY <1>1, <2>7 DEF Clear
    <3>2. n.row \in 1..ids'.like /\ n.post \in 1..ids'.post
      BY <1>1, <1>4, <1>5, <2>2, <2>7
    <3>3. \A l \in likes' : l.id = n.row => l.by = n.by /\ l.post = n.post
      BY <1>1, <2>3, <2>7 DEF ThreadInv, TableInv, Keys
    <3> QED BY <2>7, <3>1, <3>2, <3>3 DEF NoteOK
  <2>9. PICK N : N = {n}
    OBVIOUS
  <2>10. outbox' \subseteq outbox \cup N
    BY <1>2, <2>1, <2>6, <2>9
  <2> QED BY <1>3, <1>6, <2>4, <2>5, <2>8, <2>9, <2>10, InsertedStep
<1>8. CASE old # {}
  <2>1. fresh = {} /\ told = {}
    BY <1>8
  <2>2. Cardinality(fresh) = 0
    BY <2>1, FS_EmptySet
  <2>3. likes' = likes /\ outbox' = outbox /\ ids'.like = ids.like
    BY <1>1, <1>2, <1>4, <2>1, <2>2
  <2>4. FreshRows
    BY <1>1, <1>2, <1>4, <2>3 DEF FreshRows
  <2>5. Keys'
    BY <1>2, <1>4, <2>3 DEF ThreadInv, TableInv, Keys
  <2>6. PICK N : N = {}
    OBVIOUS
  <2> QED BY <1>3, <1>6, <2>3, <2>4, <2>5, <2>6, InsertedStep
<1> QED BY <1>7, <1>8

LEMMA CommitStep ==
  ASSUME ThreadInv, Stamped', NEW j \in jobs, Commit(j) PROVE ThreadInv'
<1>1. CASE InsertPost(j)
  BY <1>1, PostStep
<1>2. CASE UNCHANGED <<tables, outbox>>
  <2>1. Fewer /\ References' /\ Notes' \subseteq Notes /\ pushed' = pushed
    BY <1>2, SameTables, SameNotes DEF Commit, ThreadInv
  <2>2. \A k \in jobs' : Replying(k)' \/ Replying(k)
    BY DEF Commit, ThreadInv, TableInv
  <2> QED BY <2>1, <2>2, FewerStep
<1>3. CASE j.q.op = "comment" /\ InsertComment(j)
  BY <1>2, <1>3, CommentStep DEF Commit
<1>4. CASE LikePost(j)
  BY <1>2, <1>4, LikeStep
<1> QED BY <1>1, <1>3, <1>4 DEF Commit

----------------------------------------------------------------------------
(* The goroutine.                                                           *)
LEMMA Rings ==
  ASSUME ThreadInv, NEW n \in outbox, NEW d \in Tokens(n), NEW p, p.to = d.user, p.note = n
  PROVE  /\ Rang(p)
         /\ n.kind \in {"comment", "like"} => \E r \in posts : r.id = n.post /\ r.by = p.to
         /\ n.kind = "reply" => \E r \in posts : r.id = n.post /\ r.by # p.to
<1>1. NoteOK(n)
  BY DEF ThreadInv, NoteInv, Notes
<1>2. Keys /\ References
  BY DEF ThreadInv, TableInv
<1>3. CASE n.kind = "post"
  <2>1. d \in TokensForNewPost(n.by)
    BY <1>3 DEF Tokens
  <2> QED BY <1>3, <2>1 DEF TokensForNewPost, wants, Rang
<1>4. CASE n.kind = "comment"
  <2>1. d \in TokensForReply(n.post, n.by)
    BY <1>4 DEF Tokens
  <2>2. d.user # n.by /\ \E r \in posts : r.id = n.post /\ r.by = d.user
    BY <2>1 DEF TokensForReply, wants
  <2>3. \A r \in posts : r.id = n.post => r.by = d.user
    BY <1>2, <2>2 DEF Keys
  <2> QED BY <1>4, <2>2, <2>3 DEF Rang
<1>5. CASE n.kind = "like"
  <2>1. d \in TokensForLike(n.post, n.by)
    BY <1>5 DEF Tokens
  <2>2. d.user # n.by /\ \E r \in posts : r.id = n.post /\ r.by = d.user
    BY <2>1 DEF TokensForLike, wants
  <2>3. \A r \in posts : r.id = n.post => r.by = d.user
    BY <1>2, <2>2 DEF Keys
  <2> QED BY <1>5, <2>2, <2>3 DEF Rang
<1>6. CASE n.kind = "reply"
  <2>1. d \in TokensForCommentReply(n.parent, n.by)
    BY <1>6 DEF Tokens
  <2>2. PICK pc \in comments : /\ d.user # n.by /\ pc.id = n.parent /\ pc.by = d.user
                               /\ \E r \in posts : r.id = pc.post /\ r.by # d.user
    BY <2>1 DEF TokensForCommentReply, wants
  <2>3. pc.post = n.post
    BY <1>1, <1>6, <2>2 DEF NoteOK
  <2>4. \A r \in posts : r.id = n.post => r.by # d.user
    BY <1>2, <2>2, <2>3 DEF Keys
  <2>5. \A c \in comments : c.id = n.parent => c.by = d.user
    BY <1>2, <2>2 DEF Keys
  <2> QED BY <1>6, <2>2, <2>3, <2>4, <2>5 DEF Rang
<1> QED BY <1>1, <1>3, <1>4, <1>5, <1>6 DEF NoteOK

LEMMA RingsOnce ==
  ASSUME ThreadInv, NEW n \in outbox, NEW d \in Tokens(n), NEW p, p.to = d.user, p.note = n,
         NEW q \in pushed, q.to = p.to, about(q.note) = about(n)
  PROVE  q.note = n
<1>1. n \in Notes /\ q.note \in Notes
  BY DEF Notes
<1>2. q.note.post = n.post /\ (q.note.kind = n.kind => q.note = n)
  BY <1>1 DEF ThreadInv, NoteInv, Distinct
<1>3. Rang(q) /\ NoteOK(n)
  BY <1>1 DEF ThreadInv, PushInv, NoteInv
<1>4. q.note.kind = n.kind \/ {q.note.kind, n.kind} \subseteq {"comment", "reply"}
  BY AboutKind
<1>5. /\ n.kind \in {"comment", "like"} => \E r \in posts : r.id = n.post /\ r.by = p.to
      /\ n.kind = "reply" => \E r \in posts : r.id = n.post /\ r.by # p.to
  BY Rings
<1>6. CASE n.kind = "comment" /\ q.note.kind = "reply"
  BY <1>2, <1>3, <1>5, <1>6 DEF Rang
<1>7. CASE n.kind = "reply" /\ q.note.kind = "comment"
  BY <1>2, <1>3, <1>5, <1>7 DEF Rang
<1> QED BY <1>2, <1>4, <1>6, <1>7

LEMMA NotifyStep ==
  ASSUME ThreadInv, Stamped', NEW n \in outbox, Notify(n) PROVE ThreadInv'
<1>1. /\ UNCHANGED <<tables, jobs>> /\ outbox' \subseteq outbox
      /\ pushed' = pushed \cup {[to |-> d.user, token |-> d.token, note |-> n, opens |-> opens(d.user, n)] :
                                  d \in Tokens(n)}
  BY DEF Notify
<1>2. Fewer /\ References'
  BY <1>1, SameTables DEF ThreadInv
<1>3. FreshRows /\ Keys'
  BY <1>2, FewerIsFresh, FewerKeys DEF ThreadInv, TableInv
<1>4. ASSUME NEW p \in pushed' PROVE p \in pushed \/ (p.note = n /\ \E d \in Tokens(n) : p.to = d.user)
  BY <1>1
<1>5. Notes' \subseteq Notes
  <2>1. \A m \in Notes' : m \in outbox' \/ \E p \in pushed' : m = p.note
    BY DEF Notes
  <2>2. \A p \in pushed : p.note \in Notes
    BY DEF Notes
  <2>3. outbox \subseteq Notes
    BY DEF Notes
  <2> QED BY <1>1, <1>4, <2>1, <2>2, <2>3
<1>6. TableInv'
  <2>1. \A j \in jobs' : Replying(j)'
    BY <1>1, <1>3, ReplyingStays DEF ThreadInv, TableInv
  <2> QED BY <1>2, <1>3, <2>1 DEF TableInv
<1>7. NoteInv'
  <2>1. PICK N : N = {}
    OBVIOUS
  <2> QED BY <1>3, <1>5, <2>1, NotesAdded DEF ThreadInv, TableInv
<1>8. ASSUME NEW p \in pushed' PROVE Rang(p)'
  <2>1. NoteOK(p.note)
    BY <1>4 DEF ThreadInv, NoteInv, Notes
  <2>2. Rang(p)
    BY <1>4, Rings DEF ThreadInv, PushInv
  <2> QED BY <1>3, <2>1, <2>2, RangStays DEF ThreadInv, TableInv
<1>9. ASSUME NEW p \in pushed', NEW q \in pushed', p.to = q.to, about(p.note) = about(q.note)
      PROVE  p.note = q.note
  <2>1. CASE p \in pushed /\ q \in pushed
    BY <1>9, <2>1 DEF ThreadInv, PushInv, Once
  <2>2. CASE p \in pushed /\ q \notin pushed
    BY <1>4, <1>9, <2>2, RingsOnce
  <2>3. CASE p \notin pushed /\ q \in pushed
    BY <1>4, <1>9, <2>3, RingsOnce
  <2>4. CASE p \notin pushed /\ q \notin pushed
    BY <1>4, <2>4
  <2> QED BY <2>1, <2>2, <2>3, <2>4
<1>10. Once'
  BY <1>9 DEF Once, about
<1> QED BY <1>6, <1>7, <1>8, <1>10 DEF ThreadInv, PushInv

----------------------------------------------------------------------------
LEMMA ThreadInit == Init => ThreadInv
<1> SUFFICES ASSUME Init PROVE ThreadInv
  OBVIOUS
<1>1. scene \in Scenes /\ Consistent(scene)
  BY ScenesAreWellFormed DEF Init, ThreadsInit, ScenesAssumption
<1>2. /\ posts = scene.posts /\ comments = scene.comments /\ likes = scene.likes /\ ids = scene.ids
      /\ jobs = {} /\ outbox = {} /\ pushed = {}
  BY DEF Init, ThreadsInit
<1>3. Keys /\ References
  BY <1>1, <1>2 DEF Consistent, Keys, References
<1>4. Notes = {}
  BY <1>2 DEF Notes
<1> QED BY <1>2, <1>3, <1>4, StampedInit
        DEF ThreadInv, TableInv, NoteInv, PushInv, Distinct, Once

LEMMA ThreadStep == ASSUME ThreadInv, ThreadsNext PROVE ThreadInv'
<1>1. Stamped'
  BY StampedStep DEF ThreadInv, TableInv
<1>2. CASE Tick
  BY <1>1, <1>2, IdleStep DEF Tick
<1> QED BY <1>1, <1>2, ArriveStep, ServeStep, CheckStep, BeginStep, CommitStep, NotifyStep DEF ThreadsNext

THEOREM ThreadsInductive == Spec => []ThreadInv
<1>1. ThreadInv /\ [Next]_vars => ThreadInv'
  <2> SUFFICES ASSUME ThreadInv, [Next]_vars PROVE ThreadInv'
    OBVIOUS
  <2>1. CASE Live
    BY <2>1, ThreadStep DEF Live
  <2>2. CASE UNCHANGED threadVars
    <3>1. Stamped' /\ UNCHANGED <<tables, jobs, outbox, pushed>>
      BY <2>2 DEF threadVars, tables, ThreadInv, TableInv, Stamped, Numbered
    <3> QED BY <3>1, IdleStep
  <2> QED BY <2>1, <2>2 DEF Next, NextPage, vars
<1> QED BY <1>1, ThreadInit, PTL DEF Spec

(* What the list of a member holds.                                         *)
LEMMA ItemFields ==
  ASSUME NEW k, NEW r PROVE LET i == item(k, r) IN i.kind = k /\ i.row = r.id /\ i.at = r.at /\ i.by = r.by
BY DEF item

Hears(m, row) == row.by # m /\ row.by \in active /\ <<m, row.by>> \notin blocks
Mine(m) == {p.id : p \in {r \in posts : r.by = m}}

LEMMA Lists ==
  ASSUME NEW m, NEW i
  PROVE  i \in Activity(m) <=>
           \/ \E c \in comments : i = item("comment", c) /\ c.post \in Mine(m) /\ Hears(m, c)
           \/ \E c \in comments : /\ i = item("reply", c) /\ c.post \notin Mine(m) /\ Hears(m, c)
                                  /\ \E pc \in parentOf(c) : pc.by = m
           \/ \E l \in likes : i = item("like", l) /\ l.post \in Mine(m) /\ Hears(m, l)
BY DEF Activity, Mine, Hears

LEMMA ListsRow ==
  ASSUME Keys, NEW m
  PROVE  /\ \A c \in comments :
              item("comment", c) \in Activity(m) <=> c.post \in Mine(m) /\ Hears(m, c)
         /\ \A c \in comments :
              item("reply", c) \in Activity(m) <=>
                c.post \notin Mine(m) /\ Hears(m, c) /\ \E pc \in parentOf(c) : pc.by = m
         /\ \A l \in likes : item("like", l) \in Activity(m) <=> l.post \in Mine(m) /\ Hears(m, l)
<1>1. ASSUME NEW k, NEW a, NEW h, NEW b, item(k, a) = item(h, b) PROVE k = h /\ a.id = b.id
  BY <1>1, ItemFields
<1>2. ASSUME NEW c \in comments
      PROVE  item("comment", c) \in Activity(m) <=> c.post \in Mine(m) /\ Hears(m, c)
  <2>1. \A d \in comments : item("comment", c) = item("comment", d) => c = d
    BY <1>1 DEF Keys
  <2>2. \A r : item("comment", c) # item("reply", r) /\ item("comment", c) # item("like", r)
    BY <1>1
  <2> QED BY <2>1, <2>2, Lists
<1>3. ASSUME NEW c \in comments
      PROVE  item("reply", c) \in Activity(m) <=>
               c.post \notin Mine(m) /\ Hears(m, c) /\ \E pc \in parentOf(c) : pc.by = m
  <2>1. \A d \in comments : item("reply", c) = item("reply", d) => c = d
    BY <1>1 DEF Keys
  <2>2. \A r : item("reply", c) # item("comment", r) /\ item("reply", c) # item("like", r)
    BY <1>1
  <2> QED BY <2>1, <2>2, Lists
<1>4. ASSUME NEW l \in likes
      PROVE  item("like", l) \in Activity(m) <=> l.post \in Mine(m) /\ Hears(m, l)
  <2>1. \A k \in likes : item("like", l) = item("like", k) => l = k
    BY <1>1 DEF Keys
  <2>2. \A r : item("like", l) # item("comment", r) /\ item("like", l) # item("reply", r)
    BY <1>1
  <2> QED BY <2>1, <2>2, Lists
<1> QED BY <1>2, <1>3, <1>4

\* With unique keys a check-in is the member's or it is somebody else's.
LEMMA MineOrNot ==
  ASSUME Keys, NEW m, NEW p, \E r \in posts : r.id = p
  PROVE  /\ p \in Mine(m) <=> \E r \in posts : r.id = p /\ r.by = m
         /\ p \notin Mine(m) <=> \E r \in posts : r.id = p /\ r.by # m
BY DEF Keys, Mine

(* The list of a member and the devices that ring agree on every comment,   *)
(* reply and like that stands: activity.go and the token queries say the    *)
(* same of blocks, of one's own rows, of one's own check-ins.               *)
LEMMA Mirrored ==
  ASSUME ThreadInv, NEW m \in scene.members
  PROVE  /\ reachable(m, "replies") => \A c \in comments : c.by \in active =>
              /\ (item("comment", c) \in Activity(m)) <=> (m \in wouldRing(noteOf("comment", c)))
              /\ c.parent # NoParent =>
                   ((item("reply", c) \in Activity(m)) <=> (m \in wouldRing(noteOf("reply", c))))
         /\ reachable(m, "likes") => \A l \in likes : l.by \in active =>
              ((item("like", l) \in Activity(m)) <=> (m \in wouldRing(noteOf("like", l))))
<1>0. Keys /\ References
  BY DEF ThreadInv, TableInv
<1>1. ASSUME NEW c \in comments, c.by \in active, reachable(m, "replies")
      PROVE  (item("comment", c) \in Activity(m)) <=> (m \in wouldRing(noteOf("comment", c)))
  <2>1. PICK n : n = noteOf("comment", c)
    OBVIOUS
  <2>2. n.kind = "comment" /\ n.by = c.by /\ n.post = c.post
    BY <2>1 DEF noteOf
  <2>3. Tokens(n) = TokensForReply(c.post, c.by)
    BY <2>2 DEF Tokens
  <2>4. m \in wouldRing(n) <=> \E d \in TokensForReply(c.post, c.by) : d.user = m
    BY <2>3 DEF wouldRing
  <2>5. (\E d \in TokensForReply(c.post, c.by) : d.user = m) <=>
          Hears(m, c) /\ \E r \in posts : r.id = c.post /\ r.by = m
    BY <1>1 DEF TokensForReply, wants, reachable, Hears
  <2>6. c.post \in Mine(m) <=> \E r \in posts : r.id = c.post /\ r.by = m
    BY DEF Mine
  <2> QED BY <1>0, <2>1, <2>4, <2>5, <2>6, ListsRow
<1>2. ASSUME NEW c \in comments, c.by \in active, reachable(m, "replies"), c.parent # NoParent
      PROVE  (item("reply", c) \in Activity(m)) <=> (m \in wouldRing(noteOf("reply", c)))
  <2>1. PICK n : n = noteOf("reply", c)
    OBVIOUS
  <2>2. n.kind = "reply" /\ n.by = c.by /\ n.parent = c.parent
    BY <2>1 DEF noteOf
  <2>3. Tokens(n) = TokensForCommentReply(c.parent, c.by)
    BY <2>2 DEF Tokens
  <2>4. m \in wouldRing(n) <=> \E d \in TokensForCommentReply(c.parent, c.by) : d.user = m
    BY <2>3 DEF wouldRing
  <2>5. PICK pc \in comments : pc.id = c.parent /\ pc.post = c.post
    BY <1>0, <1>2 DEF References
  <2>6. \A e \in comments : e.id = c.parent => e = pc
    BY <1>0, <2>5 DEF Keys
  <2>7. (\E d \in TokensForCommentReply(c.parent, c.by) : d.user = m) <=>
          Hears(m, c) /\ pc.by = m /\ \E r \in posts : r.id = c.post /\ r.by # m
    BY <1>2, <2>5, <2>6 DEF TokensForCommentReply, wants, reachable, Hears
  <2>8. (\E e \in parentOf(c) : e.by = m) <=> pc.by = m
    BY <2>5, <2>6 DEF parentOf
  <2>9. c.post \notin Mine(m) <=> \E r \in posts : r.id = c.post /\ r.by # m
    BY <1>0, MineOrNot DEF References
  <2> QED BY <1>0, <2>1, <2>4, <2>7, <2>8, <2>9, ListsRow
<1>3. ASSUME NEW l \in likes, l.by \in active, reachable(m, "likes")
      PROVE  (item("like", l) \in Activity(m)) <=> (m \in wouldRing(noteOf("like", l)))
  <2>1. PICK n : n = noteOf("like", l)
    OBVIOUS
  <2>2. n.kind = "like" /\ n.by = l.by /\ n.post = l.post
    BY <2>1 DEF noteOf
  <2>3. Tokens(n) = TokensForLike(l.post, l.by)
    BY <2>2 DEF Tokens
  <2>4. m \in wouldRing(n) <=> \E d \in TokensForLike(l.post, l.by) : d.user = m
    BY <2>3 DEF wouldRing
  <2>5. (\E d \in TokensForLike(l.post, l.by) : d.user = m) <=>
          Hears(m, l) /\ \E r \in posts : r.id = l.post /\ r.by = m
    BY <1>3 DEF TokensForLike, wants, reachable, Hears
  <2>6. l.post \in Mine(m) <=> \E r \in posts : r.id = l.post /\ r.by = m
    BY DEF Mine
  <2> QED BY <1>0, <2>1, <2>4, <2>5, <2>6, ListsRow
<1> QED BY <1>1, <1>2, <1>3

LEMMA ListedInOnePlace ==
  ASSUME Keys, NEW m, NEW i \in Activity(m), NEW k \in Activity(m), i.kind = "comment", k.kind = "reply"
  PROVE  i.row # k.row
<1>1. PICK c \in comments : i = item("comment", c) /\ c.post \in Mine(m)
  BY Lists, ItemFields
<1>2. PICK d \in comments : k = item("reply", d) /\ d.post \notin Mine(m)
  BY Lists, ItemFields
<1> QED BY <1>1, <1>2, ItemFields DEF Keys

(* Whatever stands is on the lists of exactly those whom a push about it    *)
(* would reach, once.                                                       *)
THEOREM ListsMirrorPushes == Spec => []ActivityMirrorsPush
<1>1. ThreadInv => ActivityMirrorsPush
  <2> SUFFICES ASSUME ThreadInv PROVE ActivityMirrorsPush
    OBVIOUS
  <2>1. Keys
    BY DEF ThreadInv, TableInv
  <2> QED BY <2>1, Mirrored, ListedInOnePlace DEF ActivityMirrorsPush
<1> QED BY <1>1, ThreadsInductive, PTL

(* A push about a row that stands has its line in the list of whom it rang. *)
LEMMA RangIsListed ==
  ASSUME ThreadInv, NEW p \in pushed, p.note.by \in active, <<p.to, p.note.by>> \notin blocks
  PROVE  /\ \A c \in comments : p.note.kind \in {"comment", "reply"} /\ c.id = p.note.row =>
              item(p.note.kind, c) \in Activity(p.to)
         /\ \A l \in likes : p.note.kind = "like" /\ l.id = p.note.row => item("like", l) \in Activity(p.to)
<1>1. PICK n : n = p.note
  OBVIOUS
<1>2. NoteOK(n) /\ Rang(p)
  BY <1>1 DEF ThreadInv, NoteInv, Notes, PushInv
<1>3. Keys /\ References
  BY DEF ThreadInv, TableInv
<1>4. ASSUME NEW row, row.by = n.by PROVE Hears(p.to, row)
  BY <1>1, <1>2, <1>4 DEF Rang, Hears
<1>5. ASSUME NEW c \in comments, n.kind = "comment", c.id = n.row
      PROVE  item("comment", c) \in Activity(p.to)
  <2>1. c.by = n.by /\ c.post = n.post
    BY <1>2, <1>5 DEF NoteOK
  <2>2. \E r \in posts : r.id = c.post /\ r.by = p.to
    BY <1>1, <1>2, <1>3, <1>5, <2>1 DEF References, Rang
  <2>3. c.post \in Mine(p.to)
    BY <2>2 DEF Mine
  <2> QED BY <1>3, <1>4, <2>1, <2>3, ListsRow
<1>6. ASSUME NEW c \in comments, n.kind = "reply", c.id = n.row
      PROVE  item("reply", c) \in Activity(p.to)
  <2>1. c.by = n.by /\ c.post = n.post /\ c.parent = n.parent /\ c.parent # NoParent
    BY <1>2, <1>6 DEF NoteOK, NoParent
  <2>2. \E r \in posts : r.id = c.post /\ r.by # p.to
    BY <1>1, <1>2, <1>3, <1>6, <2>1 DEF References, Rang
  <2>3. c.post \notin Mine(p.to)
    BY <1>3, <2>2, MineOrNot
  <2>4. PICK d \in comments : d.id = c.parent
    BY <1>3, <2>1 DEF References
  <2>5. d.by = p.to
    BY <1>1, <1>2, <1>6, <2>1, <2>4 DEF Rang
  <2>6. \E e \in parentOf(c) : e.by = p.to
    BY <2>4, <2>5 DEF parentOf
  <2> QED BY <1>3, <1>4, <2>1, <2>3, <2>6, ListsRow
<1>7. ASSUME NEW l \in likes, n.kind = "like", l.id = n.row PROVE item("like", l) \in Activity(p.to)
  <2>1. l.by = n.by /\ l.post = n.post
    BY <1>2, <1>7 DEF NoteOK
  <2>2. \E r \in posts : r.id = l.post /\ r.by = p.to
    BY <1>1, <1>2, <1>3, <1>7, <2>1 DEF References, Rang
  <2>3. l.post \in Mine(p.to)
    BY <2>2 DEF Mine
  <2> QED BY <1>3, <1>4, <2>1, <2>3, ListsRow
<1> QED BY <1>1, <1>5, <1>6, <1>7

(* Nobody's devices ring twice about one comment or like, and what rang is  *)
(* listed while it stands, unless blocked or revoked since.                 *)
THEOREM NobodyIsBuzzedTwice == Spec => []BuzzedOnce
<1>1. ThreadInv => BuzzedOnce
  BY RangIsListed DEF ThreadInv, PushInv, Once, BuzzedOnce
<1> QED BY <1>1, ThreadsInductive, PTL
=============================================================================
