--------------------------- MODULE MediaStoreProofs ---------------------------
(***************************************************************************)
(* Proofs about the media files, for any members, files, requests and      *)
(* bounds.  The inductive invariant says of the tables what ties rows to   *)
(* files and references to rows, and of a request, and of two requests,    *)
(* what they have in hand.                                                 *)
(***************************************************************************)
EXTENDS MediaStore, TLAPS

-----------------------------------------------------------------------------
(* The tables.                                                             *)
Tables ==
  /\ accounts \subseteq Member
  /\ DOMAIN rows \subseteq Media /\ rows \in [DOMAIN rows -> Row]
  /\ posts \subseteq Post /\ comments \subseteq Comment
  /\ photo \in [Member -> DOMAIN rows \cup {NoFile}]
  /\ disk \subseteq File /\ job \in [Request -> JobState]
  /\ issued.files \subseteq File /\ issued.posts \in 0..MaxPosts
  /\ issued.comments \in 0..MaxComments /\ ends \in 0..MaxEnds
  /\ issued = [files |-> issued.files, posts |-> issued.posts, comments |-> issued.comments]
  /\ abandoned \subseteq File /\ torn \subseteq Poster

(* Rows belong to accounts, and a reference to the author of what refers.  *)
Owners ==
  /\ \A m \in DOMAIN rows : rows[m].owner \in accounts
  /\ \A x \in posts \cup comments : \A m \in x.media :
       m \in DOMAIN rows /\ m \in x.made /\ rows[m].owner = x.author
  /\ \A c \in comments : \E p \in posts : p.id = c.post
  /\ \A p \in posts : p.id <= issued.posts

(* What a row names has been issued, is named by no other row and is there.*)
RowFiles ==
  /\ disk \subseteq issued.files
  /\ \A m \in DOMAIN rows :
       /\ m \in issued.files /\ m \in disk
       /\ rows[m].poster # NoFile =>
            /\ rows[m].poster \in issued.files /\ rows[m].poster \in disk \cup torn
            /\ \A n \in DOMAIN rows : rows[n].poster = rows[m].poster => n = m

-----------------------------------------------------------------------------
(* A request, by how far it has come.                                      *)
Shape(j) ==
  /\ j.pc = "idle" => j.op = "none"
  /\ j.pc = "saved" => j.op \in {"upload", "poster"}
  /\ j.pc = "snapshot" => j.op = "poster"
  /\ j.pc \in {"saved", "snapshot"} =>
       /\ j.user \in Member /\ j.file \in (IF j.op = "upload" THEN Media ELSE Poster)
       /\ j.file # j.previous
       /\ j.op = "poster" => \E m \in Media : j.media = {m}
  /\ j.pc \notin {"saved", "snapshot"} => j.file = NoFile
  /\ j.pc # "snapshot" => j.previous = NoFile
  /\ j.pc = "checked" => j.op \in {"post", "comment", "photo"} /\ j.user \in Member
  /\ j.pc = "inserted" => j.op \in {"post", "comment"} /\ j.user \in Member
  /\ j.pc \in {"collected", "decide", "remove"} =>
       /\ j.op \in {"delPost", "delComment", "delAccount"}
       /\ j.op = "delAccount" => j.user \in Member
  /\ j.pc \notin {"decide", "remove"} => j.gone = {}
  /\ j.pc \notin {"decide", "remove", "files"} => j.paths = {}

(* Names and ids it uses have been issued.                                 *)
Named(j) ==
  /\ j.file # NoFile => j.file \in issued.files
  /\ j.previous # NoFile => j.previous \in issued.files
  /\ j.paths \subseteq issued.files
  /\ j.pc \in {"checked", "inserted"} => j.media \subseteq issued.files
  /\ j.pc = "inserted" /\ j.op = "post" => j.id \in 1..issued.posts
  /\ j.pc = "inserted" /\ j.op = "comment" => j.id \in CommentId

(* The file it has written is there, and is nobody's yet; the poster it    *)
(* has seen is at most that of its own row.                                *)
Fresh(j) ==
  /\ j.file # NoFile =>
       /\ j.file \in disk /\ j.file \notin DOMAIN rows
       /\ \A m \in DOMAIN rows : rows[m].poster # j.file
  /\ j.previous # NoFile =>
       \A m \in DOMAIN rows : rows[m].poster = j.previous => m \in j.media

(* Before its commit a deletion lists files of the rows it deletes, all of *)
(* them when it is not an account's; after it no row names what it lists.  *)
Lists(j) ==
  /\ j.gone \subseteq DOMAIN rows
  /\ j.pc \in {"decide", "remove"} =>
       /\ \A f \in j.paths : \E m \in j.gone : f \in FilesOf(m)
       /\ j.op # "delAccount" => \A m \in j.gone : FilesOf(m) \subseteq j.paths
  /\ j.pc = "files" =>
       \A f \in j.paths : f \notin DOMAIN rows
                            /\ \A m \in DOMAIN rows : rows[m].poster = f => f \in torn

(* Rows it is about to refer to are its member's, if they are still there. *)
Refers(j) ==
  /\ j.pc \in {"checked", "inserted"} =>
       \A m \in j.media : m \in DOMAIN rows => rows[m].owner = j.user
  /\ j.pc = "inserted" =>
       /\ j.media \subseteq DOMAIN rows
       /\ j.op = "comment" => \E p \in posts : p.id = j.target
       /\ j.op = "post" => \A p \in posts : p.id # j.id

(* What a deletion still sees refers to a row it has done with only when   *)
(* it came after the decision; an account's deletion takes all its rows.   *)
SeenPosts(j) ==
  {p \in posts : ~(j.op = "delPost" /\ p.id = j.target)
                   /\ ~(j.op = "delAccount" /\ p.author = j.user)}
SeenComments(j) ==
  {c \in comments : /\ ~(j.op = "delComment" /\ c.id = j.target)
                    /\ ~(j.op = "delAccount" /\ c.author = j.user)
                    /\ \E p \in SeenPosts(j) : p.id = c.post}
Decided(j) == j.gone \cup (IF j.pc = "remove" THEN j.media ELSE {})
Takes(j) ==
  j.pc \in {"decide", "remove"} =>
    /\ \A x \in SeenPosts(j) \cup SeenComments(j) :
         x.media \cap Decided(j) # {} => x.raced
    /\ j.op = "delAccount" =>
         \A m \in DOMAIN rows : rows[m].owner = j.user => m \in j.gone

JobOK(j) == Shape(j) /\ Named(j) /\ Fresh(j) /\ Lists(j) /\ Refers(j) /\ Takes(j)

(* Two requests: nobody else has a hand on a file just written, no row is  *)
(* deleted twice or while it is being referred to, and nothing is inserted *)
(* under an account or a post that is going.                               *)
Apart(j, k) ==
  /\ j.file # NoFile =>
       /\ j.file # k.file /\ j.file # k.previous /\ j.file \notin k.paths
       /\ k.pc \in {"checked", "inserted"} => j.file \notin k.media
  /\ j.gone \cap k.gone = {}
  /\ k.pc = "inserted" =>
       /\ j.gone \cap k.media = {}
       /\ j.pc = "inserted" /\ j.op = "post" /\ k.op = "post" => j.id # k.id
       /\ j.pc \in {"decide", "remove"} /\ j.op = "delAccount" =>
            /\ j.user # k.user
            /\ k.op = "comment" => \A p \in posts : p.id = k.target => p.author # j.user
       /\ j.pc \in {"decide", "remove"} /\ j.op = "delPost" /\ k.op = "comment" =>
            j.target # k.target

(* The invariant.                                                          *)
Jobs == \A r \in Request : \A j \in JobState : job[r] = j => JobOK(j)
Pairs ==
  \A r, q \in Request : r # q =>
    \A j, k \in JobState : job[r] = j /\ job[q] = k => Apart(j, k)
Inv == Tables /\ Owners /\ RowFiles /\ Jobs /\ Pairs

-----------------------------------------------------------------------------
(* How a step of one request leaves the others.                            *)
Other(r, k) == \E q \in Request \ {r} : job[q] = k

LEMMA Names == NoFile \notin Media /\ NoFile \notin Poster /\ \A f \in Media : f \notin Poster
BY ConstantsAssumption DEF File

LEMMA OneJob ==
  ASSUME Tables, NEW r \in Request, NEW v \in JobState, Set(r, v)
  PROVE  /\ job' \in [Request -> JobState] /\ job'[r] = v
         /\ \A q \in Request \ {r} : job'[q] = job[q]
BY DEF Tables, Set

LEMMA InHand ==
  ASSUME Inv, NEW r \in Request
  PROVE  /\ job[r] \in JobState /\ JobOK(job[r])
         /\ \A k : Other(r, k) => /\ k \in JobState /\ JobOK(k)
                                  /\ Apart(job[r], k) /\ Apart(k, job[r])
<1>1. job[r] \in JobState /\ \A q \in Request : job[q] \in JobState
  BY DEF Inv, Tables
<1>2. \A q \in Request : JobOK(job[q])
  BY <1>1 DEF Inv, Jobs
<1>3. \A q \in Request \ {r} : Apart(job[r], job[q]) /\ Apart(job[q], job[r])
  BY <1>1 DEF Inv, Pairs
<1> QED BY <1>1, <1>2, <1>3 DEF Other

LEMMA HandOver ==
  ASSUME Inv, NEW r \in Request, NEW v \in JobState, Set(r, v), JobOK(v)',
         \A k \in JobState : Other(r, k) => JobOK(k)' /\ Apart(v, k)' /\ Apart(k, v)',
         \A j, k \in JobState : Other(r, j) /\ Other(r, k) /\ Apart(j, k) => Apart(j, k)'
  PROVE  Jobs' /\ Pairs'
<1>1. /\ job' \in [Request -> JobState] /\ job'[r] = v
      /\ \A q \in Request \ {r} : job'[q] = job[q] /\ Other(r, job[q]) /\ job[q] \in JobState
  BY OneJob DEF Inv, Tables, Other
<1>2. Jobs'
  <2> SUFFICES ASSUME NEW q \in Request, NEW j \in JobState, job'[q] = j PROVE JobOK(j)'
    BY DEF Jobs
  <2>1. CASE q = r
    BY <1>1, <2>1
  <2>2. CASE q # r
    BY <1>1, <2>2
  <2> QED BY <2>1, <2>2
<1>3. Pairs'
  <2> SUFFICES ASSUME NEW p \in Request, NEW q \in Request, p # q, NEW j \in JobState, NEW k \in JobState,
                      job'[p] = j, job'[q] = k
               PROVE  Apart(j, k)'
    BY DEF Pairs
  <2>1. CASE p = r
    BY <1>1, <2>1
  <2>2. CASE q = r
    BY <1>1, <2>2
  <2>3. CASE p # r /\ q # r
    <3>1. job[p] = j /\ job[q] = k /\ Other(r, j) /\ Other(r, k)
      BY <1>1, <2>3
    <3>2. Apart(j, k)
      BY <3>1 DEF Inv, Pairs
    <3> QED BY <3>1, <3>2
  <2> QED BY <2>1, <2>2, <2>3
<1> QED BY <1>2, <1>3

LEMMA ApartSame == ASSUME UNCHANGED posts, NEW j, NEW k, Apart(j, k) PROVE Apart(j, k)'
BY DEF Apart

LEMMA JobSame ==
  ASSUME UNCHANGED <<rows, posts, comments, disk, issued, torn>>, NEW j, JobOK(j) PROVE JobOK(j)'
<1>1. Named(j)' /\ Fresh(j)'
  BY DEF JobOK, Named, Fresh
<1>2. Lists(j)'
  BY DEF JobOK, Lists, FilesOf
<1>3. Refers(j)'
  BY DEF JobOK, Refers
<1>4. Takes(j)'
  BY DEF JobOK, Takes, SeenPosts, SeenComments, Decided
<1> QED BY <1>1, <1>2, <1>3, <1>4 DEF JobOK, Shape

\* A step that changes what one request has in hand, and no table.
LEMMA LocalStep ==
  ASSUME Inv, NEW r \in Request, NEW v \in JobState, Set(r, v),
         UNCHANGED <<accounts, rows, posts, comments, photo, disk, issued, torn>>,
         ends' \in 0..MaxEnds, abandoned' \subseteq File,
         JobOK(v), \A k \in JobState : Other(r, k) => Apart(v, k) /\ Apart(k, v)
  PROVE  Inv'
<1>1. Tables'
  BY OneJob DEF Inv, Tables
<1>2. Owners' /\ RowFiles'
  BY DEF Inv, Owners, RowFiles
<1>3. JobOK(v)'
  BY JobSame
<1>4. \A k \in JobState : Other(r, k) => JobOK(k)' /\ Apart(v, k)' /\ Apart(k, v)'
  BY InHand, JobSame, ApartSame
<1>5. \A j, k \in JobState : Other(r, j) /\ Other(r, k) /\ Apart(j, k) => Apart(j, k)'
  BY ApartSame
<1>6. Jobs' /\ Pairs'
  BY <1>3, <1>4, <1>5, HandOver
<1> QED BY <1>1, <1>2, <1>6 DEF Inv

\* A request with nothing in hand.
Bare(j) ==
  /\ j.pc \in {"idle", "collected"} /\ j.file = NoFile /\ j.previous = NoFile
  /\ j.gone = {} /\ j.paths = {}
  /\ j.pc = "idle" => j.op = "none"
  /\ j.pc = "collected" => /\ j.op \in {"delPost", "delComment", "delAccount"}
                           /\ j.op = "delAccount" => j.user \in Member

LEMMA IdleIsBare == Idle \in JobState /\ Bare(Idle)
BY DEF Idle, JobState, Bare, Pc, Op

LEMMA BareOK ==
  ASSUME NEW j \in JobState, Bare(j)
  PROVE  JobOK(j) /\ \A k \in JobState : Apart(j, k) /\ Apart(k, j)
<1>1. Shape(j)
  BY DEF Bare, Shape
<1>2. Named(j) /\ Fresh(j) /\ Lists(j) /\ Refers(j) /\ Takes(j)
  BY DEF Bare, Named, Fresh, Lists, Refers, Takes
<1>3. \A k \in JobState : Apart(j, k) /\ Apart(k, j)
  BY DEF Bare, Apart
<1> QED BY <1>1, <1>2, <1>3 DEF JobOK

LEMMA BareOKNext ==
  ASSUME NEW j \in JobState, Bare(j)
  PROVE  JobOK(j)' /\ \A k \in JobState : Apart(j, k)' /\ Apart(k, j)'
<1>1. Shape(j)
  BY DEF Bare, Shape
<1>2. Named(j)' /\ Fresh(j)' /\ Lists(j)' /\ Refers(j)' /\ Takes(j)'
  BY DEF Bare, Named, Fresh, Lists, Refers, Takes
<1>3. \A k \in JobState : Apart(j, k)' /\ Apart(k, j)'
  BY DEF Bare, Apart
<1> QED BY <1>1, <1>2, <1>3 DEF JobOK, Shape

LEMMA BareStep ==
  ASSUME Inv, NEW r \in Request, NEW v \in JobState, Set(r, v), Bare(v),
         UNCHANGED <<accounts, rows, posts, comments, photo, disk, issued, torn>>,
         ends' \in 0..MaxEnds, abandoned' \subseteq File
  PROVE  Inv'
BY BareOK, LocalStep

-----------------------------------------------------------------------------
(* Requests that end or begin with nothing in hand.                        *)
LEMMA EndStep ==
  ASSUME Inv, NEW r \in Request, End(r),
         UNCHANGED <<accounts, rows, posts, comments, photo, disk, issued, torn>>,
         ends' \in 0..MaxEnds, abandoned' \subseteq File
  PROVE  Inv'
BY IdleIsBare, BareStep DEF End

LEMMA Bounded ==
  ASSUME Inv
  PROVE  ends \in 0..MaxEnds /\ abandoned \subseteq File /\ (ends < MaxEnds => ends + 1 \in 0..MaxEnds)
<1>1. ends \in 0..MaxEnds /\ abandoned \subseteq File /\ MaxEnds \in Nat
  BY ConstantsAssumption DEF Inv, Tables
<1> QED BY <1>1

LEMMA EndsKeep ==
  ASSUME Inv, NEW r \in Request,
         CreateMediaFails(r) \/ InsertFails(r) \/ DeleteNothing(r) \/ Rollback(r)
  PROVE  Inv'
<1>1. CASE CreateMediaFails(r)
  <2>1. job[r].file \in File
    <3>1. job[r].file \in Media \cup Poster
      BY <1>1, InHand DEF CreateMediaFails, JobOK, Shape
    <3> QED BY <3>1 DEF File
  <2> QED BY <1>1, <2>1, Bounded, EndStep DEF CreateMediaFails, db
<1>2. CASE InsertFails(r) \/ DeleteNothing(r) \/ Rollback(r)
  BY <1>2, Bounded, EndStep DEF InsertFails, DeleteNothing, Rollback, db, history
<1> QED BY <1>1, <1>2

LEMMA CollectKeeps ==
  ASSUME Inv, NEW r \in Request,
         \/ \E p \in posts : CollectPost(r, p)
         \/ \E c \in comments : CollectComment(r, c)
         \/ \E u \in Member : CollectAccount(r, u)
  PROVE  Inv'
<1>1. ASSUME NEW p \in posts, CollectPost(r, p) PROVE Inv'
  <2>1. p.id \in Nat /\ p.media \subseteq Media
    BY DEF Inv, Tables, Post, PostId
  <2> DEFINE w == [Idle EXCEPT !.pc = "collected", !.op = "delPost", !.target = p.id, !.todo = p.media]
  <2>2. Set(r, w)
    BY <1>1 DEF CollectPost
  <2>3. w \in JobState /\ Bare(w)
    BY <2>1 DEF Idle, JobState, Bare, Pc, Op
  <2> HIDE DEF w
  <2>4. PICK v \in JobState : Set(r, v) /\ Bare(v)
    BY <2>2, <2>3
  <2> QED BY <1>1, <2>4, Bounded, BareStep DEF CollectPost, db, history
<1>2. ASSUME NEW c \in comments, CollectComment(r, c) PROVE Inv'
  <2>1. c.id \in Nat /\ c.media \subseteq Media
    BY DEF Inv, Tables, Comment, CommentId
  <2> DEFINE w == [Idle EXCEPT !.pc = "collected", !.op = "delComment", !.target = c.id, !.todo = c.media]
  <2>2. Set(r, w)
    BY <1>2 DEF CollectComment
  <2>3. w \in JobState /\ Bare(w)
    BY <2>1 DEF Idle, JobState, Bare, Pc, Op
  <2> HIDE DEF w
  <2>4. PICK v \in JobState : Set(r, v) /\ Bare(v)
    BY <2>2, <2>3
  <2> QED BY <1>2, <2>4, Bounded, BareStep DEF CollectComment, db, history
<1>3. ASSUME NEW u \in Member, CollectAccount(r, u) PROVE Inv'
  <2> DEFINE ms == {m \in DOMAIN rows : rows[m].owner = u}
                     \cup UNION {p.media : p \in {q \in posts : q.author = u}}
             w == [Idle EXCEPT !.pc = "collected", !.op = "delAccount", !.user = u, !.todo = ms]
  <2>1. ms \in SUBSET Media
    <3>1. \A p \in posts : p.media \subseteq Media
      BY DEF Inv, Tables, Post
    <3>2. DOMAIN rows \subseteq Media
      BY DEF Inv, Tables
    <3> QED BY <3>1, <3>2
  <2>2. Set(r, w)
    BY <1>3 DEF CollectAccount
  <2> HIDE DEF ms
  <2>3. w \in JobState /\ Bare(w)
    BY <2>1 DEF Idle, JobState, Bare, Pc, Op
  <2> HIDE DEF w
  <2>4. PICK v \in JobState : Set(r, v) /\ Bare(v)
    BY <2>2, <2>3
  <2> QED BY <1>3, <2>4, Bounded, BareStep DEF CollectAccount, db, history
<1> QED BY <1>1, <1>2, <1>3

-----------------------------------------------------------------------------
(* Checks before an insertion.                                             *)
LEMMA CheckedStep ==
  ASSUME Inv, NEW r \in Request, NEW v \in JobState, Set(r, v),
         v.pc = "checked", v.op \in {"post", "comment", "photo"}, v.user \in Member,
         v.file = NoFile, v.previous = NoFile, v.gone = {}, v.paths = {},
         \A m \in v.media : m \in DOMAIN rows /\ rows[m].owner = v.user,
         UNCHANGED <<db, disk, issued, ends, history>>
  PROVE  Inv'
<1>1. JobOK(v)
  <2>1. Shape(v) /\ Fresh(v) /\ Lists(v) /\ Refers(v) /\ Takes(v)
    BY DEF Shape, Fresh, Lists, Refers, Takes
  <2>2. Named(v)
    BY DEF Named, Inv, RowFiles
  <2> QED BY <2>1, <2>2 DEF JobOK
<1>2. ASSUME NEW k \in JobState, Other(r, k) PROVE Apart(v, k) /\ Apart(k, v)
  <2>1. JobOK(k)
    BY <1>2, InHand
  <2>2. k.file # NoFile => k.file \notin v.media
    BY <2>1 DEF JobOK, Fresh
  <2> QED BY <2>2 DEF Apart
<1> QED BY <1>1, <1>2, Bounded, LocalStep DEF db, history

LEMMA CheckKeeps ==
  ASSUME Inv, NEW r \in Request, NEW u \in Member,
         \/ \E ms \in SUBSET Media : CheckPost(r, u, ms) \/ \E p \in posts : CheckComment(r, u, p.id, ms)
         \/ \E m \in Media : CheckPhoto(r, u, m)
  PROVE  Inv'
<1>1. ASSUME NEW ms \in SUBSET Media, CheckPost(r, u, ms) PROVE Inv'
  <2> DEFINE w == [Idle EXCEPT !.pc = "checked", !.op = "post", !.user = u, !.media = ms]
  <2>2. Set(r, w)
    BY <1>1 DEF CheckPost
  <2>3. /\ w \in JobState /\ w.pc = "checked" /\ w.op = "post" /\ w.user = u /\ w.media = ms
        /\ w.file = NoFile /\ w.previous = NoFile /\ w.gone = {} /\ w.paths = {}
    BY DEF Idle, JobState, Pc, Op
  <2> HIDE DEF w
  <2>4. PICK v \in JobState : Set(r, v) /\ v = w
    BY <2>2, <2>3
  <2> QED BY <1>1, <2>3, <2>4, CheckedStep DEF CheckPost
<1>2. ASSUME NEW ms \in SUBSET Media, NEW p \in posts, CheckComment(r, u, p.id, ms) PROVE Inv'
  <2>1. p.id \in Nat
    BY DEF Inv, Tables, Post, PostId
  <2> DEFINE w == [Idle EXCEPT !.pc = "checked", !.op = "comment", !.user = u, !.media = ms, !.target = p.id]
  <2>2. Set(r, w)
    BY <1>2 DEF CheckComment
  <2>3. /\ w \in JobState /\ w.pc = "checked" /\ w.op = "comment" /\ w.user = u /\ w.media = ms
        /\ w.file = NoFile /\ w.previous = NoFile /\ w.gone = {} /\ w.paths = {}
    BY <2>1 DEF Idle, JobState, Pc, Op
  <2> HIDE DEF w
  <2>4. PICK v \in JobState : Set(r, v) /\ v = w
    BY <2>2, <2>3
  <2> QED BY <1>2, <2>3, <2>4, CheckedStep DEF CheckComment
<1>3. ASSUME NEW m \in Media, CheckPhoto(r, u, m) PROVE Inv'
  <2> DEFINE w == [Idle EXCEPT !.pc = "checked", !.op = "photo", !.user = u, !.media = {m}]
  <2>2. Set(r, w)
    BY <1>3 DEF CheckPhoto
  <2>3. /\ w \in JobState /\ w.pc = "checked" /\ w.op = "photo" /\ w.user = u /\ w.media = {m}
        /\ w.file = NoFile /\ w.previous = NoFile /\ w.gone = {} /\ w.paths = {}
    BY DEF Idle, JobState, Pc, Op
  <2> HIDE DEF w
  <2>4. PICK v \in JobState : Set(r, v) /\ v = w
    BY <2>2, <2>3
  <2> QED BY <1>3, <2>3, <2>4, CheckedStep DEF CheckPhoto
<1> QED BY <1>1, <1>2, <1>3

-----------------------------------------------------------------------------
(* Deletions up to their commit.                                           *)
LEMMA OtherFree ==
  ASSUME Inv, NEW r \in Request, NEW k, Other(r, k)
  PROVE  /\ \A m : ~Dying(m) => m \notin k.gone
         /\ \A m : ~KeyShared(m) => (k.pc = "inserted" => m \notin k.media)
         /\ \E q \in Request : job[q] = k /\ q # r
BY DEF Other, Dying, KeyShared

LEMMA BeginsDeletion ==
  ASSUME Inv, NEW r \in Request, NEW v \in JobState, Set(r, v), v.pc = "decide",
         v.op \in {"delPost", "delComment", "delAccount"}, v.op = "delAccount" => v.user \in Member,
         v.file = NoFile, v.previous = NoFile, v.paths = {},
         v.gone = (IF v.op = "delAccount" THEN {m \in DOMAIN rows : rows[m].owner = v.user} ELSE {}),
         \A m \in v.gone : ~Dying(m) /\ ~KeyShared(m),
         \A k \in JobState : Other(r, k) /\ k.pc = "inserted" =>
           /\ v.op = "delAccount" => /\ v.user # k.user
                                     /\ \A p \in posts : p.id = k.target => p.author # v.user
           /\ v.op = "delPost" /\ k.op = "comment" => v.target # k.target,
         UNCHANGED <<db, disk, issued, ends, history>>
  PROVE  Inv'
<1>1. Shape(v) /\ Named(v) /\ Fresh(v) /\ Refers(v)
  BY DEF Shape, Named, Fresh, Refers
<1>2. Lists(v)
  BY DEF Lists
<1>3. Takes(v)
  <2>1. ASSUME NEW x \in SeenPosts(v) \cup SeenComments(v), NEW m \in x.media \cap Decided(v) PROVE FALSE
    <3>1. v.op = "delAccount" /\ rows[m].owner = v.user
      BY <2>1 DEF Decided
    <3>2. x.author # v.user /\ x \in posts \cup comments
      BY <3>1 DEF SeenPosts, SeenComments
    <3> QED BY <2>1, <3>1, <3>2 DEF Inv, Owners
  <2> QED BY <2>1 DEF Takes
<1>4. ASSUME NEW k \in JobState, Other(r, k) PROVE Apart(v, k) /\ Apart(k, v)
  <2>1. v.gone \cap k.gone = {} /\ (k.pc = "inserted" => v.gone \cap k.media = {})
    BY <1>4, OtherFree
  <2>2. Apart(v, k)
    BY <1>4, <2>1 DEF Apart
  <2>3. Apart(k, v)
    BY <2>1 DEF Apart
  <2> QED BY <2>2, <2>3
<1>5. JobOK(v)
  BY <1>1, <1>2, <1>3 DEF JobOK
<1> QED BY <1>4, <1>5, Bounded, LocalStep DEF db, history

LEMMA DeleteRowKeeps == ASSUME Inv, NEW r \in Request, DeleteRow(r) PROVE Inv'
<1> DEFINE j == job[r]
<1>1. j \in JobState /\ Shape(j) /\ j.pc = "collected" /\ UNCHANGED <<db, disk, issued, ends, history>>
  BY InHand DEF DeleteRow, JobOK
<1>2. /\ j.file = NoFile /\ j.previous = NoFile /\ j.gone = {} /\ j.paths = {}
      /\ j.op \in {"delPost", "delComment", "delAccount"} /\ (j.op = "delAccount" => j.user \in Member)
  BY <1>1 DEF Shape
<1>3. CASE j.op \in {"delPost", "delComment"}
  <2> DEFINE w == [j EXCEPT !.pc = "decide"]
  <2>1. Set(r, w)
    BY <1>3 DEF DeleteRow
  <2>2. /\ w \in JobState /\ w.pc = "decide" /\ w.op = j.op /\ w.user = j.user /\ w.file = NoFile
        /\ w.previous = NoFile /\ w.paths = {} /\ w.gone = {} /\ w.target = j.target
    BY <1>1, <1>2 DEF JobState, Pc
  <2>3. ASSUME NEW k, Other(r, k), k.pc = "inserted", k.op = "comment", j.op = "delPost"
        PROVE  j.target # k.target
    <3>1. PICK q \in Request : job[q] = k
      BY <2>3 DEF Other
    <3>2. ~(Inserting(q) /\ job[q].op = "comment" /\ job[q].target = j.target)
      BY <2>3 DEF DeleteRow
    <3> QED BY <2>3, <3>1, <3>2 DEF Inserting
  <2> HIDE DEF w, j
  <2>4. PICK v \in JobState : Set(r, v) /\ v = w
    BY <2>1, <2>2
  <2>5. v.op # "delAccount" /\ v.op \in {"delPost", "delComment", "delAccount"}
    BY <1>3, <2>2, <2>4
  <2>6. v.gone = (IF v.op = "delAccount" THEN {m \in DOMAIN rows : rows[m].owner = v.user} ELSE {})
    BY <2>2, <2>4, <2>5
  <2>7. \A k \in JobState : Other(r, k) /\ k.pc = "inserted" =>
           /\ v.op = "delAccount" => /\ v.user # k.user
                                     /\ \A p \in posts : p.id = k.target => p.author # v.user
           /\ v.op = "delPost" /\ k.op = "comment" => v.target # k.target
    BY <2>2, <2>3, <2>4, <2>5
  <2> QED BY <1>1, <2>2, <2>4, <2>5, <2>6, <2>7, BeginsDeletion
<1>4. CASE j.op = "delAccount"
  <2> DEFINE owned == {m \in DOMAIN rows : rows[m].owner = j.user}
             w == [j EXCEPT !.pc = "decide", !.gone = owned]
  <2>1. Set(r, w) /\ \A m \in owned : ~Dying(m) /\ ~KeyShared(m)
    BY <1>4 DEF DeleteRow
  <2>0. owned \subseteq Media
    BY DEF Inv, Tables
  <2>2. /\ w \in JobState /\ w.pc = "decide" /\ w.op = j.op /\ w.user = j.user /\ w.file = NoFile
        /\ w.previous = NoFile /\ w.paths = {} /\ w.gone = owned /\ w.target = j.target
    <3> HIDE DEF owned
    <3> QED BY <1>1, <1>2, <2>0 DEF JobState, Pc
  <2>3. ASSUME NEW k, Other(r, k), k.pc = "inserted"
        PROVE  j.user # k.user /\ \A p \in posts : p.id = k.target => p.author # j.user
    <3>1. PICK q \in Request : job[q] = k
      BY <2>3 DEF Other
    <3>2. ~(Inserting(q) /\ (job[q].user = j.user \/
                              \E p \in posts : p.id = job[q].target /\ p.author = j.user))
      BY <1>4 DEF DeleteRow
    <3> QED BY <2>3, <3>1, <3>2 DEF Inserting
  <2>5. w.gone = {m \in DOMAIN rows : rows[m].owner = w.user}
    BY <2>2
  <2> HIDE DEF w, j, owned
  <2>4. PICK v \in JobState : Set(r, v) /\ v = w
    BY <2>1, <2>2
  <2> QED BY <1>1, <1>2, <1>4, <2>1, <2>2, <2>3, <2>4, <2>5, BeginsDeletion
<1> QED BY <1>2, <1>3, <1>4

\* The requests are apart as before when one has neither written nor
\* inserted anything, and takes no more rows.
LEMMA DecideKeeps == ASSUME Inv, NEW r \in Request, NEW m \in job[r].todo, Decide(r, m) PROVE Inv'
<1> DEFINE j == job[r]
<1>1. /\ j \in JobState /\ JobOK(j) /\ j.pc = "decide" /\ m \in Media
      /\ UNCHANGED <<db, disk, issued, ends, history>>
  BY InHand DEF Decide, JobState
<1>2. PICK v \in JobState :
        /\ Set(r, v) /\ v.pc \in {"decide", "remove"}
        /\ v.op = j.op /\ v.user = j.user /\ v.file = j.file /\ v.target = j.target
        /\ v.previous = j.previous /\ v.gone = j.gone /\ v.paths = j.paths
        /\ v.pc = "remove" => Orphan(r, m) /\ v.media = {m}
  <2>1. CASE Orphan(r, m)
    <3> DEFINE w == [j EXCEPT !.pc = "remove", !.media = {m}, !.todo = @ \ {m}]
    <3>1. Set(r, w)
      BY <2>1 DEF Decide
    <3>2. /\ w \in JobState /\ w.pc = "remove" /\ w.op = j.op /\ w.user = j.user /\ w.file = j.file
          /\ w.target = j.target /\ w.previous = j.previous /\ w.gone = j.gone /\ w.paths = j.paths
          /\ w.media = {m}
      BY <1>1 DEF JobState, Pc
    <3> HIDE DEF w
    <3> QED BY <2>1, <3>1, <3>2
  <2>2. CASE ~Orphan(r, m)
    <3> DEFINE w == [j EXCEPT !.todo = @ \ {m}]
    <3>1. Set(r, w)
      BY <2>2 DEF Decide
    <3>2. /\ w \in JobState /\ w.pc = "decide" /\ w.op = j.op /\ w.user = j.user /\ w.file = j.file
          /\ w.target = j.target /\ w.previous = j.previous /\ w.gone = j.gone /\ w.paths = j.paths
      BY <1>1 DEF JobState
    <3> HIDE DEF w
    <3> QED BY <3>1, <3>2
  <2> QED BY <2>1, <2>2
<1>3. SeenPosts(v) = PostsSeen(r) /\ SeenComments(v) = CommentsSeen(r)
      /\ SeenPosts(j) = PostsSeen(r) /\ SeenComments(j) = CommentsSeen(r)
  BY <1>2 DEF SeenPosts, SeenComments, PostsSeen, CommentsSeen
<1> HIDE DEF j
<1>4. JobOK(v)
  <2>1. Shape(v) /\ Named(v) /\ Fresh(v) /\ Refers(v)
    BY <1>1, <1>2 DEF JobOK, Shape, Named, Fresh, Refers
  <2>2. Lists(v)
    BY <1>1, <1>2 DEF JobOK, Lists
  <2>3. Takes(v)
    <3>1. ASSUME NEW x \in PostsSeen(r) \cup CommentsSeen(r), x.media \cap Decided(v) # {} PROVE x.raced
      <4>1. v.pc = "remove" => m \notin x.media
        BY <1>2 DEF Orphan
      <4>2. x.media \cap j.gone # {}
        BY <1>2, <3>1, <4>1 DEF Decided
      <4> QED BY <1>1, <1>3, <4>2 DEF JobOK, Takes, Decided
    <3>2. v.op = "delAccount" => \A n \in DOMAIN rows : rows[n].owner = v.user => n \in v.gone
      BY <1>1, <1>2 DEF JobOK, Takes
    <3> QED BY <1>3, <3>1, <3>2 DEF Takes
  <2> QED BY <2>1, <2>2, <2>3 DEF JobOK
<1>5. ASSUME NEW k \in JobState, Other(r, k) PROVE Apart(v, k) /\ Apart(k, v)
  <2>1. Apart(j, k) /\ Apart(k, j)
    BY <1>5, InHand DEF j
  <2> QED BY <1>1, <1>2, <2>1 DEF Apart
<1> QED BY <1>1, <1>2, <1>4, <1>5, Bounded, LocalStep DEF db, history

LEMMA FilesAreFiles ==
  ASSUME Inv, NEW m \in DOMAIN rows
  PROVE  /\ FilesOf(m) \subseteq File /\ FilesOf(m) \subseteq issued.files /\ NoFile \notin FilesOf(m)
         /\ m \in Media /\ rows[m].poster \in Poster \cup {NoFile} /\ rows[m].owner \in Member
<1>1. m \in Media /\ rows[m].poster \in Poster \cup {NoFile} /\ rows[m].owner \in Member
  BY DEF Inv, Tables, Row
<1> QED BY <1>1, Names DEF FilesOf, File, Inv, RowFiles

LEMMA RemoveKeeps == ASSUME Inv, NEW r \in Request, Remove(r) PROVE Inv'
<1> DEFINE j == job[r]
<1>1. /\ j \in JobState /\ JobOK(j) /\ j.pc = "remove"
      /\ UNCHANGED <<db, disk, issued, ends, history>>
  BY InHand DEF Remove
<1>2. PICK m \in j.media :
        /\ ~Dying(m) /\ ~KeyShared(m)
        /\ IF m \in DOMAIN rows
            THEN Set(r, [j EXCEPT !.pc = "decide", !.media = {}, !.gone = @ \cup {m}, !.paths = @ \cup FilesOf(m)])
            ELSE Set(r, [j EXCEPT !.pc = "decide", !.media = {}])
  BY DEF Remove
<1>3. PICK v \in JobState :
        /\ Set(r, v) /\ v.pc = "decide"
        /\ v.op = j.op /\ v.user = j.user /\ v.file = j.file /\ v.target = j.target /\ v.previous = j.previous
        /\ v.gone = j.gone \cup ({m} \cap DOMAIN rows)
        /\ v.paths = j.paths \cup (IF m \in DOMAIN rows THEN FilesOf(m) ELSE {})
  <2>1. CASE m \in DOMAIN rows
    <3> DEFINE w == [j EXCEPT !.pc = "decide", !.media = {}, !.gone = @ \cup {m}, !.paths = @ \cup FilesOf(m)]
    <3>1. Set(r, w)
      BY <1>2, <2>1
    <3>2. FilesOf(m) \subseteq File /\ m \in Media
      BY <2>1, FilesAreFiles
    <3>3. /\ w \in JobState /\ w.pc = "decide" /\ w.op = j.op /\ w.user = j.user /\ w.file = j.file
          /\ w.target = j.target /\ w.previous = j.previous /\ w.gone = j.gone \cup {m}
          /\ w.paths = j.paths \cup FilesOf(m)
      BY <1>1, <3>2 DEF JobState, Pc
    <3> HIDE DEF w, j
    <3> QED BY <2>1, <3>1, <3>3
  <2>2. CASE m \notin DOMAIN rows
    <3> DEFINE w == [j EXCEPT !.pc = "decide", !.media = {}]
    <3>1. Set(r, w)
      BY <1>2, <2>2
    <3>3. /\ w \in JobState /\ w.pc = "decide" /\ w.op = j.op /\ w.user = j.user /\ w.file = j.file
          /\ w.target = j.target /\ w.previous = j.previous /\ w.gone = j.gone /\ w.paths = j.paths
      BY <1>1 DEF JobState, Pc
    <3> HIDE DEF w, j
    <3> QED BY <2>2, <3>1, <3>3
  <2> QED BY <2>1, <2>2
<1> HIDE DEF j
<1>4. JobOK(v)
  <2>1. Shape(v) /\ Fresh(v) /\ Refers(v)
    BY <1>1, <1>3 DEF JobOK, Shape, Fresh, Refers
  <2>2. Named(v)
    BY <1>1, <1>3, FilesAreFiles DEF JobOK, Named
  <2>3. Lists(v)
    BY <1>1, <1>3 DEF JobOK, Lists
  <2>4. SeenPosts(v) = SeenPosts(j) /\ SeenComments(v) = SeenComments(j)
    BY <1>3 DEF SeenPosts, SeenComments
  <2>5. Decided(v) \subseteq Decided(j)
    BY <1>1, <1>3 DEF Decided
  <2>6. Takes(v)
    BY <1>1, <1>3, <2>4, <2>5 DEF JobOK, Takes
  <2> QED BY <2>1, <2>2, <2>3, <2>6 DEF JobOK
<1>5. ASSUME NEW k \in JobState, Other(r, k) PROVE Apart(v, k) /\ Apart(k, v)
  <2>1. Apart(j, k) /\ Apart(k, j) /\ JobOK(k)
    BY <1>5, InHand DEF j
  <2>2. m \notin k.gone /\ (k.pc = "inserted" => m \notin k.media)
    BY <1>2, <1>5, OtherFree
  <2>3. k.file # NoFile /\ m \in DOMAIN rows => k.file \notin FilesOf(m)
    BY <2>1 DEF JobOK, Fresh, FilesOf
  <2>4. Apart(v, k)
    BY <1>1, <1>3, <2>1, <2>2 DEF Apart
  <2>5. Apart(k, v)
    BY <1>1, <1>3, <2>1, <2>2, <2>3 DEF Apart
  <2> QED BY <2>4, <2>5
<1> QED BY <1>1, <1>3, <1>4, <1>5, Bounded, LocalStep DEF db, history

-----------------------------------------------------------------------------
(* New files and ids.                                                      *)

\* What others have in hand stays as it was when names are issued and files
\* written.
LEMMA JobGrow ==
  ASSUME Inv, UNCHANGED <<rows, posts, comments, torn>>, disk \subseteq disk',
         issued.files \subseteq issued'.files, issued.posts <= issued'.posts, issued'.posts \in Nat,
         NEW j \in JobState, JobOK(j)
  PROVE  JobOK(j)'
<1>1. Fresh(j)'
  BY DEF JobOK, Fresh
<1>2. Lists(j)'
  BY DEF JobOK, Lists, FilesOf
<1>3. Refers(j)'
  BY DEF JobOK, Refers
<1>4. Takes(j)'
  BY DEF JobOK, Takes, SeenPosts, SeenComments, Decided
<1>5. Named(j)'
  <2>1. issued.posts \in Nat
    BY DEF Inv, Tables
  <2> QED BY <2>1 DEF JobOK, Named
<1> QED BY <1>1, <1>2, <1>3, <1>4, <1>5 DEF JobOK, Shape

LEMMA SavingStep ==
  ASSUME Inv, NEW r \in Request, NEW v \in JobState, Set(r, v), NEW f \in File, f \notin issued.files,
         v.pc = "saved", v.op \in {"upload", "poster"}, v.user \in Member, v.file = f,
         f \in (IF v.op = "upload" THEN Media ELSE Poster), v.op = "poster" => \E m \in Media : v.media = {m},
         v.previous = NoFile, v.gone = {}, v.paths = {},
         disk' = disk \cup {f}, issued' = [issued EXCEPT !.files = @ \cup {f}],
         UNCHANGED <<db, ends, history>>
  PROVE  Inv'
<1>0. f # NoFile
  BY ConstantsAssumption
<1>1. /\ issued'.files = issued.files \cup {f} /\ issued'.posts = issued.posts
      /\ issued'.comments = issued.comments
      /\ issued' = [files |-> issued'.files, posts |-> issued'.posts, comments |-> issued'.comments]
      /\ issued.posts \in Nat
  <2>1. issued = [files |-> issued.files, posts |-> issued.posts, comments |-> issued.comments]
        /\ issued.posts \in Nat
    BY DEF Inv, Tables
  <2>2. issued' = [files |-> issued.files \cup {f}, posts |-> issued.posts, comments |-> issued.comments]
    BY <2>1
  <2> QED BY <2>1, <2>2
<1>2. UNCHANGED <<accounts, rows, posts, comments, photo, torn, abandoned>>
  BY DEF db, history
<1>3. Tables'
  BY <1>1, <1>2, OneJob DEF Inv, Tables
<1>4. Owners'
  BY <1>1, <1>2 DEF Inv, Owners
<1>5. RowFiles'
  BY <1>1, <1>2 DEF Inv, RowFiles
<1>6. f \notin disk /\ f \notin DOMAIN rows /\ \A m \in DOMAIN rows : rows[m].poster # f
  BY <1>0 DEF Inv, RowFiles
<1>7. JobOK(v)'
  <2>1. Shape(v)
    BY <1>0 DEF Shape
  <2>2. Named(v)'
    BY <1>1 DEF Named
  <2>3. Fresh(v)'
    BY <1>2, <1>6 DEF Fresh
  <2>4. Lists(v)' /\ Refers(v)' /\ Takes(v)'
    BY DEF Lists, Refers, Takes
  <2> QED BY <2>1, <2>2, <2>3, <2>4 DEF JobOK, Shape
<1>8. ASSUME NEW k \in JobState, Other(r, k) PROVE JobOK(k)' /\ Apart(v, k)' /\ Apart(k, v)'
  <2>1. JobOK(k)
    BY <1>8, InHand
  <2>2. JobOK(k)'
    BY <1>1, <1>2, <2>1, JobGrow
  <2>3. k.file # f /\ k.previous # f /\ f \notin k.paths
        /\ (k.pc \in {"checked", "inserted"} => f \notin k.media)
    BY <1>0, <2>1 DEF JobOK, Named
  <2> QED BY <2>2, <2>3 DEF Apart
<1>9. \A j, k \in JobState : Other(r, j) /\ Other(r, k) /\ Apart(j, k) => Apart(j, k)'
  BY <1>2, ApartSame
<1>10. Jobs' /\ Pairs'
  BY <1>7, <1>8, <1>9, HandOver
<1> QED BY <1>3, <1>4, <1>5, <1>10 DEF Inv

LEMMA SaveKeeps ==
  ASSUME Inv, NEW r \in Request, NEW u \in Member, NEW m \in Media,
         SaveFile(r, u, m) \/ \E f \in Poster : SavePoster(r, u, m, f)
  PROVE  Inv'
<1>1. CASE SaveFile(r, u, m)
  <2> DEFINE w == [Idle EXCEPT !.pc = "saved", !.op = "upload", !.user = u, !.file = m]
  <2>1. Set(r, w)
    BY <1>1 DEF SaveFile
  <2>2. /\ w \in JobState /\ w.pc = "saved" /\ w.op = "upload" /\ w.user = u /\ w.file = m
        /\ w.previous = NoFile /\ w.gone = {} /\ w.paths = {}
    BY DEF Idle, JobState, Pc, Op, File
  <2> HIDE DEF w
  <2>3. PICK v \in JobState : Set(r, v) /\ v = w
    BY <2>1, <2>2
  <2>4. m \in File
    BY DEF File
  <2> QED BY <1>1, <2>2, <2>3, <2>4, SavingStep DEF SaveFile
<1>2. ASSUME NEW f \in Poster, SavePoster(r, u, m, f) PROVE Inv'
  <2> DEFINE w == [Idle EXCEPT !.pc = "saved", !.op = "poster", !.user = u, !.media = {m}, !.file = f]
  <2>1. Set(r, w)
    BY <1>2 DEF SavePoster
  <2>2. /\ w \in JobState /\ w.pc = "saved" /\ w.op = "poster" /\ w.user = u /\ w.file = f
        /\ w.media = {m} /\ w.previous = NoFile /\ w.gone = {} /\ w.paths = {}
    BY DEF Idle, JobState, Pc, Op, File
  <2> HIDE DEF w
  <2>3. PICK v \in JobState : Set(r, v) /\ v = w
    BY <2>1, <2>2
  <2>4. f \in File
    BY DEF File
  <2> QED BY <1>2, <2>2, <2>3, <2>4, SavingStep DEF SavePoster
<1> QED BY <1>1, <1>2

LEMMA InsertKeeps == ASSUME Inv, NEW r \in Request, Insert(r) PROVE Inv'
<1> DEFINE j == job[r]
<1>1. /\ j \in JobState /\ JobOK(j) /\ j.pc = "checked" /\ j.op \in {"post", "comment"}
      /\ ~AccountGoing(j.user) /\ \A m \in j.media : m \in DOMAIN rows /\ ~Dying(m)
      /\ UNCHANGED <<db, disk, ends, history>>
  BY InHand DEF Insert
<1>2. /\ issued = [files |-> issued.files, posts |-> issued.posts, comments |-> issued.comments]
      /\ issued.posts \in 0..MaxPosts /\ issued.comments \in 0..MaxComments
      /\ MaxPosts \in Nat /\ MaxComments \in Nat
  BY ConstantsAssumption DEF Inv, Tables
<1>3. PICK v \in JobState :
        /\ Set(r, v) /\ v.pc = "inserted" /\ v.op = j.op /\ v.user = j.user /\ v.media = j.media
        /\ v.file = j.file /\ v.target = j.target /\ v.previous = j.previous
        /\ v.gone = j.gone /\ v.paths = j.paths
        /\ \/ /\ j.op = "post" /\ issued.posts < MaxPosts /\ v.id = issued.posts + 1
              /\ issued' = [issued EXCEPT !.posts = @ + 1]
           \/ /\ j.op = "comment" /\ issued.comments < MaxComments /\ v.id = issued.comments + 1
              /\ issued' = [issued EXCEPT !.comments = @ + 1]
              /\ (\E p \in posts : p.id = j.target) /\ ~PostGoing(j.target)
  <2>1. CASE /\ j.op = "post" /\ issued.posts < MaxPosts
             /\ issued' = [issued EXCEPT !.posts = @ + 1]
             /\ Set(r, [j EXCEPT !.pc = "inserted", !.id = issued.posts + 1])
    <3> DEFINE w == [j EXCEPT !.pc = "inserted", !.id = issued.posts + 1]
    <3>1. issued.posts + 1 \in Nat
      BY <1>2
    <3>2. /\ w \in JobState /\ w.pc = "inserted" /\ w.op = j.op /\ w.user = j.user /\ w.media = j.media
          /\ w.file = j.file /\ w.target = j.target /\ w.previous = j.previous
          /\ w.gone = j.gone /\ w.paths = j.paths /\ w.id = issued.posts + 1
      BY <1>1, <3>1 DEF JobState, Pc
    <3>3. Set(r, w)
      BY <2>1
    <3> HIDE DEF w, j
    <3> QED BY <2>1, <3>2, <3>3
  <2>2. CASE /\ j.op = "comment" /\ issued.comments < MaxComments
             /\ (\E p \in posts : p.id = j.target) /\ ~PostGoing(j.target)
             /\ issued' = [issued EXCEPT !.comments = @ + 1]
             /\ Set(r, [j EXCEPT !.pc = "inserted", !.id = issued.comments + 1])
    <3> DEFINE w == [j EXCEPT !.pc = "inserted", !.id = issued.comments + 1]
    <3>1. issued.comments + 1 \in Nat
      BY <1>2
    <3>2. /\ w \in JobState /\ w.pc = "inserted" /\ w.op = j.op /\ w.user = j.user /\ w.media = j.media
          /\ w.file = j.file /\ w.target = j.target /\ w.previous = j.previous
          /\ w.gone = j.gone /\ w.paths = j.paths /\ w.id = issued.comments + 1
      BY <1>1, <3>1 DEF JobState, Pc
    <3>3. Set(r, w)
      BY <2>2
    <3> HIDE DEF w, j
    <3> QED BY <2>2, <3>2, <3>3
  <2> QED BY <2>1, <2>2 DEF Insert
<1> HIDE DEF j
<1>4. /\ issued' = [files |-> issued'.files, posts |-> issued'.posts, comments |-> issued'.comments]
      /\ issued'.files = issued.files
      /\ issued'.posts \in 0..MaxPosts /\ issued.posts <= issued'.posts /\ issued'.posts \in Nat
      /\ issued'.comments \in 0..MaxComments
      /\ j.op = "post" => v.id = issued'.posts /\ v.id = issued.posts + 1
      /\ j.op = "comment" => v.id \in CommentId
  <2>1. CASE j.op = "post"
    <3>1. issued' = [files |-> issued.files, posts |-> issued.posts + 1, comments |-> issued.comments]
          /\ issued.posts < MaxPosts /\ v.id = issued.posts + 1
      BY <1>2, <1>3, <2>1
    <3> QED BY <1>2, <2>1, <3>1
  <2>2. CASE j.op = "comment"
    <3>1. issued' = [files |-> issued.files, posts |-> issued.posts, comments |-> issued.comments + 1]
          /\ issued.comments < MaxComments /\ v.id = issued.comments + 1
      BY <1>2, <1>3, <2>2
    <3> QED BY <1>2, <2>2, <3>1 DEF CommentId
  <2> QED BY <1>1, <2>1, <2>2
<1>5. UNCHANGED <<accounts, rows, posts, comments, photo, disk, torn, abandoned, ends>>
  BY <1>1 DEF db, history
<1>6. Tables'
  BY <1>3, <1>4, <1>5, OneJob DEF Inv, Tables
<1>7. \A p \in posts : p.id \in Nat /\ p.id <= issued.posts
  BY DEF Inv, Tables, Owners, Post, PostId
<1>8. Owners' /\ RowFiles'
  <2>1. RowFiles'
    BY <1>4, <1>5 DEF Inv, RowFiles
  <2>2. \A p \in posts : p.id <= issued'.posts
    BY <1>2, <1>4, <1>7
  <2> QED BY <1>5, <2>1, <2>2 DEF Inv, Owners
<1>9. JobOK(v)'
  <2>1. Shape(v) /\ Fresh(v)' /\ Lists(v)' /\ Takes(v)'
    BY <1>1, <1>3, <1>5 DEF JobOK, Shape, Fresh, Lists, Takes
  <2>2. Named(v)'
    <3>1. v.op = "post" => v.id \in 1..issued'.posts
      BY <1>2, <1>3, <1>4
    <3> QED BY <1>1, <1>3, <1>4, <3>1 DEF JobOK, Shape, Named
  <2>3. Refers(v)'
    <3>1. j.op = "post" => \A p \in posts : p.id # v.id
      BY <1>2, <1>4, <1>7
    <3>2. j.op = "comment" => \E p \in posts : p.id = v.target
      BY <1>3
    <3>3. v.media \subseteq DOMAIN rows /\ \A m \in v.media : rows[m].owner = v.user
      BY <1>1, <1>3 DEF JobOK, Refers
    <3> QED BY <1>3, <1>5, <3>1, <3>2, <3>3 DEF Refers
  <2> QED BY <2>1, <2>2, <2>3 DEF JobOK, Shape
<1>10. ASSUME NEW k \in JobState, Other(r, k) PROVE JobOK(k)' /\ Apart(v, k)' /\ Apart(k, v)'
  <2>1. JobOK(k) /\ Apart(j, k) /\ Apart(k, j)
    BY <1>10, InHand DEF j
  <2>2. JobOK(k)'
    BY <1>4, <1>5, <2>1, JobGrow
  <2>3. k.pc = "inserted" /\ k.op = "post" /\ j.op = "post" => v.id # k.id
    <3>1. k.pc = "inserted" /\ k.op = "post" => k.id \in 1..issued.posts
      BY <2>1 DEF JobOK, Named
    <3> QED BY <1>2, <1>4, <3>1
  <2>4. Apart(v, k)
    BY <1>1, <1>3, <2>1, <2>3 DEF Apart, JobOK, Shape
  <2>5. PICK q \in Request : job[q] = k
    BY <1>10 DEF Other
  <2>6. k.pc \in {"decide", "remove"} /\ k.op = "delAccount" =>
          /\ k.user # v.user
          /\ v.op = "comment" => \A p \in posts : p.id = v.target => p.author # k.user
    BY <1>1, <1>3, <2>5 DEF AccountGoing, PostGoing, InDeletion
  <2>7. k.pc \in {"decide", "remove"} /\ k.op = "delPost" /\ v.op = "comment" => k.target # v.target
    BY <1>1, <1>3, <2>5 DEF PostGoing, InDeletion
  <2>8. k.gone \cap v.media = {}
    BY <1>1, <1>3, <1>10, OtherFree
  <2>9. Apart(k, v)
    BY <1>1, <1>3, <2>1, <2>3, <2>6, <2>7, <2>8 DEF Apart
  <2> QED BY <1>5, <2>2, <2>4, <2>9, ApartSame
<1>11. \A i, k \in JobState : Other(r, i) /\ Other(r, k) /\ Apart(i, k) => Apart(i, k)'
  BY <1>5, ApartSame
<1>12. Jobs' /\ Pairs'
  BY <1>3, <1>9, <1>10, <1>11, HandOver
<1> QED BY <1>6, <1>8, <1>12 DEF Inv

-----------------------------------------------------------------------------
(* Requests left with files to delete.                                     *)
Dropping(v) ==
  /\ v.pc \in {"idle", "files"} /\ v.file = NoFile /\ v.previous = NoFile /\ v.gone = {}
  /\ v.pc = "idle" => v.op = "none" /\ v.paths = {}

LEMMA ToFilesDrops ==
  ASSUME Inv, NEW r \in Request, NEW P \in SUBSET File, ToFiles(r, P)
  PROVE  \E v \in JobState : Set(r, v) /\ Dropping(v) /\ v.paths = P
<1>1. CASE P = {}
  <2>1. Idle \in JobState /\ Dropping(Idle) /\ Idle.paths = P
    BY <1>1, IdleIsBare DEF Bare, Dropping, Idle
  <2>2. Set(r, Idle)
    BY <1>1 DEF ToFiles
  <2> QED BY <2>1, <2>2
<1>2. CASE P # {}
  <2> DEFINE w == [Idle EXCEPT !.pc = "files", !.op = job[r].op, !.paths = P]
  <2>1. Set(r, w)
    BY <1>2 DEF ToFiles
  <2>2. job[r].op \in Op
    BY InHand DEF JobState
  <2>3. w \in JobState /\ Dropping(w) /\ w.paths = P
    BY <2>2 DEF Idle, JobState, Pc, Dropping
  <2> HIDE DEF w
  <2> QED BY <2>1, <2>3
<1> QED BY <1>1, <1>2

LEMMA DroppingOK ==
  ASSUME NEW v \in JobState, Dropping(v), v.paths \subseteq issued'.files,
         \A f \in v.paths : f \notin DOMAIN rows'
                              /\ \A m \in DOMAIN rows' : rows'[m].poster = f => f \in torn'
  PROVE  JobOK(v)'
<1>1. Shape(v)
  BY DEF Dropping, Shape
<1>2. Named(v)' /\ Fresh(v)' /\ Lists(v)' /\ Refers(v)' /\ Takes(v)'
  BY DEF Dropping, Named, Fresh, Lists, Refers, Takes
<1> QED BY <1>1, <1>2 DEF JobOK, Shape

LEMMA DroppingApart ==
  ASSUME NEW v, Dropping(v), NEW k, k.file # NoFile => k.file \notin v.paths
  PROVE  Apart(v, k)' /\ Apart(k, v)'
BY DEF Dropping, Apart

\* The file of a request, when it gives it up.
LEMMA DropNewStep ==
  ASSUME Inv, NEW r \in Request, job[r].pc \in {"saved", "snapshot"}, ToFiles(r, DropNew(r)),
         UNCHANGED <<db, disk, issued, torn, abandoned>>, ends' \in 0..MaxEnds
  PROVE  Inv'
<1> DEFINE j == job[r]
<1>1. j \in JobState /\ JobOK(j)
  BY InHand
<1>2. j.file \in File /\ j.file # NoFile
  <2>1. j.file \in Media \cup Poster
    BY <1>1 DEF JobOK, Shape
  <2> QED BY <2>1, ConstantsAssumption DEF File
<1>3. PICK v \in JobState : Set(r, v) /\ Dropping(v) /\ v.paths = {j.file}
  BY <1>2, ToFilesDrops DEF DropNew
<1> HIDE DEF j
<1>4. UNCHANGED <<accounts, rows, posts, comments, photo>>
  BY DEF db
<1>5. Tables'
  BY <1>3, <1>4, OneJob DEF Inv, Tables
<1>6. Owners' /\ RowFiles'
  BY <1>4 DEF Inv, Owners, RowFiles
<1>7. JobOK(v)'
  BY <1>1, <1>2, <1>3, <1>4, DroppingOK DEF JobOK, Named, Fresh
<1>8. ASSUME NEW k \in JobState, Other(r, k) PROVE JobOK(k)' /\ Apart(v, k)' /\ Apart(k, v)'
  <2>1. JobOK(k) /\ Apart(k, j)
    BY <1>8, InHand DEF j
  <2>2. k.file # NoFile => k.file \notin v.paths
    BY <1>3, <2>1 DEF Apart
  <2> QED BY <1>3, <1>4, <2>1, <2>2, DroppingApart, JobSame
<1>9. \A i, k \in JobState : Other(r, i) /\ Other(r, k) /\ Apart(i, k) => Apart(i, k)'
  BY <1>4, ApartSame
<1>10. Jobs' /\ Pairs'
  BY <1>3, <1>7, <1>8, <1>9, HandOver
<1> QED BY <1>5, <1>6, <1>10 DEF Inv

-----------------------------------------------------------------------------
(* Poster frames.                                                          *)
LEMMA PosterFields ==
  ASSUME Inv, NEW r \in Request, job[r].pc \in {"saved", "snapshot"}, job[r].op = "poster"
  PROVE  /\ job[r].file \in Poster /\ job[r].file # NoFile
         /\ \E m \in Media : job[r].media = {m}
BY InHand, Names DEF JobOK, Shape

LEMMA PosterSnapshotKeeps == ASSUME Inv, NEW r \in Request, PosterSnapshot(r) PROVE Inv'
<1> DEFINE j == job[r]
<1>1. /\ j \in JobState /\ JobOK(j) /\ j.pc = "saved" /\ j.op = "poster"
      /\ UNCHANGED <<db, disk, issued, ends, history>>
  BY InHand DEF PosterSnapshot
<1>2. PICK m \in j.media :
       IF Owned(r, m) THEN Set(r, [j EXCEPT !.pc = "snapshot", !.previous = rows[m].poster])
       ELSE ToFiles(r, DropNew(r))
  BY DEF PosterSnapshot
<1>3. CASE ~Owned(r, m)
  BY <1>1, <1>2, <1>3, Bounded, DropNewStep DEF history
<1>4. CASE Owned(r, m)
  <2> DEFINE w == [j EXCEPT !.pc = "snapshot", !.previous = rows[m].poster]
  <2>1. m \in DOMAIN rows /\ rows[m].poster \in Poster \cup {NoFile}
    BY <1>4, FilesAreFiles DEF Owned
  <2>2. /\ w \in JobState /\ w.pc = "snapshot" /\ w.op = j.op /\ w.user = j.user /\ w.media = j.media
        /\ w.file = j.file /\ w.previous = rows[m].poster /\ w.gone = j.gone /\ w.paths = j.paths
    BY <1>1, <2>1 DEF JobState, Pc
  <2>3. Set(r, w)
    BY <1>2, <1>4
  <2> HIDE DEF w, j
  <2>4. PICK v \in JobState : Set(r, v) /\ v = w
    BY <2>2, <2>3
  <2>5. JobOK(v)
    <3>1. Shape(v)
      <4>1. j.file # NoFile
        BY <1>1, PosterFields DEF j
      <4> QED BY <1>1, <2>1, <2>2, <2>4, <4>1 DEF JobOK, Shape, Fresh
    <3>2. Named(v)
      BY <1>1, <2>1, <2>2, <2>4 DEF JobOK, Named, Inv, RowFiles
    <3>3. Fresh(v)
      BY <1>1, <2>1, <2>2, <2>4 DEF JobOK, Fresh, Inv, RowFiles
    <3>4. Lists(v) /\ Refers(v) /\ Takes(v)
      BY <1>1, <2>2, <2>4 DEF JobOK, Shape, Lists, Refers, Takes
    <3> QED BY <3>1, <3>2, <3>3, <3>4 DEF JobOK
  <2>6. ASSUME NEW k \in JobState, Other(r, k) PROVE Apart(v, k) /\ Apart(k, v)
    <3>1. JobOK(k) /\ Apart(j, k) /\ Apart(k, j)
      BY <2>6, InHand DEF j
    <3>2. k.file # NoFile => k.file # rows[m].poster
      BY <2>1, <3>1 DEF JobOK, Fresh
    <3>3. Apart(v, k)
      BY <1>1, <2>2, <2>4, <3>1 DEF Apart
    <3>4. Apart(k, v)
      BY <1>1, <2>2, <2>4, <3>1, <3>2 DEF Apart
    <3> QED BY <3>3, <3>4
  <2> QED BY <1>1, <2>4, <2>5, <2>6, Bounded, LocalStep DEF db, history
<1> QED BY <1>3, <1>4

\* The statement gives the row its new poster; what it replaced is dropped,
\* or the new one is when the statement seemed to fail.
LEMMA PosterStep ==
  ASSUME Inv, NEW r \in Request, job[r].pc = "snapshot", NEW m \in job[r].media, ~Dying(m), Owned(r, m),
         rows' = [rows EXCEPT ![m].poster = job[r].file],
         NEW v \in JobState, Set(r, v), Dropping(v),
         torn \subseteq torn', torn' \subseteq Poster, abandoned' \subseteq File, ends' \in 0..MaxEnds,
         \A f \in v.paths : \/ f = job[r].file /\ f \in torn'
                            \/ f = job[r].previous /\ f # NoFile,
         UNCHANGED <<accounts, posts, comments, photo, disk, issued>>
  PROVE  Inv'
<1> DEFINE j == job[r]
<1>1. /\ j \in JobState /\ JobOK(j) /\ j.op = "poster" /\ j.file \in Poster /\ j.file # NoFile
      /\ j.media = {m} /\ m \in DOMAIN rows
  BY InHand, PosterFields DEF JobOK, Shape, Owned
<1>2. /\ DOMAIN rows' = DOMAIN rows
      /\ rows'[m].poster = j.file /\ rows'[m].owner = rows[m].owner /\ rows'[m] \in Row
      /\ \A n \in DOMAIN rows : n # m => rows'[n] = rows[n]
      /\ \A n \in DOMAIN rows : rows'[n].owner = rows[n].owner
      /\ rows' = [n \in DOMAIN rows |-> rows'[n]]
  <2>1. rows[m] \in Row /\ rows = [n \in DOMAIN rows |-> rows[n]]
    BY <1>1 DEF Inv, Tables
  <2>2. rows' = [n \in DOMAIN rows |-> IF n = m THEN [rows[m] EXCEPT !.poster = j.file] ELSE rows[n]]
    BY <1>1, <2>1
  <2>3. [rows[m] EXCEPT !.poster = j.file] \in Row /\ [rows[m] EXCEPT !.poster = j.file].poster = j.file
        /\ [rows[m] EXCEPT !.poster = j.file].owner = rows[m].owner
    BY <1>1, <2>1 DEF Row
  <2> HIDE DEF j
  <2> QED BY <1>1, <2>2, <2>3
<1>3. /\ j.file \in issued.files /\ j.file \in disk /\ j.file \notin DOMAIN rows
      /\ \A n \in DOMAIN rows : rows[n].poster # j.file
      /\ j.file # j.previous /\ (j.previous # NoFile => j.previous \in issued.files /\ j.previous \in Poster)
      /\ \A n \in DOMAIN rows : j.previous # NoFile /\ rows[n].poster = j.previous => n = m
  BY <1>1 DEF JobOK, Shape, Named, Fresh, JobState
<1> HIDE DEF j
<1>4. Tables'
  <2>1. rows' \in [DOMAIN rows' -> Row]
    BY <1>1, <1>2 DEF Inv, Tables
  <2> QED BY <1>2, <2>1, OneJob DEF Inv, Tables
<1>5. Owners'
  BY <1>2 DEF Inv, Owners
<1>6. RowFiles'
  <2>1. disk' \subseteq issued'.files
    BY DEF Inv, RowFiles
  <2>2. ASSUME NEW n \in DOMAIN rows
        PROVE  /\ n \in issued.files /\ n \in disk
               /\ rows'[n].poster # NoFile =>
                    /\ rows'[n].poster \in issued.files /\ rows'[n].poster \in disk \cup torn'
                    /\ \A i \in DOMAIN rows : rows'[i].poster = rows'[n].poster => i = n
    <3>1. n \in issued.files /\ n \in disk
      BY DEF Inv, RowFiles
    <3>2. CASE n = m
      BY <1>1, <1>2, <1>3, <3>1, <3>2
    <3>3. CASE n # m
      <4>1. rows'[n] = rows[n]
        BY <1>2, <3>3
      <4>2. rows[n].poster # NoFile =>
              /\ rows[n].poster \in issued.files /\ rows[n].poster \in disk \cup torn'
              /\ \A i \in DOMAIN rows : rows[i].poster = rows[n].poster => i = n
        BY DEF Inv, RowFiles
      <4> QED BY <1>2, <1>3, <3>1, <4>1, <4>2
    <3> QED BY <3>2, <3>3
  <2> QED BY <1>2, <2>1, <2>2 DEF RowFiles
<1>7. JobOK(v)'
  <2>1. v.paths \subseteq issued'.files
    BY <1>3 DEF j
  <2>2. \A f \in v.paths : f \notin DOMAIN rows'
    <3>1. DOMAIN rows \subseteq Media
      BY DEF Inv, Tables
    <3> QED BY <1>1, <1>2, <1>3, <3>1, Names DEF j
  <2>3. ASSUME NEW f \in v.paths, NEW n \in DOMAIN rows, rows'[n].poster = f PROVE f \in torn'
    <3>1. CASE f = j.file /\ f \in torn'
      BY <3>1
    <3>2. CASE f = j.previous /\ f # NoFile
      BY <1>2, <1>3, <2>3, <3>2
    <3> QED BY <3>1, <3>2 DEF j
  <2> QED BY <1>2, <2>1, <2>2, <2>3, DroppingOK
<1>8. ASSUME NEW k \in JobState, Other(r, k) PROVE JobOK(k)' /\ Apart(v, k)' /\ Apart(k, v)'
  <2>1. JobOK(k) /\ Apart(j, k) /\ Apart(k, j) /\ m \notin k.gone
    BY <1>8, InHand, OtherFree DEF j
  <2>2. j.file # k.file /\ j.file # k.previous /\ j.file \notin k.paths
    BY <1>1, <2>1 DEF Apart
  <2>3. k.file # NoFile => k.file \notin v.paths
    <3>1. k.file # NoFile => k.file # j.file /\ k.file # j.previous
      BY <2>1 DEF Apart
    <3> QED BY <3>1 DEF j
  <2>4. Named(k)' /\ Shape(k)
    BY <2>1 DEF JobOK, Named
  <2>5. Fresh(k)'
    <3>1. \A n \in DOMAIN rows : k.file # NoFile => rows'[n].poster # k.file
      BY <1>2, <2>1, <2>2 DEF JobOK, Fresh
    <3>2. \A n \in DOMAIN rows : k.previous # NoFile /\ rows'[n].poster = k.previous => n \in k.media
      BY <1>2, <2>1, <2>2 DEF JobOK, Fresh
    <3>3. k.file # NoFile => k.file \in disk /\ k.file \notin DOMAIN rows
      BY <2>1 DEF JobOK, Fresh
    <3> QED BY <1>2, <3>1, <3>2, <3>3 DEF Fresh
  <2>6. Lists(k)'
    <3>1. k.gone \subseteq DOMAIN rows
      BY <2>1 DEF JobOK, Lists
    <3>2. \A n \in k.gone : FilesOf(n)' = FilesOf(n)
      BY <1>2, <2>1, <3>1 DEF FilesOf
    <3>3. k.pc \in {"decide", "remove"} =>
            /\ \A f \in k.paths : \E n \in k.gone : f \in FilesOf(n)'
            /\ k.op # "delAccount" => \A n \in k.gone : FilesOf(n)' \subseteq k.paths
      BY <2>1, <3>2 DEF JobOK, Lists
    <3>4. k.pc = "files" =>
            \A f \in k.paths : f \notin DOMAIN rows
                                /\ \A n \in DOMAIN rows : rows'[n].poster = f => f \in torn'
      BY <1>2, <2>1, <2>2 DEF JobOK, Lists
    <3> QED BY <1>2, <3>1, <3>3, <3>4 DEF Lists
  <2>7. Refers(k)' /\ Takes(k)'
    <3>1. Refers(k)'
      BY <1>2, <2>1 DEF JobOK, Refers
    <3>2. SeenPosts(k)' = SeenPosts(k) /\ SeenComments(k)' = SeenComments(k)
      BY DEF SeenPosts, SeenComments
    <3>3. Takes(k)'
      BY <1>2, <2>1, <3>2 DEF JobOK, Takes, Decided
    <3> QED BY <3>1, <3>3
  <2> QED BY <2>3, <2>4, <2>5, <2>6, <2>7, DroppingApart DEF JobOK, Shape
<1>9. \A i, k \in JobState : Other(r, i) /\ Other(r, k) /\ Apart(i, k) => Apart(i, k)'
  BY ApartSame
<1>10. Jobs' /\ Pairs'
  BY <1>7, <1>8, <1>9, HandOver
<1> QED BY <1>4, <1>5, <1>6, <1>10 DEF Inv

LEMMA SetMediaPosterKeeps == ASSUME Inv, NEW r \in Request, SetMediaPoster(r) PROVE Inv'
<1>1. /\ job[r].pc = "snapshot" /\ UNCHANGED <<accounts, posts, comments, photo, disk, issued, ends, torn>>
      /\ torn \subseteq Poster /\ DropPrevious(r) \subseteq File
  BY InHand DEF SetMediaPoster, Inv, Tables, DropPrevious, JobState, File
<1>2. PICK m \in job[r].media :
       /\ ~Dying(m)
       /\ IF Owned(r, m)
            THEN /\ rows' = [rows EXCEPT ![m].poster = job[r].file]
                 /\ ToFiles(r, DropPrevious(r))
                 /\ abandoned' = abandoned \cup ({rows[m].poster} \ {job[r].previous, NoFile})
            ELSE /\ ToFiles(r, DropNew(r))
                 /\ UNCHANGED <<rows, abandoned>>
  BY DEF SetMediaPoster
<1>3. CASE Owned(r, m)
  <2>1. PICK v \in JobState : Set(r, v) /\ Dropping(v) /\ v.paths = DropPrevious(r)
    BY <1>1, <1>2, <1>3, ToFilesDrops
  <2>2. \A f \in v.paths : f = job[r].previous /\ f # NoFile
    BY <2>1 DEF DropPrevious
  <2>3. abandoned' \subseteq File
    <3>1. m \in DOMAIN rows /\ abandoned \subseteq File
      BY <1>3, Bounded DEF Owned
    <3>2. rows[m].poster \in Poster \cup {NoFile}
      BY <3>1, FilesAreFiles
    <3> QED BY <1>2, <1>3, <3>1, <3>2 DEF File
  <2> QED BY <1>1, <1>2, <1>3, <2>1, <2>2, <2>3, Bounded, PosterStep
<1>4. CASE ~Owned(r, m)
  BY <1>1, <1>2, <1>4, Bounded, DropNewStep DEF db
<1> QED BY <1>3, <1>4

LEMMA SetMediaPosterFailsKeeps == ASSUME Inv, NEW r \in Request, SetMediaPosterFails(r) PROVE Inv'
<1>1. /\ job[r].pc = "snapshot" /\ UNCHANGED <<accounts, posts, comments, photo, disk, issued>>
      /\ ToFiles(r, DropNew(r)) /\ ends' \in 0..MaxEnds
      /\ torn \subseteq Poster
  BY Bounded DEF SetMediaPosterFails, Inv, Tables
<1>2. CASE UNCHANGED <<rows, torn, abandoned>>
  BY <1>1, <1>2, DropNewStep DEF db
<1>3. ASSUME NEW m \in job[r].media, ~Dying(m), Owned(r, m),
             rows' = [rows EXCEPT ![m].poster = job[r].file],
             torn' = torn \cup {job[r].file}, abandoned' = abandoned \cup ({rows[m].poster} \ {NoFile})
      PROVE  Inv'
  <2>1. job[r].file \in Poster
    BY <1>1, InHand, PosterFields DEF JobOK, Shape
  <2>2. DropNew(r) \in SUBSET File
    BY <2>1 DEF DropNew, File
  <2>3. PICK v \in JobState : Set(r, v) /\ Dropping(v) /\ v.paths = DropNew(r)
    BY <1>1, <2>2, ToFilesDrops
  <2>4. \A f \in v.paths : f = job[r].file /\ f \in torn'
    BY <1>3, <2>3 DEF DropNew
  <2>5. abandoned' \subseteq File
    <3>1. m \in DOMAIN rows /\ abandoned \subseteq File
      BY <1>3, Bounded DEF Owned
    <3>2. rows[m].poster \in Poster \cup {NoFile}
      BY <3>1, FilesAreFiles
    <3> QED BY <1>3, <3>1, <3>2 DEF File
  <2>6. torn \subseteq torn' /\ torn' \subseteq Poster
    BY <1>1, <1>3, <2>1
  <2> QED BY <1>1, <1>3, <2>3, <2>4, <2>5, <2>6, PosterStep
<1> QED BY <1>2, <1>3 DEF SetMediaPosterFails

-----------------------------------------------------------------------------
(* New rows and references.                                                *)
LEMMA CreateMediaKeeps == ASSUME Inv, NEW r \in Request, CreateMedia(r) PROVE Inv'
<1> DEFINE j == job[r]
<1>1. /\ j \in JobState /\ JobOK(j) /\ j.pc = "saved" /\ j.op = "upload"
      /\ j.user \in accounts /\ ~AccountGoing(j.user) /\ Set(r, Idle)
      /\ rows' = [m \in DOMAIN rows \cup {j.file} |->
                    IF m = j.file THEN [owner |-> j.user, poster |-> NoFile] ELSE rows[m]]
      /\ UNCHANGED <<accounts, posts, comments, photo, disk, issued, ends, history>>
  BY InHand DEF CreateMedia, End
<1> DEFINE f == j.file
<1>2. f \in Media /\ f # NoFile /\ f \in issued.files /\ f \in disk /\ f \notin DOMAIN rows
      /\ \A m \in DOMAIN rows : rows[m].poster # f
  BY <1>1, Names DEF JobOK, Shape, Named, Fresh
<1>3. /\ DOMAIN rows' = DOMAIN rows \cup {f} /\ rows'[f].owner = j.user /\ rows'[f].poster = NoFile
      /\ \A m \in DOMAIN rows : rows'[m] = rows[m]
      /\ rows' \in [DOMAIN rows' -> Row]
  <2>1. [owner |-> j.user, poster |-> NoFile] \in Row
    BY <1>1 DEF Row, Inv, Tables
  <2>2. \A m \in DOMAIN rows : rows[m] \in Row
    BY DEF Inv, Tables
  <2> HIDE DEF j
  <2> QED BY <1>1, <1>2, <2>1, <2>2
<1>4. Tables'
  BY <1>1, <1>2, <1>3, IdleIsBare, OneJob DEF Inv, Tables, history
<1>5. Owners'
  BY <1>1, <1>2, <1>3 DEF Inv, Owners
<1>6. RowFiles'
  BY <1>1, <1>2, <1>3 DEF Inv, RowFiles, history
<1>7. JobOK(Idle)' /\ \A k \in JobState : Apart(Idle, k)' /\ Apart(k, Idle)'
  BY IdleIsBare, BareOKNext
<1>8. ASSUME NEW k \in JobState, Other(r, k) PROVE JobOK(k)'
  <2>1. JobOK(k) /\ Apart(j, k)
    BY <1>8, InHand DEF j
  <2>2. f # k.file /\ f # k.previous /\ f \notin k.paths /\ (k.pc \in {"checked", "inserted"} => f \notin k.media)
    BY <1>2, <2>1 DEF Apart
  <2>3. Named(k)' /\ Shape(k)
    BY <1>1, <2>1 DEF JobOK, Named
  <2>4. Fresh(k)'
    BY <1>1, <1>2, <1>3, <2>1, <2>2 DEF JobOK, Fresh
  <2>5. Lists(k)'
    <3>1. k.gone \subseteq DOMAIN rows /\ \A m \in k.gone : FilesOf(m)' = FilesOf(m)
      BY <1>3, <2>1 DEF JobOK, Lists, FilesOf
    <3>2. k.pc = "files" =>
            \A g \in k.paths : g \notin DOMAIN rows'
                                /\ \A m \in DOMAIN rows' : rows'[m].poster = g => g \in torn'
      <4>1. k.paths \subseteq File
        BY DEF JobState
      <4>2. NoFile \notin k.paths
        BY <4>1, ConstantsAssumption
      <4> QED BY <1>1, <1>3, <2>1, <2>2, <4>2 DEF JobOK, Lists, history
    <3> QED BY <1>3, <2>1, <3>1, <3>2 DEF JobOK, Lists
  <2>6. Refers(k)'
    BY <1>1, <1>3, <2>1, <2>2 DEF JobOK, Refers
  <2>7. Takes(k)'
    <3>1. SeenPosts(k)' = SeenPosts(k) /\ SeenComments(k)' = SeenComments(k)
      BY <1>1 DEF SeenPosts, SeenComments
    <3>2. k.pc \in {"decide", "remove"} /\ k.op = "delAccount" => k.user # j.user
      <4>1. PICK q \in Request : job[q] = k
        BY <1>8 DEF Other
      <4> QED BY <1>1, <4>1 DEF AccountGoing, InDeletion
    <3> QED BY <1>3, <2>1, <3>1, <3>2 DEF JobOK, Takes, Decided
  <2> QED BY <2>3, <2>4, <2>5, <2>6, <2>7 DEF JobOK, Shape
<1>9. \A i, k \in JobState : Other(r, i) /\ Other(r, k) /\ Apart(i, k) => Apart(i, k)'
  BY <1>1, ApartSame
<1>10. Jobs' /\ Pairs'
  BY <1>1, <1>7, <1>8, <1>9, IdleIsBare, HandOver
<1> QED BY <1>4, <1>5, <1>6, <1>10 DEF Inv

LEMMA SetUserProfileMediaKeeps == ASSUME Inv, NEW r \in Request, SetUserProfileMedia(r) PROVE Inv'
<1>1. /\ Set(r, Idle) /\ UNCHANGED <<accounts, rows, posts, comments, disk, issued, ends, history>>
      /\ job[r].user \in Member
  BY InHand DEF SetUserProfileMedia, End, Inv, Tables
<1>2. PICK m \in DOMAIN rows : photo' = [photo EXCEPT ![job[r].user] = m]
  BY DEF SetUserProfileMedia
<1>3. photo' \in [Member -> DOMAIN rows' \cup {NoFile}]
  BY <1>1, <1>2 DEF Inv, Tables
<1>4. Tables'
  BY <1>1, <1>3, IdleIsBare, OneJob DEF Inv, Tables, history
<1>5. Owners' /\ RowFiles'
  BY <1>1 DEF Inv, Owners, RowFiles, history
<1>6. JobOK(Idle)' /\ \A k \in JobState : Apart(Idle, k)' /\ Apart(k, Idle)'
  BY IdleIsBare, BareOKNext
<1>7. \A k \in JobState : Other(r, k) => JobOK(k)'
  BY <1>1, InHand, JobSame DEF history
<1>8. \A i, k \in JobState : Other(r, i) /\ Other(r, k) /\ Apart(i, k) => Apart(i, k)'
  BY <1>1, ApartSame
<1>9. Jobs' /\ Pairs'
  BY <1>1, <1>6, <1>7, <1>8, IdleIsBare, HandOver
<1> QED BY <1>4, <1>5, <1>9 DEF Inv

\* What is inserted refers to a row a deletion has done with only when the
\* deletion had decided first.
LEMMA RacedOrFree ==
  ASSUME Inv, NEW r \in Request, NEW k, Other(r, k), job[r].pc = "inserted",
         k.pc \in {"decide", "remove"}, job[r].media \cap Decided(k) # {}
  PROVE  Raced(r)
<1>1. PICK q \in Request \ {r} : job[q] = k
  BY DEF Other
<1>2. k \in JobState /\ Apart(k, job[r])
  BY <1>1, InHand
<1>3. k.gone \cap job[r].media = {}
  BY <1>2 DEF Apart
<1>4. k.pc = "remove" /\ job[r].media \cap k.media # {}
  BY <1>3 DEF Decided
<1> QED BY <1>1, <1>4 DEF Raced

LEMMA CommitPostKeeps == ASSUME Inv, NEW r \in Request, CommitPost(r) PROVE Inv'
<1> DEFINE j == job[r]
           x == [id |-> j.id, author |-> j.user, media |-> j.media, made |-> j.media, raced |-> Raced(r)]
<1>1. /\ j \in JobState /\ JobOK(j) /\ j.pc = "inserted" /\ j.op = "post"
      /\ posts' = posts \cup {x} /\ Set(r, Idle)
      /\ UNCHANGED <<accounts, rows, comments, photo, disk, issued, ends, abandoned, torn>>
  BY InHand DEF CommitPost, End, history
<1>2. /\ j.user \in Member /\ j.id \in 1..issued.posts /\ j.media \subseteq DOMAIN rows
      /\ (\A m \in j.media : rows[m].owner = j.user) /\ \A p \in posts : p.id # j.id
  BY <1>1 DEF JobOK, Shape, Named, Refers
<1>3. x.id = j.id /\ x.author = j.user /\ x.media = j.media /\ x.made = j.media
  OBVIOUS
<1>4. Raced(r) => x.raced
  OBVIOUS
<1>5. x \in Post
  <2>1. j.media \subseteq Media /\ Raced(r) \in BOOLEAN
    BY <1>2 DEF Inv, Tables, Raced
  <2>2. j.id \in PostId
    BY <1>2, ConstantsAssumption DEF PostId, Inv, Tables
  <2> QED BY <1>2, <2>1, <2>2 DEF Post
<1> HIDE DEF x
<1>6. PICK y \in Post : posts' = posts \cup {y} /\ y = x
  BY <1>1, <1>5
<1>7. Tables'
  <2>1. posts' \subseteq Post
    BY <1>6 DEF Inv, Tables
  <2> QED BY <1>1, <2>1, IdleIsBare, OneJob DEF Inv, Tables
<1>8. Owners'
  <2>1. y.media \subseteq DOMAIN rows /\ (\A m \in y.media : rows[m].owner = y.author /\ m \in y.made)
        /\ y.id <= issued.posts
    BY <1>2, <1>3, <1>6
  <2> HIDE DEF j
  <2>2. \A p \in posts' : p.id <= issued'.posts
    BY <1>1, <1>6, <2>1 DEF Inv, Owners
  <2>3. \A c \in comments' : \E p \in posts' : p.id = c.post
    BY <1>1, <1>6 DEF Inv, Owners
  <2>4. \A z \in posts' \cup comments' : \A m \in z.media :
          m \in DOMAIN rows' /\ m \in z.made /\ rows'[m].owner = z.author
    BY <1>1, <1>6, <2>1 DEF Inv, Owners
  <2> QED BY <1>1, <2>2, <2>3, <2>4 DEF Inv, Owners
<1>9. RowFiles'
  BY <1>1 DEF Inv, RowFiles
<1>10. JobOK(Idle)' /\ \A k \in JobState : Apart(Idle, k)' /\ Apart(k, Idle)'
  BY IdleIsBare, BareOKNext
<1>11. ASSUME NEW k \in JobState, Other(r, k) PROVE JobOK(k)'
  <2>1. JobOK(k) /\ Apart(j, k) /\ Apart(k, j)
    BY <1>11, InHand DEF j
  <2>2. Shape(k) /\ Named(k)' /\ Fresh(k)' /\ Lists(k)'
    BY <1>1, <2>1 DEF JobOK, Named, Fresh, Lists, FilesOf
  <2>3. k.pc = "inserted" /\ k.op = "post" => k.id # j.id
    BY <1>1, <2>1 DEF Apart
  <2> HIDE DEF j
  <2>4. Refers(k)'
    BY <1>1, <1>3, <1>6, <2>1, <2>3 DEF JobOK, Refers
  <2>5. Takes(k)'
    <3>1. SeenPosts(k)' \subseteq SeenPosts(k) \cup {y} /\ SeenPosts(k) \subseteq posts
      BY <1>6 DEF SeenPosts
    <3>2. SeenComments(k)' \subseteq SeenComments(k)
      <4> SUFFICES ASSUME NEW c \in SeenComments(k)' PROVE c \in SeenComments(k)
        OBVIOUS
      <4>1. c \in comments /\ ~(k.op = "delComment" /\ c.id = k.target)
            /\ ~(k.op = "delAccount" /\ c.author = k.user)
        BY <1>1 DEF SeenComments
      <4>2. PICK p \in SeenPosts(k)' : p.id = c.post
        BY DEF SeenComments
      <4>3. PICK o \in posts : o.id = c.post
        BY <4>1 DEF Inv, Owners
      <4>4. p # y
        BY <1>2, <1>3, <1>6, <4>2, <4>3
      <4>5. p \in SeenPosts(k)
        BY <3>1, <4>4
      <4> QED BY <4>1, <4>2, <4>5 DEF SeenComments
    <3>3. k.pc \in {"decide", "remove"} /\ y.media \cap Decided(k) # {} => y.raced
      BY <1>1, <1>3, <1>4, <1>6, <1>11, RacedOrFree DEF j
    <3>4. Decided(k)' = Decided(k)
      BY DEF Decided
    <3> QED BY <1>1, <2>1, <3>1, <3>2, <3>3, <3>4 DEF JobOK, Takes
  <2> QED BY <2>2, <2>4, <2>5 DEF JobOK, Shape
<1>12. ASSUME NEW i \in JobState, NEW k \in JobState, Other(r, i), Other(r, k), Apart(i, k)
       PROVE  Apart(i, k)'
  <2>1. Apart(i, j)
    BY <1>12, InHand DEF j
  <2>2. i.pc \in {"decide", "remove"} /\ i.op = "delAccount" => y.author # i.user
    BY <1>1, <1>3, <1>6, <2>1 DEF Apart
  <2> HIDE DEF j
  <2> QED BY <1>6, <1>12, <2>2 DEF Apart
<1>13. Jobs' /\ Pairs'
  BY <1>1, <1>10, <1>11, <1>12, IdleIsBare, HandOver
<1> QED BY <1>7, <1>8, <1>9, <1>13 DEF Inv

LEMMA CommitCommentKeeps == ASSUME Inv, NEW r \in Request, CommitComment(r) PROVE Inv'
<1> DEFINE j == job[r]
           x == [id |-> j.id, post |-> j.target, author |-> j.user,
                 media |-> j.media, made |-> j.media, raced |-> Raced(r)]
<1>1. /\ j \in JobState /\ JobOK(j) /\ j.pc = "inserted" /\ j.op = "comment"
      /\ comments' = comments \cup {x} /\ Set(r, Idle)
      /\ UNCHANGED <<accounts, rows, posts, photo, disk, issued, ends, abandoned, torn>>
  BY InHand DEF CommitComment, End, history
<1>2. /\ j.user \in Member /\ j.id \in CommentId /\ j.media \subseteq DOMAIN rows
      /\ (\A m \in j.media : rows[m].owner = j.user) /\ \E p \in posts : p.id = j.target
  BY <1>1 DEF JobOK, Shape, Named, Refers
<1>3. x.id = j.id /\ x.author = j.user /\ x.media = j.media /\ x.made = j.media /\ x.post = j.target
  OBVIOUS
<1>4. Raced(r) => x.raced
  OBVIOUS
<1>5. x \in Comment
  <2>1. j.media \subseteq Media /\ Raced(r) \in BOOLEAN
    BY <1>2 DEF Inv, Tables, Raced
  <2>2. j.target \in PostId
    BY <1>2 DEF Post, Inv, Tables
  <2> QED BY <1>2, <2>1, <2>2 DEF Comment
<1> HIDE DEF x
<1>6. PICK y \in Comment : comments' = comments \cup {y} /\ y = x
  BY <1>1, <1>5
<1>7. Tables'
  <2>1. comments' \subseteq Comment
    BY <1>6 DEF Inv, Tables
  <2> QED BY <1>1, <2>1, IdleIsBare, OneJob DEF Inv, Tables
<1>8. Owners'
  <2>1. y.media \subseteq DOMAIN rows /\ (\A m \in y.media : rows[m].owner = y.author /\ m \in y.made)
        /\ \E p \in posts : p.id = y.post
    BY <1>2, <1>3, <1>6
  <2> HIDE DEF j
  <2>3. \A c \in comments' : \E p \in posts' : p.id = c.post
    BY <1>1, <1>6, <2>1 DEF Inv, Owners
  <2>4. \A z \in posts' \cup comments' : \A m \in z.media :
          m \in DOMAIN rows' /\ m \in z.made /\ rows'[m].owner = z.author
    BY <1>1, <1>6, <2>1 DEF Inv, Owners
  <2> QED BY <1>1, <2>3, <2>4 DEF Inv, Owners
<1>9. RowFiles'
  BY <1>1 DEF Inv, RowFiles
<1>10. JobOK(Idle)' /\ \A k \in JobState : Apart(Idle, k)' /\ Apart(k, Idle)'
  BY IdleIsBare, BareOKNext
<1>11. ASSUME NEW k \in JobState, Other(r, k) PROVE JobOK(k)'
  <2>1. JobOK(k)
    BY <1>11, InHand
  <2>2. Shape(k) /\ Named(k)' /\ Fresh(k)' /\ Lists(k)' /\ Refers(k)'
    BY <1>1, <2>1 DEF JobOK, Named, Fresh, Lists, Refers, FilesOf
  <2>5. Takes(k)'
    <3>1. SeenPosts(k)' = SeenPosts(k) /\ SeenComments(k)' \subseteq SeenComments(k) \cup {y}
      BY <1>1, <1>6 DEF SeenPosts, SeenComments
    <3>3. k.pc \in {"decide", "remove"} /\ y.media \cap Decided(k) # {} => y.raced
      BY <1>1, <1>3, <1>4, <1>6, <1>11, RacedOrFree DEF j
    <3>4. Decided(k)' = Decided(k)
      BY DEF Decided
    <3> HIDE DEF j
    <3> QED BY <1>1, <2>1, <3>1, <3>3, <3>4 DEF JobOK, Takes
  <2> QED BY <2>2, <2>5 DEF JobOK, Shape
<1>12. \A i, k \in JobState : Other(r, i) /\ Other(r, k) /\ Apart(i, k) => Apart(i, k)'
  BY <1>1, ApartSame
<1>13. Jobs' /\ Pairs'
  BY <1>1, <1>10, <1>11, <1>12, IdleIsBare, HandOver
<1> QED BY <1>7, <1>8, <1>9, <1>13 DEF Inv

-----------------------------------------------------------------------------
(* The commit of a deletion.                                               *)
LEMMA WithoutPosts ==
  ASSUME Inv, NEW xs \in SUBSET posts, NEW g
  PROVE  /\ Without(xs, g) \subseteq Post
         /\ \A y \in Without(xs, g) : \E x \in xs :
              /\ y.id = x.id /\ y.author = x.author /\ y.made = x.made /\ y.raced = x.raced
              /\ y.media = x.media \ g
         /\ \A x \in xs : x.id \in {y.id : y \in Without(xs, g)}
<1> DEFINE W(x) == [x EXCEPT !.media = @ \ g]
<1>1. ASSUME NEW x \in xs
      PROVE  /\ W(x) \in Post /\ W(x).id = x.id /\ W(x).author = x.author /\ W(x).made = x.made
             /\ W(x).raced = x.raced /\ W(x).media = x.media \ g
  <2>1. x \in Post
    BY DEF Inv, Tables
  <2> QED BY <2>1 DEF Post
<1>2. Without(xs, g) = {W(x) : x \in xs}
  BY DEF Without
<1> HIDE DEF W
<1> QED BY <1>1, <1>2

LEMMA WithoutComments ==
  ASSUME Inv, NEW xs \in SUBSET comments, NEW g
  PROVE  /\ Without(xs, g) \subseteq Comment
         /\ \A y \in Without(xs, g) : \E x \in xs :
              /\ y.id = x.id /\ y.post = x.post /\ y.author = x.author /\ y.made = x.made
              /\ y.raced = x.raced /\ y.media = x.media \ g
<1> DEFINE W(x) == [x EXCEPT !.media = @ \ g]
<1>1. ASSUME NEW x \in xs
      PROVE  /\ W(x) \in Comment /\ W(x).id = x.id /\ W(x).post = x.post /\ W(x).author = x.author
             /\ W(x).made = x.made /\ W(x).raced = x.raced /\ W(x).media = x.media \ g
  <2>1. x \in Comment
    BY DEF Inv, Tables
  <2> QED BY <2>1 DEF Comment
<1>2. Without(xs, g) = {W(x) : x \in xs}
  BY DEF Without
<1> HIDE DEF W
<1> QED BY <1>1, <1>2

\* What is left, as the tables and as what the deletion saw of them.
LEMMA CommitDeleteLeaves ==
  ASSUME Inv, NEW r \in Request, CommitDelete(r)
  PROVE  /\ job[r].pc = "decide" /\ job[r].gone \subseteq DOMAIN rows
         /\ DOMAIN rows' = DOMAIN rows \ job[r].gone
         /\ rows' \in [DOMAIN rows' -> Row] /\ \A m \in DOMAIN rows' : rows'[m] = rows[m]
         /\ posts' \subseteq Post /\ comments' \subseteq Comment
         /\ \A y \in posts' : \E x \in SeenPosts(job[r]) :
              /\ y.id = x.id /\ y.author = x.author /\ y.made = x.made /\ y.raced = x.raced
              /\ y.media = x.media \ job[r].gone
         /\ \A x \in SeenPosts(job[r]) : \E y \in posts' : y.id = x.id
         /\ \A y \in comments' : \E x \in SeenComments(job[r]) :
              /\ y.id = x.id /\ y.post = x.post /\ y.author = x.author /\ y.made = x.made
              /\ y.raced = x.raced /\ y.media = x.media \ job[r].gone
         /\ UNCHANGED <<disk, issued, ends, torn>>
<1> DEFINE j == job[r]
<1>1. j.gone \subseteq DOMAIN rows
  BY InHand DEF JobOK, Lists
<1>2. /\ rows' = [m \in DOMAIN rows \ j.gone |-> rows[m]]
      /\ posts' = Without(PostsSeen(r), j.gone) /\ comments' = Without(CommentsSeen(r), j.gone)
      /\ j.pc = "decide" /\ UNCHANGED <<disk, issued, ends, torn>>
  BY DEF CommitDelete
<1>3. PostsSeen(r) = SeenPosts(j) /\ CommentsSeen(r) = SeenComments(j)
  BY DEF PostsSeen, CommentsSeen, SeenPosts, SeenComments
<1>4. SeenPosts(j) \in SUBSET posts /\ SeenComments(j) \in SUBSET comments
  BY DEF SeenPosts, SeenComments
<1>5. \A m \in DOMAIN rows : rows[m] \in Row
  BY DEF Inv, Tables
<1> HIDE DEF j
<1>6. /\ DOMAIN rows' = DOMAIN rows \ j.gone /\ rows' \in [DOMAIN rows' -> Row]
      /\ \A m \in DOMAIN rows' : rows'[m] = rows[m]
  BY <1>2, <1>5
<1>7. /\ posts' \subseteq Post
      /\ \A y \in posts' : \E x \in SeenPosts(j) :
              /\ y.id = x.id /\ y.author = x.author /\ y.made = x.made /\ y.raced = x.raced
              /\ y.media = x.media \ j.gone
      /\ \A x \in SeenPosts(j) : \E y \in posts' : y.id = x.id
  <2> DEFINE S == SeenPosts(j)
             g == j.gone
  <2>1. S \in SUBSET posts /\ posts' = Without(S, g)
    BY <1>2, <1>3, <1>4
  <2> HIDE DEF S, g
  <2>2. /\ Without(S, g) \subseteq Post
        /\ \A y \in Without(S, g) : \E x \in S :
             /\ y.id = x.id /\ y.author = x.author /\ y.made = x.made /\ y.raced = x.raced
             /\ y.media = x.media \ g
        /\ \A x \in S : x.id \in {y.id : y \in Without(S, g)}
    BY <2>1, WithoutPosts
  <2> QED BY <2>1, <2>2 DEF S, g
<1>8. /\ comments' \subseteq Comment
      /\ \A y \in comments' : \E x \in SeenComments(j) :
              /\ y.id = x.id /\ y.post = x.post /\ y.author = x.author /\ y.made = x.made
              /\ y.raced = x.raced /\ y.media = x.media \ j.gone
  BY <1>2, <1>3, <1>4, WithoutComments
<1> QED BY <1>1, <1>2, <1>6, <1>7, <1>8 DEF j

LEMMA CommitDeleteTables == ASSUME Inv, NEW r \in Request, CommitDelete(r) PROVE Tables'
<1> DEFINE j == job[r]
           lost == (UNION {{m} \cup ({rows[m].poster} \ {NoFile}) : m \in
                             IF j.op = "delAccount" THEN j.gone ELSE {}}) \ j.paths
<1>1. accounts' \subseteq Member
  BY DEF CommitDelete, Inv, Tables
<1>2. photo' \in [Member -> DOMAIN rows' \cup {NoFile}]
  <2>1. photo' = [u \in Member |->
          IF j.op = "delAccount" /\ u = j.user THEN NoFile
          ELSE IF photo[u] \in j.gone THEN NoFile ELSE photo[u]]
    BY DEF CommitDelete, PhotosLeft
  <2>2. \A u \in Member : photo[u] \in DOMAIN rows \cup {NoFile}
    BY DEF Inv, Tables
  <2>3. DOMAIN rows' = DOMAIN rows \ j.gone
    BY CommitDeleteLeaves
  <2> HIDE DEF j
  <2> QED BY <2>1, <2>2, <2>3
<1>3. abandoned' \subseteq File
  <2>1. abandoned' = abandoned \cup lost
    BY DEF CommitDelete
  <2>2. j.gone \subseteq DOMAIN rows
    BY CommitDeleteLeaves
  <2>3. \A m \in j.gone : {m} \cup ({rows[m].poster} \ {NoFile}) \subseteq File
    BY <2>2, FilesAreFiles DEF File
  <2>4. lost \subseteq File
    <3> HIDE DEF j
    <3> QED BY <2>3
  <2> QED BY <2>1, <2>4, Bounded
<1>4. PICK v \in JobState : Set(r, v)
  <2>1. j.paths \in SUBSET File /\ ToFiles(r, j.paths)
    BY InHand DEF CommitDelete, JobState
  <2> QED BY <2>1, ToFilesDrops
<1>5. job' \in [Request -> JobState]
  BY <1>4, OneJob DEF Inv
<1>6. /\ DOMAIN rows' \subseteq Media /\ rows' \in [DOMAIN rows' -> Row]
      /\ posts' \subseteq Post /\ comments' \subseteq Comment /\ UNCHANGED <<disk, issued, ends, torn>>
  BY CommitDeleteLeaves DEF Inv, Tables
<1> QED BY <1>1, <1>2, <1>3, <1>5, <1>6 DEF Inv, Tables

LEMMA CommitDeleteOwners == ASSUME Inv, NEW r \in Request, CommitDelete(r) PROVE Owners' /\ RowFiles'
<1> DEFINE j == job[r]
<1>1. j.op = "delAccount" => \A m \in DOMAIN rows : rows[m].owner = j.user => m \in j.gone
  BY InHand, CommitDeleteLeaves DEF JobOK, Takes
<1>2. accounts' = IF j.op = "delAccount" THEN accounts \ {j.user} ELSE accounts
  BY DEF CommitDelete
<1>3. /\ DOMAIN rows' = DOMAIN rows \ j.gone /\ \A m \in DOMAIN rows' : rows'[m] = rows[m]
      /\ UNCHANGED <<disk, issued, torn>>
  BY CommitDeleteLeaves
<1>4. /\ \A y \in posts' : \E x \in SeenPosts(j) :
              /\ y.id = x.id /\ y.author = x.author /\ y.made = x.made /\ y.raced = x.raced
              /\ y.media = x.media \ j.gone
      /\ \A x \in SeenPosts(j) : \E y \in posts' : y.id = x.id
      /\ \A y \in comments' : \E x \in SeenComments(j) :
              /\ y.id = x.id /\ y.post = x.post /\ y.author = x.author /\ y.made = x.made
              /\ y.raced = x.raced /\ y.media = x.media \ j.gone
  BY CommitDeleteLeaves
<1> HIDE DEF j
<1>5. \A m \in DOMAIN rows' : rows'[m].owner \in accounts'
  BY <1>1, <1>2, <1>3 DEF Inv, Owners
<1>6. /\ SeenPosts(j) \subseteq posts /\ SeenComments(j) \subseteq comments
      /\ \A c \in SeenComments(j) : \E p \in SeenPosts(j) : p.id = c.post
  BY DEF SeenPosts, SeenComments
<1>7. ASSUME NEW y \in posts' \cup comments'
      PROVE  \A m \in y.media : m \in DOMAIN rows' /\ m \in y.made /\ rows'[m].owner = y.author
  <2>1. PICK x \in posts \cup comments :
          y.author = x.author /\ y.made = x.made /\ y.media = x.media \ j.gone
    BY <1>4, <1>6
  <2> QED BY <1>3, <2>1 DEF Inv, Owners
<1>8. \A c \in comments' : \E p \in posts' : p.id = c.post
  BY <1>4, <1>6
<1>9. \A p \in posts' : p.id <= issued'.posts
  BY <1>3, <1>4, <1>6 DEF Inv, Owners
<1>10. Owners'
  BY <1>5, <1>7, <1>8, <1>9 DEF Owners
<1>11. RowFiles'
  BY <1>3 DEF Inv, RowFiles
<1> QED BY <1>10, <1>11

LEMMA CommitDeleteKeeps == ASSUME Inv, NEW r \in Request, CommitDelete(r) PROVE Inv'
<1> DEFINE j == job[r]
<1>1. /\ j \in JobState /\ JobOK(j) /\ j.pc = "decide" /\ j.gone \subseteq DOMAIN rows
      /\ ToFiles(r, j.paths) /\ UNCHANGED <<disk, issued, ends, torn>>
  BY InHand, CommitDeleteLeaves DEF CommitDelete
<1>2. /\ DOMAIN rows' = DOMAIN rows \ j.gone /\ \A m \in DOMAIN rows' : rows'[m] = rows[m]
  BY CommitDeleteLeaves
<1>3. /\ \A y \in posts' : \E x \in SeenPosts(j) :
              /\ y.id = x.id /\ y.author = x.author /\ y.made = x.made /\ y.raced = x.raced
              /\ y.media = x.media \ j.gone
      /\ \A x \in SeenPosts(j) : \E y \in posts' : y.id = x.id
      /\ \A y \in comments' : \E x \in SeenComments(j) :
              /\ y.id = x.id /\ y.post = x.post /\ y.author = x.author /\ y.made = x.made
              /\ y.raced = x.raced /\ y.media = x.media \ j.gone
      /\ SeenPosts(j) \subseteq posts /\ SeenComments(j) \subseteq comments
  BY CommitDeleteLeaves DEF SeenPosts, SeenComments
<1>4. PICK v \in JobState : Set(r, v) /\ Dropping(v) /\ v.paths = j.paths
  <2>1. j.paths \in SUBSET File
    BY <1>1 DEF JobState
  <2> QED BY <1>1, <2>1, ToFilesDrops
<1> HIDE DEF j
<1>5. JobOK(v)'
  <2>1. v.paths \subseteq issued'.files
    BY <1>1, <1>4 DEF JobOK, Named
  <2>2. ASSUME NEW f \in v.paths
        PROVE  f \notin DOMAIN rows' /\ \A n \in DOMAIN rows' : rows'[n].poster # f
    <3>1. PICK m \in j.gone : f \in FilesOf(m)
      BY <1>1, <1>4 DEF JobOK, Lists
    <3>2. m \in DOMAIN rows /\ m \in Media /\ rows[m].poster \in Poster \cup {NoFile}
      BY <1>1, <3>1, FilesAreFiles
    <3>3. \A n \in DOMAIN rows' : n \in DOMAIN rows /\ n \in Media /\ n # m
                                   /\ rows[n].poster \in Poster \cup {NoFile}
      BY <1>2, <3>1, FilesAreFiles
    <3>4. CASE f = m
      BY <1>2, <3>2, <3>3, <3>4, Names
    <3>5. CASE f = rows[m].poster /\ f # NoFile
      BY <1>2, <3>2, <3>3, <3>5, Names DEF Inv, RowFiles
    <3> QED BY <3>1, <3>4, <3>5 DEF FilesOf
  <2> QED BY <1>4, <2>1, <2>2, DroppingOK
<1>6. ASSUME NEW k \in JobState, Other(r, k) PROVE JobOK(k)' /\ Apart(v, k)' /\ Apart(k, v)'
  <2>1. JobOK(k) /\ Apart(j, k) /\ Apart(k, j)
    BY <1>6, InHand DEF j
  <2>2. Shape(k) /\ Named(k)'
    BY <1>1, <2>1 DEF JobOK, Named
  <2>3. Fresh(k)'
    BY <1>1, <1>2, <2>1 DEF JobOK, Fresh
  <2>4. Lists(k)'
    <3>1. k.gone \subseteq DOMAIN rows' /\ \A m \in k.gone : FilesOf(m)' = FilesOf(m)
      BY <1>2, <2>1 DEF JobOK, Lists, FilesOf, Apart
    <3> QED BY <1>1, <1>2, <2>1, <3>1 DEF JobOK, Lists
  <2>5. Refers(k)'
    <3>1. k.pc = "inserted" => k.media \subseteq DOMAIN rows'
      BY <1>2, <2>1 DEF JobOK, Refers, Apart
    <3>2. k.pc = "inserted" /\ k.op = "comment" => \E p \in posts' : p.id = k.target
      <4> SUFFICES ASSUME k.pc = "inserted", k.op = "comment" PROVE \E p \in posts' : p.id = k.target
        OBVIOUS
      <4>1. PICK p \in posts : p.id = k.target
        BY <2>1 DEF JobOK, Refers
      <4>2. p \in SeenPosts(j)
        BY <1>1, <2>1, <4>1 DEF Apart, SeenPosts
      <4> QED BY <1>3, <4>1, <4>2
    <3>3. k.pc = "inserted" /\ k.op = "post" => \A p \in posts' : p.id # k.id
      BY <1>3, <2>1 DEF JobOK, Refers
    <3> QED BY <1>2, <2>1, <3>1, <3>2, <3>3 DEF JobOK, Refers
  <2>6. Takes(k)'
    <3>1. ASSUME NEW y \in SeenPosts(k)'
          PROVE  \E x \in SeenPosts(k) : y.id = x.id /\ y.media \subseteq x.media /\ y.raced = x.raced
      <4>1. y \in posts' /\ ~(k.op = "delPost" /\ y.id = k.target)
            /\ ~(k.op = "delAccount" /\ y.author = k.user)
        BY DEF SeenPosts
      <4>2. PICK x \in posts : /\ y.id = x.id /\ y.author = x.author /\ y.raced = x.raced
                               /\ y.media \subseteq x.media
        BY <1>3, <4>1
      <4> QED BY <4>1, <4>2 DEF SeenPosts
    <3>2. ASSUME NEW y \in SeenComments(k)'
          PROVE  \E x \in SeenComments(k) : y.media \subseteq x.media /\ y.raced = x.raced
      <4>1. y \in comments' /\ ~(k.op = "delComment" /\ y.id = k.target)
            /\ ~(k.op = "delAccount" /\ y.author = k.user) /\ \E p \in SeenPosts(k)' : p.id = y.post
        BY DEF SeenComments
      <4>2. PICK x \in comments : /\ y.id = x.id /\ y.post = x.post /\ y.author = x.author
                                  /\ y.raced = x.raced /\ y.media \subseteq x.media
        BY <1>3, <4>1
      <4>3. \E p \in SeenPosts(k) : p.id = x.post
        BY <3>1, <4>1, <4>2
      <4> QED BY <4>1, <4>2, <4>3 DEF SeenComments
    <3>3. Decided(k)' = Decided(k)
      BY DEF Decided
    <3>4. k.pc \in {"decide", "remove"} =>
            \A y \in SeenPosts(k)' \cup SeenComments(k)' : y.media \cap Decided(k) # {} => y.raced
      BY <2>1, <3>1, <3>2 DEF JobOK, Takes
    <3>5. k.pc \in {"decide", "remove"} /\ k.op = "delAccount" =>
            \A m \in DOMAIN rows' : rows'[m].owner = k.user => m \in k.gone
      BY <1>2, <2>1 DEF JobOK, Takes
    <3> QED BY <3>3, <3>4, <3>5 DEF Takes
  <2>7. k.file # NoFile => k.file \notin v.paths
    BY <1>4, <2>1 DEF Apart
  <2> QED BY <1>4, <2>2, <2>3, <2>4, <2>5, <2>6, <2>7, DroppingApart DEF JobOK, Shape
<1>7. ASSUME NEW i \in JobState, NEW k \in JobState, Other(r, i), Other(r, k), Apart(i, k)
      PROVE  Apart(i, k)'
  <2>1. \A y \in posts' : \E x \in posts : y.id = x.id /\ y.author = x.author
    BY <1>3
  <2> QED BY <1>7, <2>1 DEF Apart
<1>8. Jobs' /\ Pairs'
  BY <1>4, <1>5, <1>6, <1>7, HandOver
<1> QED BY <1>8, CommitDeleteTables, CommitDeleteOwners DEF Inv

-----------------------------------------------------------------------------
(* Deleted files, and the crash.                                           *)
LEMMA DeleteFileKeeps ==
  ASSUME Inv, NEW r \in Request, NEW f \in job[r].paths, DeleteFile(r, f)
  PROVE  Inv'
<1> DEFINE j == job[r]
<1>1. /\ j \in JobState /\ JobOK(j) /\ j.pc = "files" /\ f \in File /\ j.paths \ {f} \in SUBSET File
      /\ ToFiles(r, j.paths \ {f})
      /\ UNCHANGED <<accounts, rows, posts, comments, photo, issued, torn>>
  BY InHand DEF DeleteFile, JobState, db
<1>2. disk \ {f} \subseteq disk' /\ disk' \subseteq disk /\ abandoned' \subseteq File /\ ends' \in 0..MaxEnds
  BY <1>1, Bounded DEF DeleteFile
<1>3. f \notin DOMAIN rows /\ \A m \in DOMAIN rows : rows[m].poster = f => f \in torn
  BY <1>1 DEF JobOK, Lists
<1>4. PICK v \in JobState : Set(r, v) /\ Dropping(v) /\ v.paths = j.paths \ {f}
  BY <1>1, ToFilesDrops
<1> HIDE DEF j
<1>5. Tables'
  BY <1>1, <1>2, <1>4, OneJob DEF Inv, Tables
<1>6. Owners' /\ RowFiles'
  BY <1>1, <1>2, <1>3 DEF Inv, Owners, RowFiles
<1>7. JobOK(v)'
  BY <1>1, <1>4, DroppingOK DEF JobOK, Named, Lists
<1>8. ASSUME NEW k \in JobState, Other(r, k) PROVE JobOK(k)' /\ Apart(v, k)' /\ Apart(k, v)'
  <2>1. JobOK(k) /\ Apart(k, j) /\ f \in j.paths
    BY <1>8, InHand DEF j
  <2>2. k.file # NoFile => k.file \notin j.paths
    BY <2>1 DEF Apart
  <2>3. Fresh(k)'
    BY <1>1, <1>2, <2>1, <2>2 DEF JobOK, Fresh
  <2>4. Shape(k) /\ Named(k)' /\ Lists(k)' /\ Refers(k)'
    BY <1>1, <2>1 DEF JobOK, Named, Lists, Refers, FilesOf
  <2>5. Takes(k)'
    BY <1>1, <2>1 DEF JobOK, Takes, SeenPosts, SeenComments, Decided
  <2> QED BY <1>4, <2>2, <2>3, <2>4, <2>5, DroppingApart DEF JobOK, Shape
<1>9. \A i, k \in JobState : Other(r, i) /\ Other(r, k) /\ Apart(i, k) => Apart(i, k)'
  BY <1>1, ApartSame
<1>10. Jobs' /\ Pairs'
  BY <1>4, <1>7, <1>8, <1>9, HandOver
<1> QED BY <1>5, <1>6, <1>10 DEF Inv

LEMMA CrashKeeps == ASSUME Inv, Crash PROVE Inv'
<1>1. /\ job' = [r \in Request |-> Idle] /\ ends' \in 0..MaxEnds
      /\ abandoned' = abandoned \cup UNION {Held(r) : r \in Request}
      /\ UNCHANGED <<accounts, rows, posts, comments, photo, disk, issued, torn>>
  BY Bounded DEF Crash, db
<1>2. abandoned' \subseteq File
  <2>1. \A r \in Request : job[r] \in JobState
    BY DEF Inv, Tables
  <2>2. \A r \in Request : Held(r) \subseteq File
    BY <2>1 DEF Held, JobState
  <2> QED BY <1>1, <2>2, Bounded
<1>3. Tables'
  BY <1>1, <1>2, IdleIsBare DEF Inv, Tables
<1>4. Owners' /\ RowFiles'
  BY <1>1 DEF Inv, Owners, RowFiles
<1>5. Jobs' /\ Pairs'
  BY <1>1, IdleIsBare, BareOKNext DEF Jobs, Pairs
<1> QED BY <1>3, <1>4, <1>5 DEF Inv

-----------------------------------------------------------------------------
(* The invariant holds.                                                    *)
LEMMA InvInit == Init => Inv
<1> SUFFICES ASSUME Init PROVE Inv
  OBVIOUS
<1>1. DOMAIN rows = {} /\ rows \in [DOMAIN rows -> Row]
  BY DEF Init
<1>2. /\ issued.files = {} /\ issued.posts = 0 /\ issued.comments = 0
      /\ issued = [files |-> issued.files, posts |-> issued.posts, comments |-> issued.comments]
  BY DEF Init
<1>3. Tables
  BY <1>1, <1>2, IdleIsBare, ConstantsAssumption DEF Init, Tables
<1>4. Owners /\ RowFiles
  BY <1>1, <1>2 DEF Init, Owners, RowFiles
<1>5. Jobs /\ Pairs
  BY IdleIsBare, BareOK DEF Init, Jobs, Pairs
<1> QED BY <1>3, <1>4, <1>5 DEF Inv

LEMMA InvStutters == Inv /\ UNCHANGED vars => Inv'
<1> SUFFICES ASSUME Inv, UNCHANGED vars PROVE Inv'
  OBVIOUS
<1>1. UNCHANGED <<accounts, rows, posts, comments, photo, disk, job, issued, ends, abandoned, torn>>
  BY DEF vars, db, history
<1>2. Tables' /\ Owners' /\ RowFiles'
  BY <1>1 DEF Inv, Tables, Owners, RowFiles
<1>3. Jobs'
  BY <1>1, JobSame DEF Inv, Jobs
<1>4. Pairs'
  BY <1>1, ApartSame DEF Inv, Pairs
<1> QED BY <1>2, <1>3, <1>4 DEF Inv

LEMMA StepKeeps == ASSUME Inv, NEW r \in Request, Step(r) PROVE Inv'
BY CreateMediaKeeps, EndsKeep, PosterSnapshotKeeps, SetMediaPosterKeeps, SetMediaPosterFailsKeeps,
   InsertKeeps, CommitPostKeeps, CommitCommentKeeps, SetUserProfileMediaKeeps, DeleteRowKeeps,
   RemoveKeeps, CommitDeleteKeeps DEF Step

LEMMA InvStep == Inv /\ [Next]_vars => Inv'
<1> SUFFICES ASSUME Inv, [Next]_vars PROVE Inv'
  OBVIOUS
<1>1. CASE Next
  BY <1>1, StepKeeps, SaveKeeps, CheckKeeps, CollectKeeps, DecideKeeps, DeleteFileKeeps, CrashKeeps
     DEF Next
<1>2. CASE UNCHANGED vars
  BY <1>2, InvStutters
<1> QED BY <1>1, <1>2

LEMMA AlwaysInv == Spec => []Inv
<1> QED BY InvInit, InvStep, PTL DEF Spec

(* Every value has its type, rows belong to accounts and references name   *)
(* rows that exist (TypeOK), for any members, files, requests and bounds.  *)
THEOREM TypeCorrect == Spec => []TypeOK
<1>1. Inv => TypeOK
  <2> SUFFICES ASSUME Inv PROVE TypeOK
    OBVIOUS
  <2>1. \A x \in posts \cup comments : x.media \subseteq DOMAIN rows \cap x.made
    BY DEF Inv, Owners
  <2> QED BY <2>1 DEF Inv, Tables, Owners, TypeOK
<1> QED BY <1>1, AlwaysInv, PTL

(* A row never outlives its files (RowsHaveFiles): handleUploadMedia and   *)
(* handleSetMediaPoster write a file before the row names it, and a file   *)
(* is deleted by one who knows that no row names it any more.              *)
THEOREM FilesStand == Spec => []RowsHaveFiles
<1>1. Inv => RowsHaveFiles
  BY DEF Inv, RowFiles, RowsHaveFiles
<1> QED BY <1>1, AlwaysInv, PTL

-----------------------------------------------------------------------------
(* Attachments.                                                            *)

\* Posts and comments change at three commits only.
LEMMA ReferencesStand ==
  ASSUME [Next]_vars, \A r \in Request : ~CommitPost(r) /\ ~CommitComment(r) /\ ~CommitDelete(r)
  PROVE  UNCHANGED <<posts, comments>>
<1>1. CASE Next
  <2>1. ASSUME NEW r \in Request, Step(r) PROVE UNCHANGED <<posts, comments>>
    BY <2>1 DEF Step, CreateMedia, CreateMediaFails, PosterSnapshot, SetMediaPoster, SetMediaPosterFails,
         Insert, InsertFails, SetUserProfileMedia, DeleteRow, DeleteNothing, Remove, Rollback, db
  <2> QED BY <1>1, <2>1 DEF Next, SaveFile, CheckPhoto, SavePoster, CheckPost, CheckComment,
       CollectPost, CollectComment, CollectAccount, Decide, DeleteFile, Crash, db
<1>2. CASE UNCHANGED vars
  BY <1>2 DEF vars, db
<1> QED BY <1>1, <1>2

LEMMA AttachmentsStep == Inv /\ AttachmentsKept /\ [Next]_vars => AttachmentsKept'
<1> SUFFICES ASSUME Inv, AttachmentsKept, [Next]_vars PROVE AttachmentsKept'
  OBVIOUS
<1>1. ASSUME NEW r \in Request, CommitPost(r) \/ CommitComment(r) PROVE AttachmentsKept'
  <2>1. \A x \in (posts' \cup comments') \ (posts \cup comments) : x.media = x.made
    BY <1>1 DEF CommitPost, CommitComment
  <2> QED BY <2>1 DEF AttachmentsKept
<1>2. ASSUME NEW r \in Request, CommitDelete(r) PROVE AttachmentsKept'
  <2> DEFINE S == SeenPosts(job[r]) \cup SeenComments(job[r])
             g == job[r].gone
  <2>1. \A x \in S : x.media \cap g # {} => x.raced
    BY <1>2, InHand, CommitDeleteLeaves DEF JobOK, Takes, Decided
  <2>2. \A y \in posts' \cup comments' : \E x \in S :
          y.made = x.made /\ y.raced = x.raced /\ y.media = x.media \ g
    <3>1. /\ \A y \in posts' : \E x \in SeenPosts(job[r]) :
               /\ y.id = x.id /\ y.author = x.author /\ y.made = x.made /\ y.raced = x.raced
               /\ y.media = x.media \ job[r].gone
          /\ \A y \in comments' : \E x \in SeenComments(job[r]) :
               /\ y.id = x.id /\ y.post = x.post /\ y.author = x.author /\ y.made = x.made
               /\ y.raced = x.raced /\ y.media = x.media \ job[r].gone
      BY <1>2, CommitDeleteLeaves
    <3> HIDE DEF g
    <3>2. ASSUME NEW y \in posts'
          PROVE  \E x \in S : y.made = x.made /\ y.raced = x.raced /\ y.media = x.media \ g
      BY <3>1 DEF g
    <3>3. ASSUME NEW y \in comments'
          PROVE  \E x \in S : y.made = x.made /\ y.raced = x.raced /\ y.media = x.media \ g
      BY <3>1 DEF g
    <3> QED BY <3>2, <3>3
  <2>3. S \subseteq posts \cup comments
    BY DEF SeenPosts, SeenComments
  <2> HIDE DEF S, g
  <2>4. ASSUME NEW y \in posts' \cup comments' PROVE y.raced \/ y.media = y.made
    <3>1. PICK x \in S : y.made = x.made /\ y.raced = x.raced /\ y.media = x.media \ g
      BY <2>2
    <3>2. CASE x.media \cap g = {}
      <4>1. y.media = x.media
        BY <3>1, <3>2
      <4> QED BY <2>3, <3>1, <4>1 DEF AttachmentsKept
    <3>3. CASE x.media \cap g # {}
      BY <2>1, <3>1, <3>3
    <3> QED BY <3>2, <3>3
  <2> QED BY <2>4 DEF AttachmentsKept
<1>3. CASE \A r \in Request : ~CommitPost(r) /\ ~CommitComment(r) /\ ~CommitDelete(r)
  BY <1>3, ReferencesStand DEF AttachmentsKept
<1> QED BY <1>1, <1>2, <1>3

(* A post or comment keeps its attachments (AttachmentsKept) whatever      *)
(* deleteOrphanMedia removes meanwhile, unless a deletion that had already *)
(* found the row an orphan overtook the insertion.                         *)
THEOREM AttachmentsStay == Spec => []AttachmentsKept
<1>1. Init => AttachmentsKept
  BY DEF Init, AttachmentsKept
<1> QED BY <1>1, InvInit, InvStep, AttachmentsStep, PTL DEF Spec

-----------------------------------------------------------------------------
(* Files on the disk.                                                      *)
RowNames(f) == f \in DOMAIN rows \/ \E m \in DOMAIN rows : rows[m].poster = f

LEMMA HeldFiles ==
  ASSUME Inv, NEW r \in Request
  PROVE  /\ job[r].pc \notin {"saved", "snapshot"} => Held(r) = job[r].paths
         /\ job[r].pc \in {"saved", "snapshot"} => Held(r) = {job[r].file}
         /\ job[r].pc \notin {"decide", "remove", "files"} => job[r].paths = {}
<1>1. JobOK(job[r])
  BY InHand
<1>2. job[r].pc \in {"saved", "snapshot"} => job[r].file # NoFile
  <2>1. job[r].pc \in {"saved", "snapshot"} => job[r].file \in Media \cup Poster
    BY <1>1 DEF JobOK, Shape
  <2> QED BY <2>1, ConstantsAssumption DEF File
<1>3. /\ job[r].pc \notin {"saved", "snapshot"} => job[r].file = NoFile
      /\ job[r].pc \notin {"decide", "remove", "files"} => job[r].paths = {}
  BY <1>1 DEF JobOK, Shape
<1> QED BY <1>2, <1>3 DEF Held

LEMMA SetHeld ==
  ASSUME Inv, NEW r \in Request, NEW v, Set(r, v)
  PROVE  /\ Held(r)' = v.paths \cup ({v.file} \ {NoFile})
         /\ \A q \in Request \ {r} : Held(q)' = Held(q)
<1>1. job'[r] = v /\ \A q \in Request \ {r} : job'[q] = job[q]
  BY DEF Set, Inv, Tables
<1> QED BY <1>1 DEF Held

LEMMA ToFilesHeld ==
  ASSUME Inv, NEW r \in Request, NEW P, ToFiles(r, P)
  PROVE  Held(r)' = P /\ \A q \in Request \ {r} : Held(q)' = Held(q)
<1> DEFINE w == [Idle EXCEPT !.pc = "files", !.op = job[r].op, !.paths = P]
<1>1. CASE P = {}
  <2>1. Set(r, Idle) /\ Idle.paths = {} /\ Idle.file = NoFile
    BY <1>1 DEF ToFiles, Idle
  <2> QED BY <1>1, <2>1, SetHeld
<1>2. CASE P # {}
  <2>1. Set(r, w) /\ w.paths = P /\ w.file = NoFile
    BY <1>2 DEF ToFiles, Idle
  <2> HIDE DEF w
  <2> QED BY <2>1, SetHeld
<1> QED BY <1>1, <1>2

\* A step of one request leaves every file accounted for when it does so
\* for what it writes, what it held and what the rows named.
LEMMA AccountedStep ==
  ASSUME FilesAccountedFor, NEW r \in Request, abandoned \subseteq abandoned',
         \A q \in Request \ {r} : Held(q)' = Held(q),
         \A f \in disk' : f \notin disk \/ RowNames(f) \/ f \in Held(r) =>
                            RowNames(f)' \/ f \in Held(r)' \/ f \in abandoned'
  PROVE  FilesAccountedFor'
<1> SUFFICES ASSUME NEW f \in disk'
             PROVE  RowNames(f)' \/ (\E q \in Request : f \in Held(q)') \/ f \in abandoned'
  BY DEF FilesAccountedFor, RowNames
<1>1. CASE f \notin disk \/ RowNames(f) \/ f \in Held(r)
  BY <1>1
<1>2. CASE f \in disk /\ ~RowNames(f) /\ f \notin Held(r)
  <2>1. (\E q \in Request : f \in Held(q)) \/ f \in abandoned
    BY <1>2 DEF FilesAccountedFor, RowNames
  <2> QED BY <1>2, <2>1
<1> QED BY <1>1, <1>2

\* Rows and disk stay.
LEMMA HoldingStep ==
  ASSUME FilesAccountedFor, NEW r \in Request, UNCHANGED <<rows, disk>>, abandoned \subseteq abandoned',
         \A q \in Request \ {r} : Held(q)' = Held(q),
         \A f \in Held(r) : RowNames(f) \/ f \in Held(r)' \/ f \in abandoned'
  PROVE  FilesAccountedFor'
<1>1. \A f : RowNames(f)' <=> RowNames(f)
  BY DEF RowNames
<1> QED BY <1>1, AccountedStep

\* Requests with no file in hand, before and after.
LEMMA EmptyHanded ==
  ASSUME Inv, FilesAccountedFor, NEW r \in Request, UNCHANGED <<rows, disk, abandoned>>,
         Held(r) = {}, NEW v, Set(r, v)
  PROVE  FilesAccountedFor'
BY SetHeld, HoldingStep

LEMMA AccountedWithoutFiles ==
  ASSUME Inv, FilesAccountedFor, NEW r \in Request,
         \/ Insert(r) \/ InsertFails(r) \/ CommitPost(r) \/ CommitComment(r)
         \/ SetUserProfileMedia(r) \/ DeleteNothing(r)
         \/ \E u \in Member, m \in Media : CheckPhoto(r, u, m)
         \/ \E u \in Member, ms \in SUBSET Media :
              CheckPost(r, u, ms) \/ \E p \in posts : CheckComment(r, u, p.id, ms)
         \/ \E p \in posts : CollectPost(r, p)
         \/ \E c \in comments : CollectComment(r, c)
         \/ \E u \in Member : CollectAccount(r, u)
  PROVE  FilesAccountedFor'
<1>1. UNCHANGED <<rows, disk, abandoned>>
  BY DEF Insert, InsertFails, CommitPost, CommitComment, SetUserProfileMedia, DeleteNothing, CheckPhoto,
     CheckPost, CheckComment, CollectPost, CollectComment, CollectAccount, db, history
<1>2. job[r].pc \in {"idle", "checked", "inserted", "collected"}
  BY DEF Insert, InsertFails, CommitPost, CommitComment, SetUserProfileMedia, DeleteNothing, CheckPhoto,
     CheckPost, CheckComment, CollectPost, CollectComment, CollectAccount
<1>3. Held(r) = {}
  BY <1>2, HeldFiles
<1>4. \E v : Set(r, v)
  BY DEF Insert, InsertFails, CommitPost, CommitComment, SetUserProfileMedia, DeleteNothing, CheckPhoto,
     CheckPost, CheckComment, CollectPost, CollectComment, CollectAccount, End
<1> QED BY <1>1, <1>3, <1>4, EmptyHanded

\* Uploads.
LEMMA AccountedUploads ==
  ASSUME Inv, FilesAccountedFor, NEW r \in Request,
         \/ \E u \in Member, m \in Media : SaveFile(r, u, m)
         \/ \E u \in Member, m \in Media, f \in Poster : SavePoster(r, u, m, f)
         \/ CreateMedia(r) \/ CreateMediaFails(r) \/ PosterSnapshot(r)
  PROVE  FilesAccountedFor'
<1>1. ASSUME NEW u \in Member, NEW m \in Media, SaveFile(r, u, m) PROVE FilesAccountedFor'
  <2> DEFINE w == [Idle EXCEPT !.pc = "saved", !.op = "upload", !.user = u, !.file = m]
  <2>1. Set(r, w) /\ disk' = disk \cup {m} /\ UNCHANGED <<rows, abandoned>> /\ job[r].pc = "idle"
    BY <1>1 DEF SaveFile, db, history
  <2>2. w.paths = {} /\ w.file = m /\ m # NoFile
    BY Names DEF Idle
  <2> HIDE DEF w
  <2>3. Held(r)' = {m} /\ \A q \in Request \ {r} : Held(q)' = Held(q)
    BY <2>1, <2>2, SetHeld
  <2>4. \A f : RowNames(f)' <=> RowNames(f)
    BY <2>1 DEF RowNames
  <2>5. Held(r) = {}
    BY <2>1, HeldFiles
  <2> QED BY <2>1, <2>3, <2>4, <2>5, AccountedStep
<1>2. ASSUME NEW u \in Member, NEW m \in Media, NEW f \in Poster, SavePoster(r, u, m, f)
      PROVE  FilesAccountedFor'
  <2> DEFINE w == [Idle EXCEPT !.pc = "saved", !.op = "poster", !.user = u, !.media = {m}, !.file = f]
  <2>1. Set(r, w) /\ disk' = disk \cup {f} /\ UNCHANGED <<rows, abandoned>> /\ job[r].pc = "idle"
    BY <1>2 DEF SavePoster, db, history
  <2>2. w.paths = {} /\ w.file = f /\ f # NoFile
    BY Names DEF Idle
  <2> HIDE DEF w
  <2>3. Held(r)' = {f} /\ \A q \in Request \ {r} : Held(q)' = Held(q)
    BY <2>1, <2>2, SetHeld
  <2>4. \A g : RowNames(g)' <=> RowNames(g)
    BY <2>1 DEF RowNames
  <2>5. Held(r) = {}
    BY <2>1, HeldFiles
  <2> QED BY <2>1, <2>3, <2>4, <2>5, AccountedStep
<1>3. CASE CreateMedia(r)
  <2>1. /\ Set(r, Idle) /\ job[r].pc = "saved" /\ UNCHANGED <<disk, abandoned>>
        /\ DOMAIN rows' = DOMAIN rows \cup {job[r].file}
        /\ \A m \in DOMAIN rows : m # job[r].file => rows'[m] = rows[m]
    BY <1>3 DEF CreateMedia, End, history
  <2>2. Held(r) = {job[r].file} /\ \A q \in Request \ {r} : Held(q)' = Held(q)
    BY <2>1, SetHeld, HeldFiles
  <2>3. job[r].file # NoFile => job[r].file \notin DOMAIN rows
    BY InHand DEF JobOK, Fresh
  <2>4. \A m \in DOMAIN rows : m # NoFile
    BY FilesAreFiles, Names
  <2>5. \A f : RowNames(f) \/ f = job[r].file => RowNames(f)'
    BY <2>1, <2>3, <2>4 DEF RowNames
  <2> QED BY <2>1, <2>2, <2>5, AccountedStep
<1>4. CASE CreateMediaFails(r)
  <2>1. /\ Set(r, Idle) /\ job[r].pc = "saved" /\ UNCHANGED <<rows, disk>>
        /\ abandoned' = abandoned \cup {job[r].file}
    BY <1>4 DEF CreateMediaFails, End, db
  <2>2. Held(r) = {job[r].file}
    BY <2>1, HeldFiles
  <2> QED BY <2>1, <2>2, SetHeld, HoldingStep
<1>5. CASE PosterSnapshot(r)
  <2>1. job[r].pc = "saved" /\ UNCHANGED <<rows, disk, abandoned>>
    BY <1>5 DEF PosterSnapshot, db, history
  <2>2. Held(r) = {job[r].file}
    BY <2>1, HeldFiles
  <2>3. PICK m \in job[r].media :
          \/ Set(r, [job[r] EXCEPT !.pc = "snapshot", !.previous = rows[m].poster])
          \/ ToFiles(r, DropNew(r))
    BY <1>5 DEF PosterSnapshot
  <2>4. CASE Set(r, [job[r] EXCEPT !.pc = "snapshot", !.previous = rows[m].poster])
    <3> DEFINE w == [job[r] EXCEPT !.pc = "snapshot", !.previous = rows[m].poster]
    <3>1. w.paths = job[r].paths /\ w.file = job[r].file /\ Set(r, w)
      BY <2>4, InHand DEF JobState
    <3> HIDE DEF w
    <3>2. Held(r)' = Held(r) /\ \A q \in Request \ {r} : Held(q)' = Held(q)
      BY <3>1, SetHeld DEF Held
    <3> QED BY <2>1, <3>2, HoldingStep
  <2>5. CASE ToFiles(r, DropNew(r))
    BY <2>1, <2>2, <2>5, ToFilesHeld, HoldingStep DEF DropNew
  <2> QED BY <2>3, <2>4, <2>5
<1> QED BY <1>1, <1>2, <1>3, <1>4, <1>5

LEMMA AccountedPoster ==
  ASSUME Inv, FilesAccountedFor, NEW r \in Request, SetMediaPoster(r) \/ SetMediaPosterFails(r)
  PROVE  FilesAccountedFor'
<1>1. job[r].pc = "snapshot" /\ UNCHANGED disk /\ Held(r) = {job[r].file} /\ job[r].file # NoFile
  BY HeldFiles, InHand, PosterFields DEF SetMediaPoster, SetMediaPosterFails, JobOK, Shape
<1>2. ASSUME ToFiles(r, DropNew(r)), UNCHANGED <<rows, abandoned>> PROVE FilesAccountedFor'
  BY <1>1, <1>2, ToFilesHeld, HoldingStep DEF DropNew
<1>3. ASSUME NEW m \in DOMAIN rows, rows' = [rows EXCEPT ![m].poster = job[r].file], NEW P, ToFiles(r, P),
             abandoned' = abandoned \cup ({rows[m].poster} \ (P \cup {NoFile}))
      PROVE  FilesAccountedFor'
  <2>1. rows \in [DOMAIN rows -> Row]
    BY DEF Inv, Tables
  <2>2. /\ DOMAIN rows' = DOMAIN rows /\ rows'[m].poster = job[r].file
        /\ \A n \in DOMAIN rows : n # m => rows'[n] = rows[n]
    BY <1>3, <2>1 DEF Row
  <2>3. \A f \in disk : f # NoFile
    BY ConstantsAssumption DEF Inv, Tables
  <2>4. \A f \in disk : RowNames(f) => RowNames(f)' \/ f \in P \/ f \in abandoned'
    BY <1>3, <2>2, <2>3 DEF RowNames
  <2>5. \A f : f = job[r].file => RowNames(f)'
    BY <2>2 DEF RowNames
  <2>6. Held(r)' = P /\ \A q \in Request \ {r} : Held(q)' = Held(q)
    BY <1>3, ToFilesHeld
  <2> QED BY <1>1, <1>3, <2>4, <2>5, <2>6, AccountedStep
<1>4. CASE SetMediaPoster(r)
  <2>1. PICK m \in job[r].media :
         IF Owned(r, m)
            THEN /\ rows' = [rows EXCEPT ![m].poster = job[r].file]
                 /\ ToFiles(r, DropPrevious(r))
                 /\ abandoned' = abandoned \cup ({rows[m].poster} \ {job[r].previous, NoFile})
            ELSE /\ ToFiles(r, DropNew(r))
                 /\ UNCHANGED <<rows, abandoned>>
    BY <1>4 DEF SetMediaPoster
  <2>2. CASE Owned(r, m)
    <3>1. m \in DOMAIN rows
      BY <2>2 DEF Owned
    <3>2. {rows[m].poster} \ {job[r].previous, NoFile} = {rows[m].poster} \ (DropPrevious(r) \cup {NoFile})
      BY DEF DropPrevious
    <3> QED BY <1>3, <2>1, <2>2, <3>1, <3>2
  <2> QED BY <1>2, <2>1, <2>2
<1>5. CASE SetMediaPosterFails(r)
  <2>1. ToFiles(r, DropNew(r))
    BY <1>5 DEF SetMediaPosterFails
  <2>2. CASE UNCHANGED <<rows, abandoned>>
    BY <1>2, <2>1, <2>2
  <2>3. ASSUME NEW m \in DOMAIN rows, rows' = [rows EXCEPT ![m].poster = job[r].file],
               abandoned' = abandoned \cup ({rows[m].poster} \ {NoFile})
        PROVE  FilesAccountedFor'
    <3>1. rows[m].poster # job[r].file
      BY <1>1, InHand DEF JobOK, Fresh
    <3>2. {rows[m].poster} \ {NoFile} = {rows[m].poster} \ (DropNew(r) \cup {NoFile})
      BY <3>1 DEF DropNew
    <3> QED BY <1>3, <2>1, <2>3, <3>2
  <2> QED BY <1>5, <2>2, <2>3 DEF SetMediaPosterFails, Owned
<1> QED BY <1>4, <1>5

\* Deletions: what is taken from the rows is listed, or an account's.
LEMMA AccountedDeletions ==
  ASSUME Inv, FilesAccountedFor, NEW r \in Request,
         \/ DeleteRow(r) \/ (\E m \in job[r].todo : Decide(r, m)) \/ Remove(r)
         \/ Rollback(r)
  PROVE  FilesAccountedFor'
<1>1. /\ UNCHANGED <<rows, disk, abandoned>>
      /\ job[r].pc \in {"checked", "inserted", "collected", "decide", "remove"}
  BY DEF DeleteRow, Decide, Remove, Rollback, db, history
<1>2. Held(r) = job[r].paths /\ job[r] \in JobState /\ JobOK(job[r]) /\ job[r].file = NoFile
  BY <1>1, HeldFiles, InHand DEF JobOK, Shape
<1>3. CASE Rollback(r)
  <2>1. \A f \in Held(r) : RowNames(f)
    <3>1. job[r].pc \in {"checked", "inserted", "collected"} => Held(r) = {}
      BY <1>2, HeldFiles
    <3>2. job[r].pc \in {"decide", "remove"} =>
            \A f \in job[r].paths : \E m \in DOMAIN rows : f \in FilesOf(m)
      BY <1>2 DEF JobOK, Lists
    <3> QED BY <1>1, <1>2, <3>1, <3>2 DEF FilesOf, RowNames
  <2>2. \A q \in Request \ {r} : Held(q)' = Held(q)
    BY <1>3, SetHeld DEF Rollback, End
  <2> QED BY <1>1, <2>1, <2>2, HoldingStep
<1>4. ASSUME NEW w, Set(r, w), job[r].paths \subseteq w.paths PROVE FilesAccountedFor'
  BY <1>1, <1>2, <1>4, SetHeld, HoldingStep
<1>5. CASE DeleteRow(r)
  <2>1. CASE Set(r, [job[r] EXCEPT !.pc = "decide"])
    <3>1. [job[r] EXCEPT !.pc = "decide"].paths = job[r].paths
      BY <1>2 DEF JobState
    <3> QED BY <1>4, <2>1, <3>1
  <2>2. ASSUME NEW g, Set(r, [job[r] EXCEPT !.pc = "decide", !.gone = g]) PROVE FilesAccountedFor'
    <3>1. [job[r] EXCEPT !.pc = "decide", !.gone = g].paths = job[r].paths
      BY <1>2 DEF JobState
    <3> QED BY <1>4, <2>2, <3>1
  <2> QED BY <1>5, <2>1, <2>2 DEF DeleteRow
<1>6. ASSUME NEW m \in job[r].todo, Decide(r, m) PROVE FilesAccountedFor'
  <2> DEFINE v == [job[r] EXCEPT !.pc = "remove", !.media = {m}, !.todo = @ \ {m}]
             w == [job[r] EXCEPT !.todo = @ \ {m}]
  <2>1. v.paths = job[r].paths /\ w.paths = job[r].paths
    BY <1>2 DEF JobState
  <2>2. Set(r, v) \/ Set(r, w)
    BY <1>6 DEF Decide
  <2> HIDE DEF v, w
  <2> QED BY <1>4, <2>1, <2>2
<1>7. CASE Remove(r)
  <2>1. PICK m : \/ Set(r, [job[r] EXCEPT !.pc = "decide", !.media = {}, !.gone = @ \cup {m},
                                          !.paths = @ \cup FilesOf(m)])
                 \/ Set(r, [job[r] EXCEPT !.pc = "decide", !.media = {}])
    BY <1>7 DEF Remove
  <2> DEFINE v == [job[r] EXCEPT !.pc = "decide", !.media = {}, !.gone = @ \cup {m},
                                 !.paths = @ \cup FilesOf(m)]
             w == [job[r] EXCEPT !.pc = "decide", !.media = {}]
  <2>2. v.paths = job[r].paths \cup FilesOf(m) /\ w.paths = job[r].paths
    BY <1>2 DEF JobState
  <2>3. Set(r, v) \/ Set(r, w)
    BY <2>1
  <2> HIDE DEF v, w
  <2> QED BY <1>4, <2>2, <2>3
<1> QED BY <1>3, <1>5, <1>6, <1>7

LEMMA AccountedCommit ==
  ASSUME Inv, FilesAccountedFor, NEW r \in Request, CommitDelete(r)
  PROVE  FilesAccountedFor'
<1> DEFINE j == job[r]
           lost == (UNION {{m} \cup ({rows[m].poster} \ {NoFile}) : m \in
                             IF j.op = "delAccount" THEN j.gone ELSE {}}) \ j.paths
<1>1. /\ j.pc = "decide" /\ UNCHANGED disk /\ abandoned' = abandoned \cup lost /\ ToFiles(r, j.paths)
      /\ DOMAIN rows' = DOMAIN rows \ j.gone /\ \A m \in DOMAIN rows' : rows'[m] = rows[m]
  BY CommitDeleteLeaves DEF CommitDelete
<1>2. Held(r) = j.paths /\ Held(r)' = j.paths /\ \A q \in Request \ {r} : Held(q)' = Held(q)
  BY <1>1, HeldFiles, ToFilesHeld
<1>3. \A m \in j.gone : FilesOf(m) \subseteq j.paths \cup lost
  <2>1. CASE j.op = "delAccount"
    <3>1. lost = (UNION {FilesOf(m) : m \in j.gone}) \ j.paths
      BY <2>1 DEF FilesOf
    <3> HIDE DEF lost, j
    <3>2. ASSUME NEW m \in j.gone, NEW f \in FilesOf(m) PROVE f \in j.paths \cup lost
      <4>1. f \in UNION {FilesOf(n) : n \in j.gone}
        OBVIOUS
      <4> QED BY <3>1, <4>1
    <3> QED BY <3>2
  <2>2. CASE j.op # "delAccount"
    BY <1>1, <2>2, InHand DEF JobOK, Lists
  <2> QED BY <2>1, <2>2
<1>4. \A f \in disk : f # NoFile
  BY ConstantsAssumption DEF Inv, Tables
<1> HIDE DEF j, lost
<1>5. \A f \in disk : RowNames(f) => RowNames(f)' \/ f \in j.paths \/ f \in lost
  BY <1>1, <1>3, <1>4 DEF RowNames, FilesOf
<1> QED BY <1>1, <1>2, <1>5, AccountedStep

LEMMA AccountedDeletes ==
  ASSUME Inv, FilesAccountedFor, NEW r \in Request, NEW f \in job[r].paths, DeleteFile(r, f)
  PROVE  FilesAccountedFor'
<1>1. /\ job[r].pc = "files" /\ ToFiles(r, job[r].paths \ {f}) /\ UNCHANGED rows
      /\ abandoned \subseteq abandoned' /\ disk' \subseteq disk
      /\ f \in disk' => f \in abandoned'
  BY DEF DeleteFile, db
<1>2. /\ Held(r) = job[r].paths /\ Held(r)' = job[r].paths \ {f}
      /\ \A q \in Request \ {r} : Held(q)' = Held(q)
  BY <1>1, HeldFiles, ToFilesHeld
<1>3. \A g : RowNames(g)' <=> RowNames(g)
  BY <1>1 DEF RowNames
<1> QED BY <1>1, <1>2, <1>3, AccountedStep

LEMMA AccountedStays == Inv /\ FilesAccountedFor /\ [Next]_vars => FilesAccountedFor'
<1> SUFFICES ASSUME Inv, FilesAccountedFor, [Next]_vars PROVE FilesAccountedFor'
  OBVIOUS
<1>1. ASSUME NEW r \in Request, Step(r) PROVE FilesAccountedFor'
  BY <1>1, AccountedWithoutFiles, AccountedUploads, AccountedPoster, AccountedDeletions, AccountedCommit
     DEF Step
<1>2. CASE Crash
  BY <1>2 DEF Crash, FilesAccountedFor, db
<1>3. CASE UNCHANGED vars
  BY <1>3 DEF vars, db, history, FilesAccountedFor, Held
<1>4. CASE Next
  BY <1>1, <1>2, <1>4, AccountedWithoutFiles, AccountedUploads, AccountedDeletions, AccountedDeletes
     DEF Next
<1> QED BY <1>3, <1>4

(* A file that no row names and no request has in hand is one of those the *)
(* code is known to lose (FilesAccountedFor): a crash's, a failed          *)
(* statement's or deletion's, a second poster's or a deleted account's.    *)
THEOREM FilesTraced == Spec => []FilesAccountedFor
<1>1. Init => FilesAccountedFor
  BY DEF Init, FilesAccountedFor
<1> QED BY <1>1, InvInit, InvStep, AccountedStays, PTL DEF Spec
=============================================================================
