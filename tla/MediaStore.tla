----------------------------- MODULE MediaStore -----------------------------
(***************************************************************************)
(* Uploaded files and the database rows that name them.  A file is written *)
(* before its row and deleted after the row's removal commits, by requests *)
(* that interleave with each other and that a crash can stop anywhere.     *)
(* Posts, comments and profile photos refer to rows; deleting one of them  *)
(* collects the rows nothing refers to any more.                           *)
(*                                                                         *)
(* The database is PostgreSQL at READ COMMITTED, and a transaction is      *)
(* modelled by its statements: each sees what has been committed, and its  *)
(* own changes.  Inserting a reference holds a key-share lock on the row   *)
(* until commit; deleting the row waits for such locks, but not again for  *)
(* the condition it was chosen by.                                         *)
(***************************************************************************)
EXTENDS Naturals, FiniteSets

CONSTANTS
  Member,
  Media,            \* media rows; a row's clip or image file has its name
  Poster,           \* files of poster frames
  Request,          \* requests being served at once
  NoFile,           \* the empty poster_path, the NULL media_id
  MaxPosts, MaxComments,  \* bounds on posts and comments ever made
  MaxEnds           \* bound on crashes and on uploads cut off

File == Media \cup Poster
PostId == 1..MaxPosts
CommentId == 1..MaxComments

ASSUME ConstantsAssumption ==
  /\ Media \cap Poster = {} /\ NoFile \notin File
  /\ MaxPosts \in Nat /\ MaxComments \in Nat /\ MaxEnds \in Nat

VARIABLES
  accounts,   \* the users table
  rows,       \* the media table: a function from its ids to their columns
  posts,      \* posts with their post_media
  comments,   \* comments with their attachment
  photo,      \* users.profile_media_id
  disk,       \* the files there are
  job,        \* the local state of every request
  issued,     \* names and ids handed out, none of which comes again
  ends,       \* crashes and cut-off requests so far
  \* History, read by properties only:
  abandoned,  \* files whose request ended or lost track of them
  torn        \* posters whose upload failed after the row took them

db == <<accounts, rows, posts, comments, photo>>
history == <<abandoned, torn>>
vars == <<db, disk, job, issued, ends, history>>

Idle == [pc |-> "idle", op |-> "none", user |-> NoFile, media |-> {}, file |-> NoFile,
         target |-> 0, id |-> 0, previous |-> NoFile, todo |-> {}, gone |-> {}, paths |-> {}]

Row == [owner : Member, poster : Poster \cup {NoFile}]
Post == [id : PostId, author : Member, media : SUBSET Media, made : SUBSET Media,
         raced : BOOLEAN]
Comment == [id : CommentId, post : PostId, author : Member, media : SUBSET Media,
            made : SUBSET Media, raced : BOOLEAN]
Op == {"none", "upload", "poster", "post", "comment", "photo",
       "delPost", "delComment", "delAccount"}
Pc == {"idle", "saved", "snapshot", "checked", "inserted",
       "collected", "decide", "remove", "files"}
JobState == [pc : Pc, op : Op, user : Member \cup {NoFile}, media : SUBSET Media,
             file : File \cup {NoFile}, target : Nat, id : Nat, previous : Poster \cup {NoFile},
             todo : SUBSET Media, gone : SUBSET Media, paths : SUBSET File]

TypeOK ==
  /\ accounts \subseteq Member
  /\ DOMAIN rows \subseteq Media /\ rows \in [DOMAIN rows -> Row]
  /\ \A m \in DOMAIN rows : rows[m].owner \in accounts
  /\ posts \subseteq Post /\ comments \subseteq Comment
  /\ \A x \in posts \cup comments : x.media \subseteq DOMAIN rows \cap x.made
  /\ \A c \in comments : \E p \in posts : p.id = c.post
  /\ photo \in [Member -> DOMAIN rows \cup {NoFile}]
  /\ disk \subseteq File
  /\ job \in [Request -> JobState]
  /\ issued.files \subseteq File /\ issued.posts \in 0..MaxPosts
  /\ issued.comments \in 0..MaxComments /\ ends \in 0..MaxEnds
  /\ abandoned \subseteq File /\ torn \subseteq Poster

Init ==
  /\ accounts = Member
  /\ rows = [m \in {} |-> [owner |-> NoFile, poster |-> NoFile]]
  /\ posts = {} /\ comments = {}
  /\ photo = [u \in Member |-> NoFile]
  /\ disk = {}
  /\ job = [r \in Request |-> Idle]
  /\ issued = [files |-> {}, posts |-> 0, comments |-> 0]
  /\ ends = 0
  /\ abandoned = {} /\ torn = {}

-----------------------------------------------------------------------------
(* Locks and visibility.                                                   *)

(* Rows whose deletion is not yet committed: whoever wants to refer to one *)
(* or to change it waits.                                                  *)
Dying(m) == \E r \in Request : m \in job[r].gone
(* Rows referred to by an insertion that is not yet committed.             *)
KeyShared(m) == \E r \in Request : job[r].pc = "inserted" /\ m \in job[r].media
InDeletion(r) == job[r].pc \in {"decide", "remove"}
PostGoing(id) ==
  \E r \in Request :
    /\ InDeletion(r)
    /\ \/ job[r].op = "delPost" /\ job[r].target = id
       \/ /\ job[r].op = "delAccount"
          /\ \E p \in posts : p.id = id /\ p.author = job[r].user
CommentGoing(id) == \E r \in Request : InDeletion(r) /\ job[r].op = "delComment"
                                         /\ job[r].target = id
AccountGoing(u) == \E r \in Request : InDeletion(r) /\ job[r].op = "delAccount"
                                        /\ job[r].user = u

(* What request r still sees in its transaction.                           *)
PostsSeen(r) ==
  {p \in posts : ~(job[r].op = "delPost" /\ p.id = job[r].target)
                   /\ ~(job[r].op = "delAccount" /\ p.author = job[r].user)}
CommentsSeen(r) ==
  {c \in comments : /\ ~(job[r].op = "delComment" /\ c.id = job[r].target)
                    /\ ~(job[r].op = "delAccount" /\ c.author = job[r].user)
                    /\ \E p \in PostsSeen(r) : p.id = c.post}

(* deleteOrphanMedia's condition.                                          *)
OrphanButForComments(r, m) ==
  /\ m \in DOMAIN rows \ job[r].gone
  /\ \A x \in PostsSeen(r) : m \notin x.media
  /\ \A u \in Member : photo[u] # m
Orphan(r, m) ==
  /\ m \in DOMAIN rows \ job[r].gone
  /\ \A x \in PostsSeen(r) \cup CommentsSeen(r) : m \notin x.media
  /\ \A u \in accounts : photo[u] # m

Set(r, v) == job' = [job EXCEPT ![r] = v]
End(r) == Set(r, Idle)
(* The request goes on to delete these files, or is over.                  *)
ToFiles(r, paths) ==
  Set(r, IF paths = {} THEN Idle
         ELSE [Idle EXCEPT !.pc = "files", !.op = job[r].op, !.paths = paths])

-----------------------------------------------------------------------------
(* handleUploadMedia: SaveMedia, then CreateMedia.                         *)
SaveFile(r, u, m) ==
  /\ job[r].pc = "idle" /\ u \in accounts /\ m \notin issued.files
  /\ disk' = disk \cup {m}
  /\ issued' = [issued EXCEPT !.files = @ \cup {m}]
  /\ Set(r, [Idle EXCEPT !.pc = "saved", !.op = "upload", !.user = u, !.file = m])
  /\ UNCHANGED <<db, ends, history>>

CreateMedia(r) ==
  /\ job[r].pc = "saved" /\ job[r].op = "upload"
  /\ job[r].user \in accounts /\ ~AccountGoing(job[r].user)
  /\ rows' = [m \in DOMAIN rows \cup {job[r].file} |->
                IF m = job[r].file THEN [owner |-> job[r].user, poster |-> NoFile]
                ELSE rows[m]]
  /\ End(r)
  /\ UNCHANGED <<accounts, posts, comments, photo, disk, issued, ends, history>>

(* The insertion fails: the file stays, and nothing names it.              *)
CreateMediaFails(r) ==
  /\ job[r].pc = "saved" /\ job[r].op = "upload"
  /\ job[r].user \notin accounts \/ ends < MaxEnds
  /\ ends' = IF job[r].user \notin accounts THEN ends ELSE ends + 1
  /\ abandoned' = abandoned \cup {job[r].file}
  /\ End(r)
  /\ UNCHANGED <<db, disk, issued, torn>>

(* handleSetMediaPoster: SaveImage, SetMediaPoster, store.Delete.  The     *)
(* statement learns the poster it replaces from its snapshot, and may wait *)
(* for the row after taking it.                                            *)
SavePoster(r, u, m, f) ==
  /\ job[r].pc = "idle" /\ u \in accounts /\ f \notin issued.files
  /\ m \in issued.files
  /\ disk' = disk \cup {f}
  /\ issued' = [issued EXCEPT !.files = @ \cup {f}]
  /\ Set(r, [Idle EXCEPT !.pc = "saved", !.op = "poster", !.user = u,
                         !.media = {m}, !.file = f])
  /\ UNCHANGED <<db, ends, history>>

Owned(r, m) == m \in DOMAIN rows /\ rows[m].owner = job[r].user

DropNew(r) == {job[r].file}
DropReturned(r) == {job[r].file}
DropPrevious(r) == {job[r].previous} \ {NoFile}

PosterSnapshot(r) ==
  /\ job[r].pc = "saved" /\ job[r].op = "poster"
  /\ \E m \in job[r].media :
       IF Owned(r, m)
         THEN Set(r, [job[r] EXCEPT !.pc = "snapshot", !.previous = rows[m].poster])
         ELSE ToFiles(r, DropNew(r))
  /\ UNCHANGED <<db, disk, issued, ends, history>>

SetMediaPoster(r) ==
  /\ job[r].pc = "snapshot"
  /\ \E m \in job[r].media :
       /\ ~Dying(m)
       /\ IF Owned(r, m)
            THEN /\ rows' = [rows EXCEPT ![m].poster = job[r].file]
                 /\ ToFiles(r, DropPrevious(r))
                 /\ abandoned' = abandoned \cup
                      ({rows[m].poster} \ {job[r].previous, NoFile})
            ELSE /\ ToFiles(r, DropNew(r))
                 /\ UNCHANGED <<rows, abandoned>>
  /\ UNCHANGED <<accounts, posts, comments, photo, disk, issued, ends, torn>>

(* The statement reports an error: the new file is deleted, even when the  *)
(* database took the change and only the reply was lost.                   *)
SetMediaPosterFails(r) ==
  /\ job[r].pc = "snapshot" /\ ends < MaxEnds
  /\ ends' = ends + 1
  /\ ToFiles(r, DropNew(r))
  /\ \/ UNCHANGED <<rows, torn, abandoned>>
     \/ \E m \in job[r].media :
          /\ ~Dying(m) /\ Owned(r, m)
          /\ rows' = [rows EXCEPT ![m].poster = job[r].file]
          /\ torn' = torn \cup {job[r].file}
          /\ abandoned' = abandoned \cup ({rows[m].poster} \ {NoFile})
  /\ UNCHANGED <<accounts, posts, comments, photo, disk, issued>>

-----------------------------------------------------------------------------
(* CreatePost and AddComment: the ownership check, the insertion with its  *)
(* foreign keys, the commit.  A comment without an attachment refers to no *)
(* row and is left out.                                                    *)
CheckPost(r, u, ms) ==
  /\ job[r].pc = "idle" /\ u \in accounts
  /\ ms \subseteq {m \in DOMAIN rows : rows[m].owner = u}
  /\ Set(r, [Idle EXCEPT !.pc = "checked", !.op = "post", !.user = u, !.media = ms])
  /\ UNCHANGED <<db, disk, issued, ends, history>>

CheckComment(r, u, id, ms) ==
  /\ job[r].pc = "idle" /\ u \in accounts
  /\ \E p \in posts : p.id = id
  /\ Cardinality(ms) = 1
  /\ ms \subseteq {m \in DOMAIN rows : rows[m].owner = u}
  /\ Set(r, [Idle EXCEPT !.pc = "checked", !.op = "comment", !.user = u,
                         !.media = ms, !.target = id])
  /\ UNCHANGED <<db, disk, issued, ends, history>>

Insert(r) ==
  /\ job[r].pc = "checked" /\ job[r].op \in {"post", "comment"}
  /\ job[r].user \in accounts /\ ~AccountGoing(job[r].user)
  /\ \A m \in job[r].media : m \in DOMAIN rows /\ ~Dying(m)
  /\ \/ job[r].op = "post" /\ issued.posts < MaxPosts
        /\ issued' = [issued EXCEPT !.posts = @ + 1]
        /\ Set(r, [job[r] EXCEPT !.pc = "inserted", !.id = issued.posts + 1])
     \/ job[r].op = "comment" /\ issued.comments < MaxComments
        /\ (\E p \in posts : p.id = job[r].target) /\ ~PostGoing(job[r].target)
        /\ issued' = [issued EXCEPT !.comments = @ + 1]
        /\ Set(r, [job[r] EXCEPT !.pc = "inserted", !.id = issued.comments + 1])
  /\ UNCHANGED <<db, disk, ends, history>>

(* A row, the post or the account is gone: a foreign key refuses.          *)
InsertFails(r) ==
  /\ job[r].pc = "checked"
  /\ \/ job[r].user \notin accounts
     \/ ~(job[r].media \subseteq DOMAIN rows)
     \/ job[r].op = "comment" /\ ~\E p \in posts : p.id = job[r].target
  /\ End(r)
  /\ UNCHANGED <<db, disk, issued, ends, history>>

(* A deletion has already made up its mind about one of the rows.          *)
Raced(r) == \E q \in Request : job[q].pc = "remove" /\ job[q].media \cap job[r].media # {}

CommitPost(r) ==
  /\ job[r].pc = "inserted" /\ job[r].op = "post"
  /\ posts' = posts \cup {[id |-> job[r].id, author |-> job[r].user,
                           media |-> job[r].media, made |-> job[r].media, raced |-> Raced(r)]}
  /\ End(r)
  /\ UNCHANGED <<accounts, rows, comments, photo, disk, issued, ends, history>>

CommitComment(r) ==
  /\ job[r].pc = "inserted" /\ job[r].op = "comment"
  /\ comments' = comments \cup
       {[id |-> job[r].id, post |-> job[r].target, author |-> job[r].user,
         media |-> job[r].media, made |-> job[r].media, raced |-> Raced(r)]}
  /\ End(r)
  /\ UNCHANGED <<accounts, rows, posts, photo, disk, issued, ends, history>>

(* handleSetProfilePhoto: GetMedia and its checks, then the update.        *)
CheckPhoto(r, u, m) ==
  /\ job[r].pc = "idle" /\ u \in accounts
  /\ m \in DOMAIN rows /\ rows[m].owner = u
  /\ Set(r, [Idle EXCEPT !.pc = "checked", !.op = "photo", !.user = u, !.media = {m}])
  /\ UNCHANGED <<db, disk, issued, ends, history>>

SetUserProfileMedia(r) ==
  /\ job[r].pc = "checked" /\ job[r].op = "photo"
  /\ job[r].user \in accounts /\ ~AccountGoing(job[r].user)
  /\ \E m \in job[r].media :
       /\ m \in DOMAIN rows /\ ~Dying(m)
       /\ photo' = [photo EXCEPT ![job[r].user] = m]
  /\ End(r)
  /\ UNCHANGED <<accounts, rows, posts, comments, disk, issued, ends, history>>

-----------------------------------------------------------------------------
(* DeletePost, DeleteComment, DeleteAccount: the candidates are collected, *)
(* the rows that refer to them deleted, and each candidate that nothing    *)
(* else refers to is removed; after the commit their files are deleted.    *)
CollectPost(r, p) ==
  /\ job[r].pc = "idle"
  /\ Set(r, [Idle EXCEPT !.pc = "collected", !.op = "delPost", !.target = p.id,
                         !.todo = p.media])
  /\ UNCHANGED <<db, disk, issued, ends, history>>

CollectComment(r, c) ==
  /\ job[r].pc = "idle"
  /\ Set(r, [Idle EXCEPT !.pc = "collected", !.op = "delComment", !.target = c.id,
                         !.todo = c.media])
  /\ UNCHANGED <<db, disk, issued, ends, history>>

(* accountMediaIDs.                                                        *)
CollectAccount(r, u) ==
  /\ job[r].pc = "idle" /\ u \in accounts
  /\ Set(r, [Idle EXCEPT !.pc = "collected", !.op = "delAccount", !.user = u,
               !.todo = {m \in DOMAIN rows : rows[m].owner = u}
                          \cup UNION {p.media : p \in {q \in posts : q.author = u}}])
  /\ UNCHANGED <<db, disk, issued, ends, history>>

Inserting(r) == job[r].pc = "inserted"

(* The deletions, which wait for whoever holds the rows.  The statement    *)
(* that deletes a user takes the media rows the user owns with it.         *)
DeleteRow(r) ==
  LET j == job[r] IN
  /\ j.pc = "collected"
  /\ \/ /\ j.op = "delPost" /\ \E p \in posts : p.id = j.target
        /\ ~PostGoing(j.target)
        /\ \A q \in Request : ~(Inserting(q) /\ job[q].op = "comment"
                                  /\ job[q].target = j.target)
        /\ Set(r, [j EXCEPT !.pc = "decide"])
     \/ /\ j.op = "delComment" /\ \E c \in comments : c.id = j.target
        /\ ~CommentGoing(j.target)
        /\ Set(r, [j EXCEPT !.pc = "decide"])
     \/ /\ j.op = "delAccount" /\ j.user \in accounts /\ ~AccountGoing(j.user)
        /\ \A p \in posts : p.author = j.user => ~PostGoing(p.id)
        /\ LET owned == {m \in DOMAIN rows : rows[m].owner = j.user} IN
           /\ \A m \in owned : ~Dying(m) /\ ~KeyShared(m)
           /\ \A q \in Request : ~(Inserting(q) /\
                (job[q].user = j.user \/
                   \E p \in posts : p.id = job[q].target /\ p.author = j.user))
           /\ Set(r, [j EXCEPT !.pc = "decide", !.gone = owned])
  /\ UNCHANGED <<db, disk, issued, ends, history>>

(* RowsAffected is 0: someone else deleted it first.                       *)
DeleteNothing(r) ==
  /\ job[r].pc = "collected"
  /\ \/ job[r].op = "delPost" /\ ~\E p \in posts : p.id = job[r].target
     \/ job[r].op = "delComment" /\ ~\E c \in comments : c.id = job[r].target
  /\ End(r)
  /\ UNCHANGED <<db, disk, issued, ends, history>>

(* One turn of deleteOrphanMedia's loop: the condition is evaluated, and   *)
(* then the row is deleted, once no insertion holds it any more.           *)
Decide(r, m) ==
  /\ job[r].pc = "decide"
  /\ IF Orphan(r, m)
       THEN Set(r, [job[r] EXCEPT !.pc = "remove", !.media = {m}, !.todo = @ \ {m}])
       ELSE Set(r, [job[r] EXCEPT !.todo = @ \ {m}])
  /\ UNCHANGED <<db, disk, issued, ends, history>>

ClipOnly(m) == {m}
FilesOf(m) == {m} \cup ({rows[m].poster} \ {NoFile})

Remove(r) ==
  /\ job[r].pc = "remove"
  /\ \E m \in job[r].media :
       /\ ~Dying(m) /\ ~KeyShared(m)
       /\ IF m \in DOMAIN rows
            THEN Set(r, [job[r] EXCEPT !.pc = "decide", !.media = {},
                                       !.gone = @ \cup {m}, !.paths = @ \cup FilesOf(m)])
            ELSE Set(r, [job[r] EXCEPT !.pc = "decide", !.media = {}])
  /\ UNCHANGED <<db, disk, issued, ends, history>>

(* The commit; references that came in meanwhile lose the row: post_media  *)
(* by its cascade, comments and photos by ON DELETE SET NULL.              *)
Without(xs, gone) == {[x EXCEPT !.media = @ \ gone] : x \in xs}
PhotosKept(gone) == photo
PhotosLeft(gone) == [u \in Member |-> IF photo[u] \in gone THEN NoFile ELSE photo[u]]

CommitDelete(r) ==
  LET j == job[r] IN
  /\ j.pc = "decide" /\ j.todo = {}
  /\ rows' = [m \in DOMAIN rows \ j.gone |-> rows[m]]
  /\ posts' = Without(PostsSeen(r), j.gone)
  /\ comments' = Without(CommentsSeen(r), j.gone)
  /\ accounts' = IF j.op = "delAccount" THEN accounts \ {j.user} ELSE accounts
  /\ photo' = [u \in Member |->
       IF j.op = "delAccount" /\ u = j.user THEN NoFile ELSE PhotosLeft(j.gone)[u]]
  /\ abandoned' = abandoned \cup
       ((UNION {{m} \cup ({rows[m].poster} \ {NoFile}) : m \in
                  IF j.op = "delAccount" THEN j.gone ELSE {}}) \ j.paths)
  /\ ToFiles(r, j.paths)
  /\ UNCHANGED <<disk, issued, ends, torn>>

(* store.Delete, whose failure is ignored.                                 *)
DeleteFile(r, f) ==
  /\ job[r].pc = "files"
  /\ \/ disk' = disk \ {f} /\ UNCHANGED <<ends, abandoned>>
     \/ /\ ends < MaxEnds /\ ends' = ends + 1
        /\ abandoned' = abandoned \cup {f} /\ UNCHANGED disk
  /\ ToFiles(r, job[r].paths \ {f})
  /\ UNCHANGED <<db, issued, torn>>

-----------------------------------------------------------------------------
(* A statement fails or the client hangs up before the commit: rollback.   *)
Rollback(r) ==
  /\ job[r].pc \in {"checked", "inserted", "collected", "decide", "remove"}
  /\ ends < MaxEnds /\ ends' = ends + 1
  /\ End(r)
  /\ UNCHANGED <<db, disk, issued, history>>

(* The process dies: what was not committed never happened, and nobody     *)
(* comes back for the files its requests had in hand.                      *)
Held(r) == job[r].paths \cup ({job[r].file} \ {NoFile})
Crash ==
  /\ ends < MaxEnds /\ ends' = ends + 1
  /\ \E r \in Request : job[r].pc # "idle"
  /\ abandoned' = abandoned \cup UNION {Held(r) : r \in Request}
  /\ job' = [r \in Request |-> Idle]
  /\ UNCHANGED <<db, disk, issued, torn>>

Step(r) ==
  \/ CreateMedia(r) \/ CreateMediaFails(r)
  \/ PosterSnapshot(r) \/ SetMediaPoster(r) \/ SetMediaPosterFails(r)
  \/ Insert(r) \/ InsertFails(r) \/ CommitPost(r) \/ CommitComment(r)
  \/ SetUserProfileMedia(r)
  \/ DeleteRow(r) \/ DeleteNothing(r) \/ Remove(r) \/ CommitDelete(r) \/ Rollback(r)

Next ==
  \/ \E r \in Request : Step(r)
  \/ \E r \in Request, u \in Member, m \in Media : SaveFile(r, u, m) \/ CheckPhoto(r, u, m)
  \/ \E r \in Request, u \in Member, m \in Media, f \in Poster : SavePoster(r, u, m, f)
  \/ \E r \in Request, u \in Member, ms \in SUBSET Media :
       \/ CheckPost(r, u, ms)
       \/ \E p \in posts : CheckComment(r, u, p.id, ms)
  \/ \E r \in Request, p \in posts : CollectPost(r, p)
  \/ \E r \in Request, c \in comments : CollectComment(r, c)
  \/ \E r \in Request, u \in Member : CollectAccount(r, u)
  \/ \E r \in Request : \E m \in job[r].todo : Decide(r, m)
  \/ \E r \in Request : \E f \in job[r].paths : DeleteFile(r, f)
  \/ Crash

Spec == Init /\ [][Next]_vars

-----------------------------------------------------------------------------
(* Properties.                                                             *)

(* A row never outlives its files: whatever requests, crashes and failed   *)
(* deletions interleave, the file a member is served from is there.  Only  *)
(* a poster whose upload was reported as failed and taken may be missing.  *)
RowsHaveFiles ==
  \A m \in DOMAIN rows :
    /\ m \in disk
    /\ rows[m].poster \in disk \cup torn \cup {NoFile}

(* "the only symptom is a media volume that slowly fills": a file that no  *)
(* row names and no request has in hand is one a crash, a failed statement *)
(* or deletion, a second poster upload or an account's deletion left.      *)
FilesAccountedFor ==
  \A f \in disk :
    \/ f \in DOMAIN rows \/ \E m \in DOMAIN rows : rows[m].poster = f
    \/ \E r \in Request : f \in Held(r)
    \/ f \in abandoned

(* A post or comment that stands keeps its attachments, whoever else uses  *)
(* them and deletes what uses them; an insertion that a deletion overtakes *)
(* is the one exception.                                                   *)
AttachmentsKept ==
  \A x \in posts \cup comments : x.raced \/ x.media = x.made

(* queries.go on DeleteAccount: "Returns the file paths of any media that  *)
(* became orphaned so the caller can remove them from disk".               *)
AccountFilesReturned ==
  \A r \in Request :
    job[r].op = "delAccount" /\ job[r].pc = "decide" /\ job[r].todo = {}
      => UNION {FilesOf(m) : m \in job[r].gone} \subseteq job[r].paths

(* queries.go on DeletePost: it removes the post "plus any media that      *)
(* becomes orphaned as a result", but the attachments of the comments that *)
(* go with the post are not among its candidates.                          *)
CommentMediaCollected ==
  \A r \in Request :
    job[r].op = "delPost" /\ job[r].pc = "decide" /\ job[r].todo = {}
      => \A c \in comments : c.post = job[r].target => \A m \in c.media : ~Orphan(r, m)

(* "removes any candidate media rows no longer referenced": and no others, *)
(* so whatever stands keeps its attachments, overtaken by a deletion or    *)
(* not.                                                                    *)
OnlyOrphansRemoved == \A x \in posts \cup comments : x.media = x.made
=============================================================================
