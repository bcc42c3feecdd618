------------------------------ MODULE MCReading ------------------------------
(* Small groups for Threads and Reading: Ann (an administrator), Ben, Cem. *)
EXTENDS Reading

Ann == 1
Ben == 2
Cem == 3

Request(op, by, on) == [op |-> op, by |-> by, on |-> on, parent |-> NoParent, tap |-> 1]
Again(q) == [q EXCEPT !.tap = 2]
ReplyBy(by, post, parent) == [Request("comment", by, post) EXCEPT !.parent = parent]

PostAt(id, by, at) == [id |-> id, by |-> by, kind |-> "checkin", at |-> at]
CommentAt(id, by, parent, at) == [id |-> id, post |-> 1, by |-> by, parent |-> parent, at |-> at]
LikeAt(id, by, at) == [id |-> id, post |-> 1, by |-> by, at |-> at]

\* One check-in of Ann's, nothing said yet; everyone has a device.
Group ==
  [members |-> {Ann, Ben, Cem}, admins |-> {Ann}, now |-> 1, clock |-> FALSE, plan |-> {},
   posts |-> {PostAt(1, Ann, 0)}, comments |-> {}, likes |-> {},
   ids |-> [post |-> 1, comment |-> 0, like |-> 0],
   devices |-> {[token |-> m, user |-> m] : m \in {Ann, Ben, Cem}},
   list |-> "none", reader |-> Ann, limit |-> 1]

\* Ben has commented; Cem replies and so does Ann, while Ben takes his
\* comment back, with all that hangs below it, or blocks Cem.
Replies ==
  [Group EXCEPT !.comments = {CommentAt(1, Ben, 0, 0)}, !.ids.comment = 1,
     !.plan = {ReplyBy(Cem, 1, 1), ReplyBy(Ann, 1, 1),
               Request("block", Ben, Cem), Request("delete comment", Ben, 1)}]

\* A reply to Ann's own comment below her own check-in, and one to that.
OwnThread ==
  [Group EXCEPT !.comments = {CommentAt(1, Ann, 0, 0)}, !.ids.comment = 1,
     !.plan = {ReplyBy(Ben, 1, 1), ReplyBy(Cem, 1, 2), Request("revoke", Ann, Ben),
               Request("prefs", Ann, "replies"), Request("delete post", Ann, 1)}]

\* Two taps on the heart, and it is taken back.
Hearts ==
  [Group EXCEPT !.plan = {Request("like", Ben, 1), Again(Request("like", Ben, 1)),
                          Request("unlike", Ben, 1), Request("block", Ann, Ben),
                          Request("unblock", Ann, Ben)}]

\* A phone changes hands while a check-in, a comment and a like come.
Phones ==
  [Group EXCEPT !.plan = {Request("register", Ben, Ann), Request("unregister", Cem, Cem),
                          Request("post", Cem, 0), Request("comment", Cem, 1)}]

\* Four posts, two of one instant and one of them a recap.  Two more come,
\* one goes, and Ann blocks Ben and thinks better of it.
Scrolling ==
  [Group EXCEPT !.list = "feed", !.clock = TRUE, !.now = 2, !.devices = {},
     !.posts = {PostAt(1, Ann, 0), PostAt(2, Ben, 1), PostAt(3, Cem, 1),
                [PostAt(4, Ben, 2) EXCEPT !.kind = "recap"]}, !.ids.post = 4,
     !.plan = {Request("post", Cem, 0), Request("delete post", Cem, 3),
               Request("block", Ann, Ben), Request("unblock", Ann, Ben)}]

\* Ann's activity: a comment and a like of one instant and one id, and
\* more to come.
CatchingUp ==
  [Group EXCEPT !.list = "activity", !.clock = TRUE, !.devices = {},
     !.comments = {CommentAt(1, Ben, 0, 1)}, !.likes = {LikeAt(1, Ben, 1)},
     !.ids.comment = 1, !.ids.like = 1,
     !.plan = {Request("comment", Cem, 1), Request("like", Cem, 1), Request("delete comment", Ben, 1)}]

\* Ben's: replies to his comments below Ann's check-in, two to a page.
CatchingUpOnReplies ==
  [CatchingUp EXCEPT !.reader = Ben, !.limit = 2, !.comments = @ \cup {CommentAt(2, Cem, 1, 1), CommentAt(3, Ann, 1, 1)},
     !.ids.comment = 3,
     !.plan = {ReplyBy(Cem, 1, 1), Request("unlike", Ben, 1), Request("delete comment", Cem, 2), Request("block", Ben, Cem)}]

MCScenes ==
  {Replies, OwnThread, Hearts, Phones, Scrolling, [Scrolling EXCEPT !.limit = 2],
   CatchingUp, CatchingUpOnReplies}

\* Ben has commented on Ann's check-in, then blocks Ann; Cem answers Ben.
Hidden ==
  {[Group EXCEPT !.comments = {CommentAt(1, Ben, 0, 0)}, !.ids.comment = 1,
      !.plan = {Request("block", Ben, Ann), ReplyBy(Cem, 1, 1)}]}
=============================================================================
