------------------------------- MODULE Reading -------------------------------
(***************************************************************************)
(* A member reads a list of the group page by page while the group goes on *)
(* posting, deleting and blocking: the feed, as _loadMore asks for it, or  *)
(* the activity list, as its nextCursor leads through it.  The server      *)
(* keeps nothing between two pages; the position is in the request.        *)
(***************************************************************************)
EXTENDS Threads

VARIABLES
  reader,     \* pc, and the position the next page starts from
  shown,      \* entries shown so far
  standing    \* history: listed in every state since the first page

readVars == <<reader, shown, standing>>
vars == <<threadVars, readVars>>

NoCursor == <<>>
\* An entry is its sort key: created_at, kind, id.  'comment' < 'like' < 'reply'.
rank(kind) == CASE kind = "comment" -> 1 [] kind = "like" -> 2 [] kind = "reply" -> 3
Entry == Nat \X (0..3) \X Nat

feedEntries(viewer) == {<<p.at, 0, p.id>> : p \in Feed(viewer)}
activityEntries(viewer) == {<<i.at, rank(i.kind), i.row>> : i \in Activity(viewer)}

Listed ==
  IF scene.list = "feed" THEN feedEntries(scene.reader) ELSE activityEntries(scene.reader)

\* As it would be without the kind between the time and the id.
aboveByTimeAndId(j, k) == j[1] > k[1] \/ (j[1] = k[1] /\ j[3] > k[3])

\* ORDER BY created_at DESC, kind DESC, id DESC.
above(j, k) ==
  \/ j[1] > k[1]
  \/ j[1] = k[1] /\ j[2] > k[2]
  \/ j[1] = k[1] /\ j[2] = k[2] /\ j[3] > k[3]

\* As it would be with <= for <.
fromCursor(k, cursor) == cursor = NoCursor \/ k = cursor \/ above(cursor, k)

\* The WHERE clause: everything that sorts after the cursor.
afterCursor(k, cursor) == cursor = NoCursor \/ above(cursor, k)

\* What ORDER BY ... LIMIT n may answer from rows.
pages(rows, n) ==
  {page \in SUBSET rows :
     /\ Cardinality(page) <= n
     /\ Cardinality(page) < n => page = rows
     /\ \A k \in page, j \in rows \ page : ~above(j, k)}

\* The feed ends at an empty page, the activity list at a short one.
ends(page) == IF scene.list = "feed" THEN page = {} ELSE Cardinality(page) < scene.limit

NextPage ==
  /\ scene.list # "none" /\ reader.pc # "complete"
  /\ \E page \in pages({k \in Listed : afterCursor(k, reader.cursor)}, scene.limit) :
       /\ shown' = shown \cup page
       /\ \/ ends(page) /\ reader' = [pc |-> "complete", cursor |-> NoCursor]
          \/ /\ ~ends(page)
             /\ \E last \in page :
                  /\ \A k \in page : k = last \/ above(k, last)
                  /\ reader' = [pc |-> "reading", cursor |-> last]
  /\ standing' = IF reader.pc = "idle" THEN Listed ELSE standing
  /\ UNCHANGED threadVars

\* Any other request of the group goes on; the list changes, the position is
\* the reader's own.
Live ==
  /\ ThreadsNext
  /\ standing' = standing \cap Listed'
  /\ UNCHANGED <<reader, shown>>

Init ==
  /\ ThreadsInit
  /\ reader = [pc |-> "idle", cursor |-> NoCursor] /\ shown = {} /\ standing = {}

Next == Live \/ NextPage

Spec == Init /\ [][Next]_vars

\* Whoever began to read goes on: near the end of what is loaded the feed
\* asks for more, by itself while the screen is not full, and a request that
\* failed is repeated.  Nothing is assumed of those who post.
FairSpec == Spec /\ WF_vars(NextPage /\ reader.pc = "reading")

----------------------------------------------------------------------------
(* A reading page by page, its cursor cut at created_at, kind and id, is a *)
(* PagedRead: nothing is repeated or skipped at a page boundary, on ties   *)
(* of the time, on a transaction that commits late, or as rows disappear.  *)
Read == INSTANCE PagedRead WITH Entries <- Entry, listed <- Listed, state <- reader.pc
PagedReads == Read!Spec

(* And it ends: every page takes the cursor strictly on, so a reader who   *)
(* keeps asking is not led around, however much is posted meanwhile.       *)
ReadingEnds == reader.pc = "reading" ~> reader.pc = "complete"
=============================================================================
