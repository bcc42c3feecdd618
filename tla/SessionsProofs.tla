---------------------------- MODULE SessionsProofs ----------------------------
(* Sessions slide forward and never past their cap, a redeemed code is dead *)
(* and the wrong guesses at one are bounded, for any number of members,     *)
(* requests, sessions and codes and any limits; and every column keeps its  *)
(* type.                                                                    *)
EXTENDS Sessions, FiniteSetTheorems, TLAPS

(* The shape of the tables and of requests, column by column.               *)
Columns == {"active", "password", "code", "expires", "attempts"}
SessionColumns == {"user", "expires", "created", "password", "late", "kept"}
Fields == {"pc", "user", "token", "code", "password", "at", "late"}

NumbersOK == now \in Nat /\ tokens \in Nat /\ codes \in Nat /\ cuts \in Nat
AccountsOK ==
  /\ DOMAIN account = Member
  /\ \A u \in Member :
       DOMAIN account[u] = Columns /\ account[u].attempts \in Nat /\ account[u].password \in Nat
JobOK(j) ==
  /\ DOMAIN j = Fields /\ j.at \in Int /\ j.user \subseteq Member
  /\ j.pc # "idle" => \E u \in Member : j.user = {u}
JobsOK == DOMAIN job = Request /\ \A r \in Request : JobOK(job[r])
SessionOK(s) == DOMAIN s = SessionColumns /\ s.user \in Member /\ s.expires \in Int /\ s.created \in Int
SessionsOK == DOMAIN sessions \subseteq 1..tokens /\ \A t \in DOMAIN sessions : SessionOK(sessions[t])
Shape == NumbersOK /\ AccountsOK /\ JobsOK /\ SessionsOK

----------------------------------------------------------------------------
(* Requests.                                                               *)
LEMMA IdleIsAJob == JobOK(Idle) /\ Idle.pc = "idle"
BY DEF Idle, JobOK, Fields, Never

LEMMA Sets ==
  ASSUME DOMAIN job = Request, NEW r \in Request, NEW j, Set(r, j)
  PROVE  DOMAIN job' = Request /\ job'[r] = j /\ \A q \in Request \ {r} : job'[q] = job[q]
BY DEF Set

(* Setting a field leaves the others.                                      *)
LEMMA LateJob ==
  ASSUME NEW j, JobOK(j)
  PROVE  LET k == [j EXCEPT !.late = TRUE]
         IN /\ JobOK(k) /\ k.late
            /\ k.pc = j.pc /\ k.user = j.user /\ k.code = j.code /\ k.password = j.password
<1> DEFINE k == [j EXCEPT !.late = TRUE]
<1>1. DOMAIN k = Fields
  BY DEF JobOK
<1>2. /\ k.pc = j.pc /\ k.user = j.user /\ k.code = j.code /\ k.password = j.password /\ k.at = j.at
      /\ k.late = TRUE
  BY DEF JobOK, Fields
<1> HIDE DEF k
<1>3. JobOK(k)
  BY <1>1, <1>2 DEF JobOK
<1> QED BY <1>2, <1>3 DEF k

LEMMA MovedJob ==
  ASSUME NEW j, JobOK(j), j.pc # "idle", NEW pc
  PROVE  LET k == [j EXCEPT !.pc = pc]
         IN JobOK(k) /\ k.pc = pc /\ k.user = j.user /\ k.password = j.password /\ k.late = j.late
<1> DEFINE k == [j EXCEPT !.pc = pc]
<1>1. DOMAIN k = Fields
  BY DEF JobOK
<1>2. k.pc = pc /\ k.user = j.user /\ k.password = j.password /\ k.at = j.at /\ k.late = j.late
  BY DEF JobOK, Fields
<1> HIDE DEF k
<1>3. JobOK(k)
  BY <1>1, <1>2 DEF JobOK
<1> QED BY <1>2, <1>3 DEF k

LEMMA OvertakenJobs ==
  ASSUME JobsOK, NEW u
  PROVE  \A q \in Request :
           /\ JobOK(Overtaken(u)[q]) /\ Overtaken(u)[q].pc = job[q].pc
           /\ Overtaken(u)[q].user = job[q].user /\ Overtaken(u)[q].code = job[q].code
           /\ Overtaken(u)[q].password = job[q].password
           /\ job[q].late \/ (u \in job[q].user /\ job[q].pc \in {"issue", "purge", "reload"})
                => Overtaken(u)[q].late
<1> TAKE q \in Request
<1>1. JobOK(job[q])
  BY DEF JobsOK
<1> DEFINE k == [job[q] EXCEPT !.late = TRUE]
<1>2. /\ JobOK(k) /\ k.late /\ k.pc = job[q].pc /\ k.user = job[q].user /\ k.code = job[q].code
      /\ k.password = job[q].password
  BY <1>1, LateJob
<1>3. Overtaken(u)[q] = IF u \in job[q].user /\ job[q].pc \in {"issue", "purge", "reload"}
                        THEN k ELSE job[q]
  BY DEF Overtaken
<1> HIDE DEF k
<1> QED BY <1>1, <1>2, <1>3

(* Every step but four leaves the bookkeeping of codes alone: of requests  *)
(* that count or redeem, none is new and one may be cut.                   *)
Tallying(r) == job[r].pc \in {"bump", "set"}
SameClaim(q) ==
  /\ job'[q].pc = job[q].pc /\ job'[q].user = job[q].user /\ job'[q].code = job[q].code
  /\ job'[q].password = job[q].password /\ (job[q].late => job'[q].late)
Aside ==
  \/ cuts' >= cuts /\ \A q \in Request : SameClaim(q) \/ (~Tallying(q) /\ ~Tallying(q)')
  \/ /\ cuts' = cuts + 1
     /\ \E r \in Request : ~Tallying(r)' /\ \A q \in Request \ {r} : SameClaim(q)

\* A request that becomes j, beside no change of the others' claims.
Becomes(r, j) ==
  /\ DOMAIN job' = Request /\ job'[r] = j
  /\ \A q \in Request \ {r} : JobOK(job'[q]) /\ SameClaim(q)

LEMMA SetBecomes ==
  ASSUME JobsOK, NEW r \in Request, NEW j, Set(r, j)
  PROVE  Becomes(r, j)
BY Sets DEF JobsOK, Becomes, SameClaim

LEMMA Becoming ==
  ASSUME JobsOK, NEW r \in Request, NEW j, JobOK(j), Becomes(r, j)
  PROVE  JobsOK'
BY DEF JobsOK, Becomes

LEMMA OvertakenBecomes ==
  ASSUME JobsOK, NEW r \in Request, NEW j, NEW u, job' = [Overtaken(u) EXCEPT ![r] = j]
  PROVE  Becomes(r, j)
<1>1. DOMAIN Overtaken(u) = Request
  BY DEF Overtaken
<1>2. DOMAIN job' = Request /\ job'[r] = j /\ \A q \in Request \ {r} : job'[q] = Overtaken(u)[q]
  BY <1>1
<1> QED BY <1>2, OvertakenJobs DEF Becomes, SameClaim

\* A request goes on, or ends, and claims nothing.
Leaves(r) == \E j : JobOK(j) /\ j.pc \notin {"bump", "set"} /\ Becomes(r, j)

LEMMA Ending ==
  ASSUME JobsOK, NEW r \in Request, End(r) PROVE Leaves(r) /\ job'[r].pc = "idle"
BY IdleIsAJob, SetBecomes DEF End, Leaves, Becomes

LEMMA Going ==
  ASSUME JobsOK, NEW r \in Request, job[r].pc # "idle", NEW pc, pc \notin {"bump", "set"}, Goto(r, pc)
  PROVE  /\ Leaves(r) /\ job'[r].pc = pc /\ job'[r].user = job[r].user
         /\ job'[r].password = job[r].password /\ job'[r].late = job[r].late
<1> DEFINE k == [job[r] EXCEPT !.pc = pc]
<1>1. JobOK(k) /\ k.pc = pc /\ k.user = job[r].user /\ k.password = job[r].password /\ k.late = job[r].late
  BY MovedJob DEF JobsOK
<1>2. Set(r, k)
  BY DEF Goto
<1> HIDE DEF k
<1> QED BY <1>1, <1>2, SetBecomes DEF Leaves, Becomes

LEMMA LoggingIn ==
  ASSUME Shape, NEW r \in Request, NEW u \in Member, Login(r, u)
  PROVE  Leaves(r) /\ job'[r].pc = "issue" /\ job'[r].user = {u} /\ job'[r].password = account[u].password
<1> DEFINE k == [Idle EXCEPT !.pc = "issue", !.user = {u}, !.password = account[u].password]
<1>1. DOMAIN k = Fields
  BY DEF Idle, Fields
<1>2. k.pc = "issue" /\ k.user = {u} /\ k.at = Never /\ k.password = account[u].password
  BY DEF Idle
<1>3. JobOK(k)
  BY <1>1, <1>2 DEF JobOK, Never
<1>4. Set(r, k)
  BY DEF Login
<1> HIDE DEF k
<1> QED BY <1>2, <1>3, <1>4, SetBecomes DEF Leaves, Becomes, Shape

LEMMA Ordering ==
  ASSUME Shape, NEW r \in Request, NEW u \in Member, IssueCode(r, u) \/ Revoke(r, u)
  PROVE  Leaves(r) /\ job'[r].pc \in {"store", "kick"}
<1> DEFINE k(pc) == [Idle EXCEPT !.pc = pc, !.user = {u}]
<1>1. ASSUME NEW pc PROVE DOMAIN k(pc) = Fields
  BY DEF Idle, Fields
<1>2. ASSUME NEW pc PROVE k(pc).pc = pc /\ k(pc).user = {u} /\ k(pc).at = Never
  BY DEF Idle
<1>3. PICK pc : pc \in {"store", "kick"} /\ Set(r, k(pc))
  BY DEF IssueCode, Revoke
<1> HIDE DEF k
<1>4. JobOK(k(pc))
  BY <1>1, <1>2 DEF JobOK, Never
<1> QED BY <1>2, <1>3, <1>4, SetBecomes DEF Leaves, Becomes, Shape

LEMMA Authenticating ==
  ASSUME Shape, NEW r \in Request, NEW t \in DOMAIN sessions, Authenticate(r, t)
  PROVE  Leaves(r) /\ job'[r].pc = "slide"
<1> DEFINE k == [Idle EXCEPT !.pc = "slide", !.user = {sessions[t].user}, !.token = t, !.at = now]
<1>1. DOMAIN k = Fields
  BY DEF Idle, Fields
<1>2. k.pc = "slide" /\ k.user = {sessions[t].user} /\ k.at = now
  BY DEF Idle
<1>3. JobOK(k)
  BY <1>1, <1>2 DEF JobOK, Shape, NumbersOK, SessionsOK, SessionOK
<1>4. Set(r, k)
  BY DEF Authenticate
<1> HIDE DEF k
<1> QED BY <1>2, <1>3, <1>4, SetBecomes DEF Leaves, Becomes, Shape

LEMMA Redeeming ==
  ASSUME Shape, NEW r \in Request, NEW u \in Member, NEW c, Redeem(r, u, c)
  PROVE  \E j : /\ JobOK(j) /\ Becomes(r, j) /\ j.user = {u} /\ j.code = c
                /\ j.pc = IF c = account[u].code THEN "set" ELSE "bump"
<1> DEFINE k == [Idle EXCEPT !.pc = IF c = account[u].code THEN "set" ELSE "bump", !.user = {u}, !.code = c]
<1>1. DOMAIN k = Fields
  BY DEF Idle, Fields
<1>2. k.pc = (IF c = account[u].code THEN "set" ELSE "bump") /\ k.user = {u} /\ k.code = c /\ k.at = Never
  BY DEF Idle
<1>3. JobOK(k)
  BY <1>1, <1>2 DEF JobOK, Never
<1>4. Set(r, k)
  BY DEF Redeem
<1> HIDE DEF k
<1> QED BY <1>2, <1>3, <1>4, SetBecomes DEF Shape

LEMMA PasswordSet ==
  ASSUME Shape, NEW r \in Request, SetPasswordAndClearReset(r)
  PROVE  /\ Leaves(r) /\ job'[r].pc = "purge" /\ job'[r].user = job[r].user
         /\ \E u \in job[r].user : job'[r].password = account[u].password + 1
<1>1. PICK u \in job[r].user : Set(r, [job[r] EXCEPT !.pc = "purge", !.code = NoCode,
                                                     !.password = account[u].password + 1])
  BY DEF SetPasswordAndClearReset
<1> DEFINE k == [job[r] EXCEPT !.pc = "purge", !.code = NoCode, !.password = account[u].password + 1]
<1>2. JobOK(job[r]) /\ job[r].pc = "set"
  BY DEF Shape, JobsOK, SetPasswordAndClearReset
<1>3. DOMAIN k = Fields
  BY <1>2 DEF JobOK
<1>4. /\ k.pc = "purge" /\ k.user = job[r].user /\ k.at = job[r].at
      /\ k.password = account[u].password + 1
  BY <1>2 DEF JobOK, Fields
<1>5. JobOK(k)
  BY <1>2, <1>3, <1>4 DEF JobOK
<1>6. Set(r, k)
  BY <1>1
<1> HIDE DEF k
<1> QED BY <1>4, <1>5, <1>6, SetBecomes DEF Leaves, Becomes, Shape

LEMMA SignedOutEverywhere ==
  ASSUME Shape, NEW r \in Request, Purge(r) \/ Kick(r)
  PROVE  /\ Leaves(r)
         /\ \/ job'[r].pc = "idle"
            \/ /\ job'[r].pc = "reload" /\ job'[r].user = job[r].user
               /\ job'[r].password = job[r].password /\ job'[r].late = job[r].late
<1>1. CASE Purge(r)
  <2> DEFINE k == [job[r] EXCEPT !.pc = "reload"]
  <2>1. /\ JobOK(k) /\ k.pc = "reload"
        /\ k.user = job[r].user /\ k.password = job[r].password /\ k.late = job[r].late
    BY <1>1, MovedJob DEF Purge, Shape, JobsOK
  <2>2. \E u : job' = [Overtaken(u) EXCEPT ![r] = k]
    BY <1>1 DEF Purge, DeleteUserSessions
  <2> HIDE DEF k
  <2> QED BY <2>1, <2>2, OvertakenBecomes DEF Leaves, Becomes, Shape
<1>2. CASE Kick(r)
  <2>1. \E u : job' = [Overtaken(u) EXCEPT ![r] = Idle]
    BY <1>2 DEF Kick, DeleteUserSessions
  <2> QED BY <2>1, IdleIsAJob, OvertakenBecomes DEF Leaves, Becomes, Shape
<1> QED BY <1>1, <1>2

LEMMA Extending ==
  ASSUME Shape, NEW r \in Request, ExtendSession(r)
  PROVE  Leaves(r) /\ job'[r].pc \in {"idle", "logout"}
<1>1. End(r) \/ Set(r, [job[r] EXCEPT !.pc = "logout", !.at = Never])
  BY DEF ExtendSession
<1>2. CASE Set(r, [job[r] EXCEPT !.pc = "logout", !.at = Never])
  <2> DEFINE k == [job[r] EXCEPT !.pc = "logout", !.at = Never]
  <2>1. JobOK(job[r]) /\ job[r].pc = "slide"
    BY DEF Shape, JobsOK, ExtendSession
  <2>2. DOMAIN k = Fields
    BY <2>1 DEF JobOK
  <2>3. k.pc = "logout" /\ k.user = job[r].user /\ k.at = Never
    BY <2>1 DEF JobOK, Fields
  <2>4. JobOK(k)
    BY <2>1, <2>2, <2>3 DEF JobOK, Never
  <2>5. Set(r, k)
    BY <1>2
  <2> HIDE DEF k
  <2> QED BY <2>3, <2>4, <2>5, SetBecomes DEF Leaves, Becomes, Shape
<1> QED BY <1>1, <1>2, Ending DEF Shape

LEMMA BeingCut ==
  ASSUME Shape, NEW r \in Request, Cut(r) PROVE Leaves(r) /\ job'[r].pc = "idle"
<1>1. End(r) \/ \E u : job' = [Overtaken(u) EXCEPT ![r] = Idle]
  BY DEF Cut
<1> QED BY <1>1, Ending, IdleIsAJob, OvertakenBecomes DEF Leaves, Becomes, Shape

----------------------------------------------------------------------------
(* Rows of the users table.                                                *)
LEMMA IssuedRow ==
  ASSUME NEW a, DOMAIN a = Columns
  PROVE  /\ DOMAIN Issued(a) = Columns /\ Issued(a).code = codes + 1 /\ Issued(a).attempts = 0
         /\ Issued(a).password = a.password
<1>1. PICK v : v = Issued(a)
  OBVIOUS
<1>2. DOMAIN v = Columns
  BY <1>1 DEF Issued
<1>3. v.code = codes + 1 /\ v.attempts = 0 /\ v.password = a.password
  BY <1>1 DEF Issued, Columns
<1> QED BY <1>1, <1>2, <1>3

LEMMA BumpedRow ==
  ASSUME NEW a, DOMAIN a = Columns
  PROVE  /\ DOMAIN Bumped(a) = Columns /\ Bumped(a).attempts = a.attempts + 1
         /\ Bumped(a).code = IF a.attempts + 1 >= MaxAttempts THEN NoCode ELSE a.code
         /\ Bumped(a).password = a.password
<1>1. PICK v : v = Bumped(a)
  OBVIOUS
<1>2. DOMAIN v = Columns
  BY <1>1 DEF Bumped
<1>3. v.attempts = a.attempts + 1 /\ v.password = a.password
  BY <1>1 DEF Bumped, Columns
<1>4. v.code = IF a.attempts + 1 >= MaxAttempts THEN NoCode ELSE a.code
  BY <1>1 DEF Bumped, Columns
<1> QED BY <1>1, <1>2, <1>3, <1>4

LEMMA ResetRow ==
  ASSUME NEW a, DOMAIN a = Columns
  PROVE  /\ DOMAIN Reset(a) = Columns /\ Reset(a).attempts = a.attempts /\ Reset(a).code = NoCode
         /\ Reset(a).password = a.password + 1
<1>1. PICK v : v = Reset(a)
  OBVIOUS
<1>2. DOMAIN v = Columns
  BY <1>1 DEF Reset, Cleared
<1>3. v.attempts = a.attempts /\ v.code = NoCode /\ v.password = a.password + 1
  BY <1>1 DEF Reset, Cleared, Columns
<1> QED BY <1>1, <1>2, <1>3

LEMMA RevokedRow ==
  ASSUME NEW a, DOMAIN a = Columns
  PROVE  LET b == [a EXCEPT !.active = FALSE]
         IN /\ DOMAIN b = Columns /\ b.attempts = a.attempts /\ b.code = a.code
            /\ b.password = a.password
BY DEF Columns

\* Nothing happens to the row of v.
SameRow(v) == account'[v] = account[v]
Rows(u, a) == DOMAIN account' = Member /\ account'[u] = a /\ \A v \in Member \ {u} : SameRow(v)

LEMMA RowSet ==
  ASSUME AccountsOK, NEW u \in Member, NEW a, account' = [account EXCEPT ![u] = a]
  PROVE  Rows(u, a)
BY DEF AccountsOK, Rows, SameRow

(* The four steps codes are about, as they look from the columns.          *)
LEMMA Issuing ==
  ASSUME Shape, NEW r \in Request, SetResetCode(r)
  PROVE  \E u \in Member : Rows(u, Issued(account[u]))
<1>1. PICK u \in job[r].user : account' = [account EXCEPT ![u] = Issued(account[u])]
  BY DEF SetResetCode
<1>2. u \in Member
  BY DEF Shape, JobsOK, JobOK
<1> QED BY <1>1, <1>2, RowSet DEF Shape

LEMMA Bumping ==
  ASSUME Shape, NEW r \in Request, BumpResetAttempt(r)
  PROVE  \E u \in Member : u \in job[r].user /\ Rows(u, Bumped(account[u]))
<1>1. PICK u \in job[r].user : account' = [account EXCEPT ![u] = Bumped(account[u])]
  BY DEF BumpResetAttempt
<1>2. u \in Member
  BY DEF Shape, JobsOK, JobOK
<1> QED BY <1>1, <1>2, RowSet DEF Shape

LEMMA Resetting ==
  ASSUME Shape, NEW r \in Request, SetPasswordAndClearReset(r)
  PROVE  \E u \in Member : u \in job[r].user /\ Rows(u, Reset(account[u]))
<1>1. PICK u \in job[r].user : account' = [account EXCEPT ![u] = Reset(account[u])]
  BY DEF SetPasswordAndClearReset
<1>2. u \in Member
  BY DEF Shape, JobsOK, JobOK
<1> QED BY <1>1, <1>2, RowSet DEF Shape

(* And every other one.                                                    *)
SameCodes ==
  \A u \in Member :
    /\ account'[u].code = account[u].code /\ account'[u].attempts = account[u].attempts
    /\ account'[u].password = account[u].password
Beside == UNCHANGED <<codes, guesses, redeemed>> /\ SameCodes /\ Aside
Other == JobsOK' /\ AccountsOK' /\ Beside

LEMMA LeavesAside ==
  ASSUME Shape, NEW r \in Request, Leaves(r),
         (~Tallying(r) /\ cuts' >= cuts) \/ cuts' = cuts + 1
  PROVE  Aside
<1>1. PICK j : JobOK(j) /\ j.pc \notin {"bump", "set"} /\ Becomes(r, j)
  BY DEF Leaves
<1>2. ~Tallying(r)' /\ \A q \in Request \ {r} : SameClaim(q)
  BY <1>1 DEF Becomes, Tallying
<1> QED BY <1>2 DEF Aside

LEMMA LeavesJobs ==
  ASSUME Shape, NEW r \in Request, Leaves(r)
  PROVE  JobsOK'
BY Becoming DEF Shape, Leaves

LEMMA SameAccounts ==
  ASSUME Shape, UNCHANGED account
  PROVE  AccountsOK' /\ SameCodes
BY DEF Shape, AccountsOK, SameCodes

LEMMA OtherSteps ==
  ASSUME Shape, Next
  PROVE  \/ Other
         \/ \E r \in Request : SetResetCode(r) \/ BumpResetAttempt(r) \/ SetPasswordAndClearReset(r)
         \/ \E r \in Request, u \in Member : \E c \in {NoCode} \cup 1..codes : Redeem(r, u, c)
<1> USE DEF history
<1>1. ASSUME NEW r \in Request, CreateSession(r) \/ Logout(r) \/ Reload(r) PROVE Other
  <2>1. Leaves(r)
    BY <1>1, Ending, Going DEF CreateSession, Logout, Reload, Shape
  <2>2. ~Tallying(r) /\ cuts' = cuts /\ UNCHANGED <<account, codes, guesses, redeemed>>
    BY <1>1 DEF CreateSession, Logout, Reload, Tallying
  <2> QED BY <2>1, <2>2, LeavesAside, LeavesJobs, SameAccounts DEF Other, Beside, Shape, NumbersOK
<1>2. ASSUME NEW r \in Request, Purge(r) \/ Kick(r) \/ ExtendSession(r) PROVE Other
  <2>1. Leaves(r)
    BY <1>2, SignedOutEverywhere, Extending
  <2>2. ~Tallying(r) /\ UNCHANGED <<account, codes, guesses, redeemed>>
    BY <1>2 DEF Purge, Kick, ExtendSession, Tallying
  <2>3. cuts' = cuts \/ cuts' = cuts + 1
    BY <1>2 DEF Purge, Kick, ExtendSession, Missed
  <2> QED BY <2>1, <2>2, <2>3, LeavesAside, LeavesJobs, SameAccounts DEF Other, Beside, Shape, NumbersOK
<1>3. ASSUME NEW r \in Request, Cut(r) PROVE Other
  <2>1. Leaves(r)
    BY <1>3, BeingCut
  <2>2. cuts' = cuts + 1 /\ UNCHANGED <<account, codes, guesses, redeemed>>
    BY <1>3 DEF Cut, Missed
  <2> QED BY <2>1, <2>2, LeavesAside, LeavesJobs, SameAccounts DEF Other, Beside
<1>4. ASSUME NEW r \in Request, NEW u \in Member, Login(r, u) \/ IssueCode(r, u) PROVE Other
  <2>1. Leaves(r)
    BY <1>4, LoggingIn, Ordering
  <2>2. ~Tallying(r) /\ cuts' = cuts /\ UNCHANGED <<account, codes, guesses, redeemed>>
    BY <1>4 DEF Login, IssueCode, Tallying
  <2> QED BY <2>1, <2>2, LeavesAside, LeavesJobs, SameAccounts DEF Other, Beside, Shape, NumbersOK
<1>5. ASSUME NEW r \in Request, NEW u \in Member, Revoke(r, u) PROVE Other
  <2>1. Leaves(r)
    BY <1>5, Ordering
  <2>2. ~Tallying(r) /\ cuts' = cuts /\ UNCHANGED <<codes, guesses, redeemed>>
    BY <1>5 DEF Revoke, Tallying
  <2>3. DOMAIN account[u] = Columns
    BY DEF Shape, AccountsOK
  <2> DEFINE a == [account[u] EXCEPT !.active = FALSE]
  <2>4. /\ DOMAIN a = Columns /\ a.attempts = account[u].attempts /\ a.code = account[u].code
        /\ a.password = account[u].password
    BY <2>3, RevokedRow
  <2>5. account' = [account EXCEPT ![u] = a]
    BY <1>5 DEF Revoke
  <2> HIDE DEF a
  <2>6. Rows(u, a)
    BY <2>5, RowSet DEF Shape
  <2>7. AccountsOK' /\ SameCodes
    BY <2>4, <2>6 DEF Rows, SameRow, SameCodes, Shape, AccountsOK
  <2> QED BY <2>1, <2>2, <2>7, LeavesAside, LeavesJobs DEF Other, Beside, Shape, NumbersOK
<1>6. ASSUME NEW r \in Request, NEW t \in DOMAIN sessions, Authenticate(r, t) PROVE Other
  <2>1. Leaves(r)
    BY <1>6, Authenticating
  <2>2. ~Tallying(r) /\ cuts' = cuts /\ UNCHANGED <<account, codes, guesses, redeemed>>
    BY <1>6 DEF Authenticate, Tallying
  <2> QED BY <2>1, <2>2, LeavesAside, LeavesJobs, SameAccounts DEF Other, Beside, Shape, NumbersOK
<1>7. ASSUME Cleanup \/ Pass PROVE Other
  <2>1. UNCHANGED <<account, codes, guesses, redeemed, job, cuts>>
    BY <1>7 DEF Cleanup, Pass
  <2>2. JobsOK' /\ Aside
    BY <2>1 DEF JobsOK, JobOK, Shape, Aside, SameClaim, NumbersOK
  <2> QED BY <2>1, <2>2, SameAccounts DEF Other, Beside
<1> QED BY <1>1, <1>2, <1>3, <1>4, <1>5, <1>6, <1>7 DEF Next, Step

----------------------------------------------------------------------------
(* Sessions: what a step does to each one there is.                        *)

\* No session of before changed, but for a slide within its cap.
Slides(s, q) ==
  /\ q.created = s.created
  /\ q.expires = s.expires \/ (q.expires > s.expires /\ q.expires <= s.created + MaxAge)

LEMMA KeptSession ==
  ASSUME NEW s, SessionOK(s)
  PROVE  LET q == [s EXCEPT !.kept = TRUE] IN SessionOK(q) /\ Slides(s, q)
BY DEF SessionOK, SessionColumns, Slides

LEMMA SlidSession ==
  ASSUME NEW s, SessionOK(s), NEW m \in Int
  PROVE  LET q == [s EXCEPT !.expires = Slid(s, m)] IN SessionOK(q) /\ Slides(s, q)
<1> DEFINE e == Slid(s, m)
           q == [s EXCEPT !.expires = e]
<1>1. e \in Int /\ (e = s.expires \/ (e > s.expires /\ e <= s.created + MaxAge))
  BY ConstantsAssumption DEF SessionOK, Slid, Earlier
<1> HIDE DEF e
<1>2. DOMAIN q = SessionColumns
  BY DEF SessionOK
<1>3. q.expires = e /\ q.user = s.user /\ q.created = s.created
  BY DEF SessionOK, SessionColumns
<1>4. SessionOK(q) /\ Slides(s, q)
  BY <1>1, <1>2, <1>3 DEF SessionOK, Slides
<1> QED BY <1>4 DEF e

LEMMA SessionIsItself == ASSUME NEW s PROVE Slides(s, s)
BY DEF Slides

\* Sessions end or slide, and are not made.
Passing ==
  /\ tokens' = tokens /\ DOMAIN sessions' \subseteq DOMAIN sessions
  /\ \A t \in DOMAIN sessions' : SessionOK(sessions'[t]) /\ Slides(sessions[t], sessions'[t])
Making ==
  LET t == tokens + 1 IN
  /\ tokens' = t /\ DOMAIN sessions' = DOMAIN sessions \cup {t}
  /\ SessionOK(sessions'[t]) /\ \A s \in DOMAIN sessions : sessions'[s] = sessions[s] \/ s = t

LEMMA Restricted ==
  ASSUME SessionsOK, NEW T, T \subseteq DOMAIN sessions, tokens' = tokens,
         sessions' = [t \in T |-> sessions[t]]
  PROVE  Passing
BY SessionIsItself DEF SessionsOK, Passing

LEMMA Missing ==
  ASSUME SessionsOK, NEW r, Missed(r), tokens' = tokens PROVE Passing
<1>1. PICK u : sessions' = [t \in DOMAIN sessions |->
                  IF t \in TokensOf(u) THEN [sessions[t] EXCEPT !.kept = TRUE] ELSE sessions[t]]
  BY DEF Missed
<1>2. DOMAIN sessions' = DOMAIN sessions
  BY <1>1
<1>3. ASSUME NEW t \in DOMAIN sessions PROVE SessionOK(sessions'[t]) /\ Slides(sessions[t], sessions'[t])
  <2> DEFINE q == [sessions[t] EXCEPT !.kept = TRUE]
  <2>1. SessionOK(sessions[t])
    BY DEF SessionsOK
  <2>2. SessionOK(q) /\ Slides(sessions[t], q)
    BY <2>1, KeptSession
  <2>3. sessions'[t] = q \/ sessions'[t] = sessions[t]
    BY <1>1
  <2> HIDE DEF q
  <2> QED BY <2>1, <2>2, <2>3, SessionIsItself
<1> QED BY <1>2, <1>3 DEF Passing

LEMMA SessionSteps ==
  ASSUME Shape, Next
  PROVE  Passing \/ Making
<1>1. ASSUME UNCHANGED <<sessions, tokens>> PROVE Passing
  BY <1>1, SessionIsItself DEF Passing, Shape, SessionsOK
<1>2. ASSUME NEW r \in Request, CreateSession(r) PROVE Making
  <2> DEFINE n == tokens + 1
  <2>1. PICK u \in job[r].user :
          sessions' = [s \in DOMAIN sessions \cup {n} |->
                         IF s = n
                         THEN [user |-> u, expires |-> now + TTL, created |-> now,
                               password |-> job[r].password, late |-> job[r].late, kept |-> FALSE]
                         ELSE sessions[s]]
    BY <1>2 DEF CreateSession
  <2>2. u \in Member /\ now \in Int /\ now + TTL \in Int
    BY ConstantsAssumption DEF Shape, JobsOK, JobOK, NumbersOK
  <2>3. sessions'[n] = [user |-> u, expires |-> now + TTL, created |-> now,
                        password |-> job[r].password, late |-> job[r].late, kept |-> FALSE]
    BY <2>1
  <2>4. SessionOK(sessions'[n])
    BY <2>2, <2>3 DEF SessionOK, SessionColumns
  <2> QED BY <1>2, <2>1, <2>4 DEF CreateSession, Making
<1>3. ASSUME NEW r \in Request, Kick(r) \/ Purge(r) \/ Cut(r) PROVE Passing
  <2>1. tokens' = tokens
    BY <1>3 DEF Kick, Purge, Cut
  <2>2. \/ \E u : sessions' = [t \in DOMAIN sessions \ SignedOut(u) |-> sessions[t]]
        \/ Missed(r) \/ UNCHANGED sessions
    BY <1>3 DEF Kick, Purge, Cut, DeleteUserSessions
  <2>3. ASSUME NEW u, sessions' = [t \in DOMAIN sessions \ SignedOut(u) |-> sessions[t]] PROVE Passing
    <3> DEFINE T == DOMAIN sessions \ SignedOut(u)
    <3>1. T \subseteq DOMAIN sessions /\ sessions' = [t \in T |-> sessions[t]]
      BY <2>3
    <3> HIDE DEF T
    <3> QED BY <2>1, <3>1, Restricted DEF Shape
  <2> QED BY <1>1, <2>1, <2>2, <2>3, Missing DEF Shape
<1>4. ASSUME NEW r \in Request, ExtendSession(r) PROVE Passing
  <2>1. \/ UNCHANGED sessions
        \/ /\ job[r].token \in DOMAIN sessions
           /\ sessions' = [sessions EXCEPT ![job[r].token].expires = Slid(sessions[job[r].token], job[r].at)]
    BY <1>4 DEF ExtendSession, Unexpired
  <2>2. tokens' = tokens
    BY <1>4 DEF ExtendSession
  <2>3. ASSUME NEW t \in DOMAIN sessions,
               sessions' = [sessions EXCEPT ![t].expires = Slid(sessions[t], job[r].at)]
        PROVE  Passing
    <3> DEFINE q == [sessions[t] EXCEPT !.expires = Slid(sessions[t], job[r].at)]
    <3>1. SessionOK(q) /\ Slides(sessions[t], q)
      BY SlidSession DEF Shape, SessionsOK, JobsOK, JobOK
    <3>2. sessions' = [sessions EXCEPT ![t] = q]
      BY <2>3
    <3> HIDE DEF q
    <3> QED BY <2>2, <3>1, <3>2, SessionIsItself DEF Passing, Shape, SessionsOK
  <2> QED BY <1>1, <2>1, <2>2, <2>3
<1>5. ASSUME NEW r \in Request, Logout(r) PROVE Passing
  <2>1. sessions' = [t \in DOMAIN sessions \ {job[r].token} |-> sessions[t]] /\ tokens' = tokens
    BY <1>5 DEF Logout
  <2> DEFINE T == DOMAIN sessions \ {job[r].token}
  <2>2. T \subseteq DOMAIN sessions /\ sessions' = [t \in T |-> sessions[t]]
    BY <2>1
  <2> HIDE DEF T
  <2> QED BY <2>1, <2>2, Restricted DEF Shape
<1>6. ASSUME Cleanup PROVE Passing
  <2> DEFINE T == {s \in DOMAIN sessions : ~Stale(sessions[s])}
  <2>1. T \subseteq DOMAIN sessions /\ sessions' = [t \in T |-> sessions[t]] /\ tokens' = tokens
    BY <1>6 DEF Cleanup
  <2> HIDE DEF T
  <2> QED BY <2>1, Restricted DEF Shape
<1> QED
  BY <1>1, <1>2, <1>3, <1>4, <1>5, <1>6 DEF Next, Step, SetResetCode, BumpResetAttempt,
     SetPasswordAndClearReset, Reload, Login, IssueCode, Revoke, Redeem, Authenticate, Pass

LEMMA SessionsStay == ASSUME Shape, Passing \/ Making PROVE SessionsOK'
<1>1. CASE Passing
  BY <1>1 DEF Shape, SessionsOK, Passing
<1>2. CASE Making
  <2>1. tokens + 1 \in 1..tokens' /\ 1..tokens \subseteq 1..tokens'
    BY <1>2 DEF Making, Shape, NumbersOK
  <2>2. DOMAIN sessions' \subseteq 1..tokens'
    BY <1>2, <2>1 DEF Making, Shape, SessionsOK
  <2>3. ASSUME NEW t \in DOMAIN sessions' PROVE SessionOK(sessions'[t])
    BY <1>2 DEF Making, Shape, SessionsOK
  <2> QED BY <2>2, <2>3 DEF SessionsOK
<1> QED BY <1>1, <1>2

----------------------------------------------------------------------------
(* The shape is kept.                                                      *)
LEMMA NumbersStay == ASSUME Shape, Next PROVE NumbersOK'
<1> USE DEF Shape
<1>1. ASSUME NEW r \in Request, CreateSession(r) \/ SetResetCode(r) PROVE NumbersOK'
  BY <1>1 DEF CreateSession, SetResetCode, NumbersOK
<1>2. ASSUME NEW r \in Request, BumpResetAttempt(r) \/ SetPasswordAndClearReset(r) \/ Reload(r) \/ Kick(r) \/ Logout(r)
      PROVE  NumbersOK'
  BY <1>2 DEF BumpResetAttempt, SetPasswordAndClearReset, Reload, Kick, Logout, NumbersOK
<1>3. ASSUME NEW r \in Request, Purge(r) \/ ExtendSession(r) \/ Cut(r) PROVE NumbersOK'
  <2>1. UNCHANGED <<now, tokens, codes>> /\ (cuts' = cuts \/ cuts' = cuts + 1)
    BY <1>3 DEF Purge, Missed, ExtendSession, Cut
  <2> QED BY <2>1 DEF NumbersOK
<1>4. ASSUME NEW r \in Request, NEW u \in Member, Login(r, u) \/ IssueCode(r, u) \/ Revoke(r, u)
      PROVE  NumbersOK'
  BY <1>4 DEF Login, IssueCode, Revoke, NumbersOK
<1>5. ASSUME NEW r \in Request, NEW u \in Member, NEW c, Redeem(r, u, c) PROVE NumbersOK'
  BY <1>5 DEF Redeem, NumbersOK
<1>6. ASSUME NEW r \in Request, NEW t, Authenticate(r, t) PROVE NumbersOK'
  BY <1>6 DEF Authenticate, NumbersOK
<1>7. ASSUME Cleanup \/ Pass PROVE NumbersOK'
  BY <1>7 DEF Cleanup, Pass, NumbersOK
<1> QED BY <1>1, <1>2, <1>3, <1>4, <1>5, <1>6, <1>7 DEF Next, Step

LEMMA ShapeInit == Init => Shape
<1> SUFFICES ASSUME Init PROVE Shape
  OBVIOUS
<1>1. NumbersOK /\ SessionsOK
  BY DEF Init, NumbersOK, SessionsOK
<1>2. AccountsOK
  BY DEF Init, AccountsOK, Columns
<1>3. JobsOK
  BY IdleIsAJob DEF Init, JobsOK
<1> QED BY <1>1, <1>2, <1>3 DEF Shape

LEMMA ShapeStep == ASSUME Shape, Next PROVE Shape'
<1>1. NumbersOK' /\ SessionsOK'
  BY NumbersStay, SessionSteps, SessionsStay
<1>2. ASSUME NEW r \in Request, SetResetCode(r) PROVE JobsOK' /\ AccountsOK'
  <2>1. JobsOK'
    BY <1>2, Ending, LeavesJobs DEF SetResetCode, Shape
  <2>2. PICK u \in Member : Rows(u, Issued(account[u]))
    BY <1>2, Issuing
  <2>3. /\ DOMAIN Issued(account[u]) = Columns /\ Issued(account[u]).attempts \in Nat
        /\ Issued(account[u]).password \in Nat
    BY IssuedRow DEF Shape, AccountsOK
  <2> QED BY <2>1, <2>2, <2>3 DEF Rows, SameRow, AccountsOK, Shape
<1>3. ASSUME NEW r \in Request, BumpResetAttempt(r) PROVE JobsOK' /\ AccountsOK'
  <2>1. JobsOK'
    BY <1>3, Ending, LeavesJobs DEF BumpResetAttempt, Shape
  <2>2. PICK u \in Member : Rows(u, Bumped(account[u]))
    BY <1>3, Bumping
  <2>3. /\ DOMAIN Bumped(account[u]) = Columns /\ Bumped(account[u]).attempts \in Nat
        /\ Bumped(account[u]).password \in Nat
    BY BumpedRow DEF Shape, AccountsOK
  <2> QED BY <2>1, <2>2, <2>3 DEF Rows, SameRow, AccountsOK, Shape
<1>4. ASSUME NEW r \in Request, SetPasswordAndClearReset(r) PROVE JobsOK' /\ AccountsOK'
  <2>1. JobsOK'
    BY <1>4, PasswordSet, LeavesJobs
  <2>2. PICK u \in Member : Rows(u, Reset(account[u]))
    BY <1>4, Resetting
  <2>3. /\ DOMAIN Reset(account[u]) = Columns /\ Reset(account[u]).attempts \in Nat
        /\ Reset(account[u]).password \in Nat
    BY ResetRow DEF Shape, AccountsOK
  <2> QED BY <2>1, <2>2, <2>3 DEF Rows, SameRow, AccountsOK, Shape
<1>5. ASSUME NEW r \in Request, NEW u \in Member, NEW c, Redeem(r, u, c) PROVE JobsOK' /\ AccountsOK'
  <2>1. JobsOK'
    BY <1>5, Redeeming, Becoming DEF Shape
  <2>2. UNCHANGED account
    BY <1>5 DEF Redeem
  <2> QED BY <2>1, <2>2, SameAccounts
<1> QED BY <1>1, <1>2, <1>3, <1>4, <1>5, OtherSteps DEF Other, Shape

(* ExtendSession never shortens a session nor takes it past its cap.       *)
THEOREM SessionsSlideForwardToTheCap == Spec => SlidesForwardToTheCap
<1> DEFINE Slide == \A t \in DOMAIN sessions : t \in DOMAIN sessions' =>
                      /\ sessions'[t].expires >= sessions[t].expires
                      /\ sessions'[t].expires > sessions[t].expires =>
                           sessions'[t].expires <= sessions[t].created + MaxAge
<1>1. Shape /\ [Next]_vars => Shape'
  <2>1. ASSUME Shape, UNCHANGED vars PROVE Shape'
    BY <2>1 DEF vars, Shape, NumbersOK, AccountsOK, JobsOK, JobOK, SessionsOK, SessionOK
  <2> QED BY <2>1, ShapeStep
<1>2. ASSUME Shape, Next PROVE Slide
  <2>1. ASSUME NEW t \in DOMAIN sessions, t \in DOMAIN sessions'
        PROVE  Slides(sessions[t], sessions'[t]) /\ sessions[t].expires \in Int /\ sessions'[t].expires \in Int
    <3>1. t # tokens + 1
      BY <1>2 DEF Shape, SessionsOK, NumbersOK
    <3>2. Slides(sessions[t], sessions'[t])
      BY <1>2, <2>1, <3>1, SessionSteps, SessionIsItself DEF Passing, Making
    <3> QED BY <1>2, <2>1, <3>2, ShapeStep DEF Shape, SessionsOK, SessionOK
  <2> QED BY <2>1 DEF Slides
<1>3. Shape /\ [Next]_vars => [Slide]_vars
  BY <1>2
<1> QED BY <1>1, <1>3, ShapeInit, PTL DEF Spec, SlidesForwardToTheCap

----------------------------------------------------------------------------
(* A session that was used is good for as long as its last use promised.   *)
Promised ==
  /\ good \in [Token -> Int]
  /\ \A t \in Token : good[t] > now => t \in DOMAIN sessions /\ sessions[t].expires >= good[t]

\* The sessions that go are promised nothing any more, the others no more.
Unpromising ==
  \A t \in Token : good'[t] = 0 \/ (good'[t] = good[t] /\ (t \in DOMAIN sessions => t \in DOMAIN sessions'))

LEMMA Unpromise ==
  ASSUME Shape, Promised, NEW T, good' = Unpromised(T), DOMAIN sessions' = DOMAIN sessions \ T
  PROVE  good' \in [Token -> Int] /\ Unpromising
BY DEF Unpromised, Unpromising, Promised

LEMMA PromiseKept ==
  ASSUME Shape, Promised, Passing \/ Making, now' = now, good' \in [Token -> Int], Unpromising
  PROVE  Promised'
<1>1. SUFFICES ASSUME NEW t \in Token, good'[t] > now
               PROVE  t \in DOMAIN sessions' /\ sessions'[t].expires >= good'[t]
  BY DEF Promised
<1>2. good'[t] = good[t] /\ t \in DOMAIN sessions /\ t \in DOMAIN sessions' /\ sessions[t].expires >= good[t]
  BY <1>1 DEF Unpromising, Promised, Shape, NumbersOK
<1>3. SessionOK(sessions[t]) /\ t # tokens + 1
  BY <1>2 DEF Shape, SessionsOK, NumbersOK
<1>4. Slides(sessions[t], sessions'[t]) /\ sessions'[t].expires \in Int
  BY <1>2, <1>3, SessionIsItself DEF Passing, Making, SessionOK
<1> QED BY <1>2, <1>3, <1>4 DEF Slides, SessionOK, Promised

LEMMA PromisedByUse ==
  ASSUME NEW s, SessionOK(s), NEW m \in Int
  PROVE  GoodUntil(s, m) \in Int /\ Slid(s, m) >= GoodUntil(s, m) /\ Slid(s, m) >= s.expires
BY ConstantsAssumption DEF SessionOK, GoodUntil, Slid, Earlier

LEMMA PromisedStep == ASSUME Shape, Promised, Next PROVE Promised'
<1>0. Passing \/ Making
  BY SessionSteps
<1>1. ASSUME now' = now, good' = good, DOMAIN sessions \subseteq DOMAIN sessions' PROVE Promised'
  <2>1. good' \in [Token -> Int] /\ Unpromising
    BY <1>1 DEF Promised, Unpromising
  <2> QED BY <1>0, <1>1, <2>1, PromiseKept
<1>2. ASSUME NEW r \in Request, CreateSession(r) PROVE Promised'
  BY <1>1, <1>2 DEF CreateSession
<1>3. ASSUME NEW r \in Request, NEW u, sessions' = [t \in DOMAIN sessions \ SignedOut(u) |-> sessions[t]],
             good' = Unpromised(SignedOut(u)), now' = now
      PROVE  Promised'
  BY <1>0, <1>3, Unpromise, PromiseKept
<1>4. ASSUME NEW r \in Request, Missed(r), good' = good, now' = now PROVE Promised'
  BY <1>1, <1>4 DEF Missed
<1>5. ASSUME NEW r \in Request, Purge(r) \/ Kick(r) \/ Cut(r) PROVE Promised'
  <2>1. \/ \E u : sessions' = [t \in DOMAIN sessions \ SignedOut(u) |-> sessions[t]] /\ good' = Unpromised(SignedOut(u))
        \/ Missed(r) /\ good' = good
        \/ UNCHANGED <<sessions, good>>
    BY <1>5 DEF Purge, Kick, Cut, DeleteUserSessions
  <2>2. now' = now
    BY <1>5 DEF Purge, Kick, Cut
  <2> QED BY <1>1, <1>3, <1>4, <2>1, <2>2
<1>6. ASSUME NEW r \in Request, Logout(r) PROVE Promised'
  <2> DEFINE T == {job[r].token}
  <2>1. good' = Unpromised(T) /\ DOMAIN sessions' = DOMAIN sessions \ T /\ now' = now
    BY <1>6 DEF Logout
  <2> HIDE DEF T
  <2> QED BY <1>0, <2>1, Unpromise, PromiseKept
<1>7. ASSUME NEW r \in Request, ExtendSession(r) PROVE Promised'
  <2>1. CASE UNCHANGED <<sessions, good>>
    BY <1>1, <1>7, <2>1 DEF ExtendSession
  <2>2. CASE ~UNCHANGED <<sessions, good>>
    <3> DEFINE t == job[r].token
               m == job[r].at
    <3>1. /\ t \in DOMAIN sessions /\ now' = now
          /\ sessions' = [sessions EXCEPT ![t].expires = Slid(sessions[t], m)]
          /\ good' = [good EXCEPT ![t] = Later(@, GoodUntil(sessions[t], m))]
      BY <1>7, <2>2 DEF ExtendSession, Unexpired
    <3>2. SessionOK(sessions[t]) /\ m \in Int
      BY <3>1 DEF Shape, SessionsOK, JobsOK, JobOK
    <3> HIDE DEF t, m
    <3>3. sessions'[t].expires = Slid(sessions[t], m) /\ DOMAIN sessions' = DOMAIN sessions
          /\ \A s \in DOMAIN sessions \ {t} : sessions'[s] = sessions[s]
      BY <3>1, <3>2 DEF SessionOK, SessionColumns
    <3>4. good' \in [Token -> Int] /\ (t \in Token => good'[t] = Later(good[t], GoodUntil(sessions[t], m)))
          /\ \A s \in Token \ {t} : good'[s] = good[s]
      BY <3>1, <3>2, PromisedByUse DEF Promised, Later
    <3>5. ASSUME NEW s \in Token, good'[s] > now
          PROVE  s \in DOMAIN sessions' /\ sessions'[s].expires >= good'[s]
      <4>1. CASE s # t
        BY <3>3, <3>4, <3>5, <4>1 DEF Promised
      <4>2. CASE s = t
        <5>1. good[t] \in Int /\ GoodUntil(sessions[t], m) \in Int
          BY <3>2, <3>5, <4>2, PromisedByUse DEF Promised
        <5>2. Slid(sessions[t], m) >= GoodUntil(sessions[t], m) /\ Slid(sessions[t], m) >= sessions[t].expires
              /\ sessions[t].expires \in Int /\ Slid(sessions[t], m) \in Int
          BY <3>2, PromisedByUse, ConstantsAssumption DEF SessionOK, Slid, Earlier
        <5>3. CASE good'[t] = GoodUntil(sessions[t], m)
          BY <3>1, <3>3, <4>2, <5>2, <5>3
        <5>4. CASE good'[t] = good[t]
          BY <3>1, <3>3, <3>5, <4>2, <5>1, <5>2, <5>4 DEF Promised
        <5> QED BY <3>4, <3>5, <4>2, <5>3, <5>4 DEF Later
      <4> QED BY <4>1, <4>2
    <3> QED BY <3>1, <3>4, <3>5 DEF Promised
  <2> QED BY <2>1, <2>2
<1>8. ASSUME Cleanup PROVE Promised'
  <2>1. /\ now' = now /\ good' = good
        /\ sessions' = [t \in {s \in DOMAIN sessions : ~Stale(sessions[s])} |-> sessions[t]]
    BY <1>8 DEF Cleanup, history
  <2>2. ASSUME NEW t \in Token, good[t] > now
        PROVE  t \in DOMAIN sessions' /\ sessions'[t].expires >= good[t]
    <3>1. t \in DOMAIN sessions /\ sessions[t].expires >= good[t] /\ good[t] \in Int /\ now \in Int
      BY <2>2 DEF Promised, Shape, NumbersOK
    <3>2. sessions[t].expires \in Int
      BY <3>1 DEF Shape, SessionsOK, SessionOK
    <3>3. ~Stale(sessions[t])
      BY <2>2, <3>1, <3>2 DEF Stale
    <3> QED BY <2>1, <3>1, <3>3
  <2> QED BY <2>1, <2>2 DEF Promised
<1>9. ASSUME Pass PROVE Promised'
  <2>1. /\ now' = now + 1 /\ sessions' = sessions
        /\ good' = [t \in Token |-> IF good[t] > now' THEN good[t] ELSE 0]
    BY <1>9 DEF Pass
  <2>2. good' \in [Token -> Int]
    BY <2>1 DEF Promised
  <2>3. ASSUME NEW t \in Token, good'[t] > now'
        PROVE  t \in DOMAIN sessions' /\ sessions'[t].expires >= good'[t]
    BY <2>1, <2>3 DEF Promised, Shape, NumbersOK
  <2> QED BY <2>2, <2>3 DEF Promised
<1>10. ASSUME UNCHANGED <<now, sessions, good>> PROVE Promised'
  BY <1>1, <1>10
<1> QED
  BY <1>2, <1>5, <1>6, <1>7, <1>8, <1>9, <1>10 DEF Next, Step, SetResetCode, BumpResetAttempt,
     SetPasswordAndClearReset, Reload, Login, IssueCode, Revoke, Redeem, Authenticate, history

(* A used session is never lost while its last use keeps it.               *)
THEOREM UseKeepsSignedIn == Spec => []UsedStaysSignedIn
<1>1. Init => Shape /\ Promised
  BY ShapeInit DEF Init, Promised
<1>2. (Shape /\ Promised) /\ [Next]_vars => (Shape /\ Promised)'
  <2>1. ASSUME Shape, Promised, UNCHANGED vars PROVE Shape' /\ Promised'
    BY <2>1 DEF vars, history, Shape, NumbersOK, AccountsOK, JobsOK, JobOK, SessionsOK, SessionOK, Promised
  <2> QED BY <2>1, ShapeStep, PromisedStep
<1>3. Shape /\ Promised => UsedStaysSignedIn
  <2>1. SUFFICES ASSUME Shape, Promised, NEW t \in Token, now < good[t]
                 PROVE  t \in DOMAIN sessions /\ sessions[t].expires > now
    BY DEF UsedStaysSignedIn
  <2>2. t \in DOMAIN sessions /\ sessions[t].expires >= good[t] /\ good[t] \in Int /\ now \in Int
    BY <2>1 DEF Promised, Shape, NumbersOK
  <2>3. sessions[t].expires \in Int
    BY <2>1, <2>2 DEF Shape, SessionsOK, SessionOK
  <2> QED BY <2>1, <2>2, <2>3
<1> QED BY <1>1, <1>2, <1>3, PTL DEF Spec
----------------------------------------------------------------------------
(* The exact types.  They need what a request holds at two points: one that *)
(* slides a session its token and its clock, one that redeems a code a code *)
(* that was issued.                                                         *)
JobTyped(j, n) ==
  /\ j \in JobState
  /\ j.pc # "idle" => \E u \in Member : j.user = {u}
  /\ j.pc = "slide" => j.at \in 0..MaxNow /\ j.token \in Token
  /\ j.pc = "set" => j.code \in 1..n
RowTyped(a, n) == a \in Account /\ a.code \in 0..n /\ (a.code = NoCode <=> a.expires = Never)

CountsTyped == now \in 0..MaxNow /\ tokens \in 0..MaxTokens /\ codes \in 0..MaxCodes /\ cuts \in 0..MaxCuts
RowsTyped == account \in [Member -> Account] /\ \A u \in Member : RowTyped(account[u], codes)
JobsTyped == job \in [Request -> JobState] /\ \A r \in Request : JobTyped(job[r], codes)
SessionsTyped == DOMAIN sessions \subseteq 1..tokens /\ sessions \in [DOMAIN sessions -> Session]
HistoryTyped == good \in [Token -> Nat] /\ guesses \in [Code -> Nat] /\ redeemed \subseteq 1..codes
Typed == CountsTyped /\ RowsTyped /\ JobsTyped /\ SessionsTyped /\ HistoryTyped

LEMMA TypedIsTypeOK == Typed => TypeOK
BY DEF Typed, CountsTyped, RowsTyped, JobsTyped, SessionsTyped, HistoryTyped, TypeOK, RowTyped, JobTyped

LEMMA TypedInit == Init => Typed
BY ConstantsAssumption
   DEF Init, Typed, CountsTyped, RowsTyped, JobsTyped, SessionsTyped, HistoryTyped, RowTyped, JobTyped,
       Account, JobState, Idle, NoCode, Never, Code, Token

\* One request changes, the others stay or are marked as late.
LEMMA IdleTyped == ASSUME NEW n PROVE JobTyped(Idle, n)
BY ConstantsAssumption DEF JobTyped, JobState, Idle, NoCode, Never

LEMMA OvertakenTyped ==
  ASSUME JobsTyped, NEW u
  PROVE  /\ Overtaken(u) \in [Request -> JobState]
         /\ \A q \in Request : JobTyped(Overtaken(u)[q], codes)
<1>1. ASSUME NEW j, JobTyped(j, codes) PROVE JobTyped([j EXCEPT !.late = TRUE], codes)
  BY <1>1 DEF JobTyped, JobState
<1>2. ASSUME NEW q \in Request PROVE JobTyped(Overtaken(u)[q], codes)
  <2>1. Overtaken(u)[q] = job[q] \/ Overtaken(u)[q] = [job[q] EXCEPT !.late = TRUE]
    BY DEF Overtaken
  <2> QED BY <1>1, <2>1 DEF JobsTyped
<1>3. ASSUME NEW q \in Request PROVE Overtaken(u)[q] \in JobState
  BY <1>2 DEF JobTyped
<1> QED BY <1>2, <1>3 DEF Overtaken

LEMMA MoreCodes ==
  ASSUME NEW m \in Nat, NEW n \in Nat, m <= n
  PROVE  /\ \A j : JobTyped(j, m) => JobTyped(j, n)
         /\ \A a : RowTyped(a, m) => RowTyped(a, n)
BY DEF JobTyped, RowTyped

LEMMA SetTyped ==
  ASSUME JobsTyped, NEW r \in Request, NEW j, codes \in Nat, codes' \in Nat, codes <= codes',
         JobTyped(j, codes'), Set(r, j)
  PROVE  JobsTyped'
<1>1. j \in JobState /\ job' = [job EXCEPT ![r] = j] /\ job \in [Request -> JobState]
  BY DEF JobTyped, Set, JobsTyped
<1>2. job' \in [Request -> JobState]
  BY <1>1
<1>3. ASSUME NEW q \in Request PROVE JobTyped(job'[q], codes')
  <2>1. JobTyped(job[q], codes')
    BY MoreCodes DEF JobsTyped
  <2>2. job'[q] = j \/ job'[q] = job[q]
    BY <1>1
  <2> QED BY <2>1, <2>2
<1> QED BY <1>2, <1>3 DEF JobsTyped

LEMMA OvertakenSetTyped ==
  ASSUME JobsTyped, NEW r \in Request, NEW u, NEW j, JobTyped(j, codes), codes' = codes,
         job' = [Overtaken(u) EXCEPT ![r] = j]
  PROVE  JobsTyped'
<1>1. j \in JobState
  BY DEF JobTyped
<1>2. job' \in [Request -> JobState]
  BY <1>1, OvertakenTyped
<1>3. ASSUME NEW q \in Request PROVE JobTyped(job'[q], codes')
  <2>1. job'[q] = j \/ job'[q] = Overtaken(u)[q]
    BY OvertakenTyped
  <2> QED BY <2>1, OvertakenTyped
<1> QED BY <1>2, <1>3 DEF JobsTyped

SetRow(u, a) == account' = [account EXCEPT ![u] = a]

LEMMA RowSetTyped ==
  ASSUME RowsTyped, NEW u \in Member, NEW a, codes \in Nat, codes' \in Nat, codes <= codes',
         RowTyped(a, codes'), SetRow(u, a)
  PROVE  RowsTyped'
<1>1. a \in Account
  BY DEF RowTyped
<1>2. account' \in [Member -> Account]
  BY <1>1 DEF RowsTyped, SetRow
<1>3. ASSUME NEW v \in Member PROVE RowTyped(account'[v], codes')
  <2>1. RowTyped(account[v], codes')
    BY MoreCodes DEF RowsTyped
  <2>2. account'[v] = a \/ account'[v] = account[v]
    BY DEF RowsTyped, SetRow
  <2> QED BY <2>1, <2>2
<1> QED BY <1>2, <1>3 DEF RowsTyped

\* What the statements make of a row.
LEMMA RowsOfTheirTypes ==
  ASSUME NEW n \in Nat, NEW a, RowTyped(a, n)
  PROVE  RowTyped(Bumped(a), n) /\ RowTyped(Reset(a), n)
<1>1. /\ a.active \in BOOLEAN /\ a.password \in Nat \ {0} /\ a.code \in Code \cup {NoCode}
      /\ a.expires \in Int /\ a.attempts \in Nat
  BY DEF RowTyped, Account
<1>2. a = [active |-> a.active, password |-> a.password, code |-> a.code, expires |-> a.expires,
           attempts |-> a.attempts]
  BY DEF RowTyped, Account
<1>3. RowTyped(Bumped(a), n)
  <2> DEFINE full == a.attempts + 1 >= MaxAttempts
             c == IF full THEN NoCode ELSE a.code
             e == IF full THEN Never ELSE a.expires
             b == [active |-> a.active, password |-> a.password, code |-> c, expires |-> e,
                   attempts |-> a.attempts + 1]
  <2>1. Bumped(a) = b
    BY <1>2 DEF Bumped
  <2>2. RowTyped(b, n)
    BY <1>1 DEF RowTyped, Account, NoCode, Never
  <2> QED BY <2>1, <2>2
<1>4. RowTyped(Reset(a), n)
  <2>1. PICK p : p = a.password + 1
    OBVIOUS
  <2>2. PICK v : v = [a EXCEPT !.password = p, !.code = NoCode, !.expires = Never]
    OBVIOUS
  <2>3. v = Reset(a)
    BY <2>1, <2>2 DEF Reset, Cleared
  <2>4. p \in Nat \ {0}
    BY <1>1, <2>1
  <2>5. v.active = a.active /\ v.password = p /\ v.code = NoCode /\ v.expires = Never /\ v.attempts = a.attempts
    BY <2>2 DEF RowTyped, Account
  <2>6. v \in Account
    <3>1. DOMAIN v = DOMAIN a
      BY <2>2
    <3>2. v = [active |-> v.active, password |-> v.password, code |-> v.code, expires |-> v.expires,
               attempts |-> v.attempts]
      BY <2>2, <3>1 DEF RowTyped, Account
    <3> QED BY <1>1, <2>4, <2>5, <3>2 DEF Account, NoCode, Never
  <2>7. RowTyped(v, n)
    BY <2>5, <2>6 DEF RowTyped, NoCode, Never
  <2> QED BY <2>3, <2>7
<1> QED BY <1>3, <1>4

\* A session that is kept or changed, and one that goes.
LEMMA FewerTyped ==
  ASSUME SessionsTyped, tokens' = tokens, NEW T \in SUBSET DOMAIN sessions,
         sessions' = [t \in T |-> sessions[t]]
  PROVE  SessionsTyped'
BY DEF SessionsTyped

LEMMA MissedTyped ==
  ASSUME CountsTyped, SessionsTyped, tokens' = tokens, NEW r, Missed(r)
  PROVE  SessionsTyped' /\ cuts' \in 0..MaxCuts
<1>1. cuts' \in 0..MaxCuts
  BY ConstantsAssumption DEF Missed, CountsTyped
<1>2. PICK u : sessions' = [t \in DOMAIN sessions |->
                             IF t \in TokensOf(u) THEN [sessions[t] EXCEPT !.kept = TRUE] ELSE sessions[t]]
  BY DEF Missed
<1>3. ASSUME NEW t \in DOMAIN sessions PROVE sessions'[t] \in Session
  <2>1. sessions[t] \in Session
    BY DEF SessionsTyped
  <2>2. [sessions[t] EXCEPT !.kept = TRUE] \in Session
    BY <2>1 DEF Session
  <2> QED BY <1>2, <2>1, <2>2
<1>4. DOMAIN sessions' = DOMAIN sessions /\ sessions' = [t \in DOMAIN sessions' |-> sessions'[t]]
  BY <1>2
<1>5. sessions' \in [DOMAIN sessions' -> Session]
  BY <1>3, <1>4
<1> QED BY <1>1, <1>4, <1>5 DEF SessionsTyped

LEMMA UnpromisedTyped == ASSUME HistoryTyped, NEW T PROVE Unpromised(T) \in [Token -> Nat]
BY DEF HistoryTyped, Unpromised

LEMMA OfOneMember ==
  ASSUME JobsTyped, NEW r \in Request, job[r].pc # "idle", NEW u \in job[r].user
  PROVE  u \in Member /\ job[r].user = {u}
BY DEF JobsTyped, JobTyped

(* Step by step.                                                           *)
LEMMA MadeTyped == ASSUME Typed, NEW r \in Request, CreateSession(r) PROVE Typed'
<1> USE DEF Typed
<1>1. PICK u \in job[r].user :
        sessions' = [s \in DOMAIN sessions \cup {tokens + 1} |->
                      IF s = tokens + 1
                      THEN [user |-> u, expires |-> now + TTL, created |-> now,
                            password |-> job[r].password, late |-> job[r].late, kept |-> FALSE]
                      ELSE sessions[s]]
  BY DEF CreateSession
<1>2. u \in Member
  BY OfOneMember DEF CreateSession
<1>3. CountsTyped'
  BY ConstantsAssumption DEF CreateSession, CountsTyped
<1>4. SessionsTyped'
  <2>1. job[r].password \in Nat /\ job[r].late \in BOOLEAN
    BY DEF JobsTyped, JobState
  <2>2. now + TTL \in Nat /\ now \in Nat /\ tokens \in Nat /\ tokens' = tokens + 1
    BY ConstantsAssumption DEF CountsTyped, CreateSession
  <2> DEFINE new == [user |-> u, expires |-> now + TTL, created |-> now,
                     password |-> job[r].password, late |-> job[r].late, kept |-> FALSE]
  <2>3. new \in Session
    BY <1>2, <2>1, <2>2 DEF Session
  <2> HIDE DEF new
  <2>4. DOMAIN sessions' = DOMAIN sessions \cup {tokens + 1}
    BY <1>1
  <2>5. \A s \in DOMAIN sessions' : sessions'[s] = IF s = tokens + 1 THEN new ELSE sessions[s]
    BY <1>1, <2>4 DEF new
  <2>6. \A s \in DOMAIN sessions' : sessions'[s] \in Session
    BY <2>3, <2>4, <2>5 DEF SessionsTyped
  <2>7. sessions' = [s \in DOMAIN sessions' |-> sessions'[s]]
    BY <1>1
  <2>8. sessions' \in [DOMAIN sessions' -> Session]
    BY <2>6, <2>7
  <2>9. DOMAIN sessions' \subseteq 1..tokens'
    BY <2>2, <2>4 DEF SessionsTyped
  <2> QED BY <2>8, <2>9 DEF SessionsTyped
<1>5. JobsTyped'
  BY SetTyped, IdleTyped DEF CreateSession, End, CountsTyped
<1>6. RowsTyped' /\ HistoryTyped'
  BY DEF CreateSession, RowsTyped, HistoryTyped
<1> QED BY <1>3, <1>4, <1>5, <1>6

LEMMA IssuedTyped == ASSUME Typed, NEW r \in Request, SetResetCode(r) PROVE Typed'
<1> USE DEF Typed
<1>1. PICK u \in job[r].user : account' = [account EXCEPT ![u] = Issued(account[u])]
  BY DEF SetResetCode
<1>2. u \in Member
  BY OfOneMember DEF SetResetCode
<1>3. codes \in Nat /\ codes' = codes + 1 /\ codes' \in 0..MaxCodes /\ codes' \in Code /\ now \in Nat
  BY ConstantsAssumption DEF CountsTyped, SetResetCode, Code
<1>4. PICK a : a = Issued(account[u])
  OBVIOUS
<1>5. RowsTyped'
  <2>1. account[u] \in Account
    BY <1>2 DEF RowsTyped
  <2>2. PICK b : b = account[u]
    OBVIOUS
  <2>3. a = [active |-> b.active, password |-> b.password, code |-> codes', expires |-> now + CodeLife,
             attempts |-> 0]
    BY <1>3, <1>4, <2>1, <2>2 DEF Issued, Account
  <2>4. b.active \in BOOLEAN /\ b.password \in Nat \ {0} /\ codes' \in Nat \ {0} /\ now + CodeLife \in Nat
    BY <1>3, <2>1, <2>2, ConstantsAssumption DEF Account
  <2>5. RowTyped(a, codes')
    BY <1>3, <2>3, <2>4 DEF RowTyped, Account, NoCode, Never
  <2>6. SetRow(u, a)
    BY <1>1, <1>4 DEF SetRow
  <2> QED BY <1>2, <1>3, <2>5, <2>6, RowSetTyped
<1>6. JobsTyped'
  BY <1>3, SetTyped, IdleTyped DEF SetResetCode, End
<1>7. CountsTyped' /\ SessionsTyped' /\ HistoryTyped'
  BY <1>3 DEF SetResetCode, CountsTyped, SessionsTyped, HistoryTyped, history
<1> QED BY <1>5, <1>6, <1>7

LEMMA BumpedTyped == ASSUME Typed, NEW r \in Request, BumpResetAttempt(r) PROVE Typed'
<1> USE DEF Typed
<1>1. PICK u \in job[r].user : account' = [account EXCEPT ![u] = Bumped(account[u])]
  BY DEF BumpResetAttempt
<1>2. u \in Member
  BY OfOneMember DEF BumpResetAttempt
<1>3. codes \in Nat /\ codes' = codes
  BY ConstantsAssumption DEF CountsTyped, BumpResetAttempt
<1>4. PICK a : a = Bumped(account[u])
  OBVIOUS
<1>5. RowsTyped'
  <2>1. RowTyped(a, codes')
    BY <1>2, <1>3, <1>4, RowsOfTheirTypes DEF RowsTyped
  <2>2. SetRow(u, a)
    BY <1>1, <1>4 DEF SetRow
  <2> QED BY <1>2, <1>3, <2>1, <2>2, RowSetTyped
<1>6. JobsTyped'
  BY <1>3, SetTyped, IdleTyped DEF BumpResetAttempt, End
<1>7. CountsTyped' /\ SessionsTyped' /\ HistoryTyped'
  BY DEF BumpResetAttempt, CountsTyped, SessionsTyped, HistoryTyped, history
<1> QED BY <1>5, <1>6, <1>7

LEMMA ResetTyped == ASSUME Typed, NEW r \in Request, SetPasswordAndClearReset(r) PROVE Typed'
<1> USE DEF Typed
<1> DEFINE next(u) == [job[r] EXCEPT !.pc = "purge", !.code = NoCode, !.password = account[u].password + 1]
<1>1. PICK u \in job[r].user : account' = [account EXCEPT ![u] = Reset(account[u])] /\ Set(r, next(u))
  BY DEF SetPasswordAndClearReset
<1>2. u \in Member
  BY OfOneMember DEF SetPasswordAndClearReset
<1>3. codes \in Nat /\ codes' = codes
  BY ConstantsAssumption DEF CountsTyped, SetPasswordAndClearReset
<1>4. PICK a : a = Reset(account[u])
  OBVIOUS
<1>5. RowsTyped'
  <2>1. RowTyped(a, codes')
    BY <1>2, <1>3, <1>4, RowsOfTheirTypes DEF RowsTyped
  <2>2. SetRow(u, a)
    BY <1>1, <1>4 DEF SetRow
  <2> QED BY <1>2, <1>3, <2>1, <2>2, RowSetTyped
<1>6. JobsTyped'
  <2>1. account[u].password + 1 \in Nat
    BY <1>2 DEF RowsTyped, Account
  <2>2. JobTyped(job[r], codes) /\ job[r].pc = "set"
    BY DEF JobsTyped, SetPasswordAndClearReset
  <2>3. JobTyped(next(u), codes)
    BY <2>1, <2>2 DEF JobTyped, JobState
  <2> QED BY <1>1, <1>3, <2>3, SetTyped
<1>7. CountsTyped' /\ SessionsTyped'
  BY DEF SetPasswordAndClearReset, CountsTyped, SessionsTyped
<1>8. HistoryTyped'
  BY <1>3 DEF SetPasswordAndClearReset, HistoryTyped, JobsTyped, JobTyped
<1> QED BY <1>5, <1>6, <1>7, <1>8

LEMMA MovedTyped ==
  ASSUME JobsTyped, NEW r \in Request, job[r].pc # "idle", NEW pc \in {"issue", "reload"}
  PROVE  JobTyped([job[r] EXCEPT !.pc = pc], codes)
<1>1. JobTyped(job[r], codes)
  BY DEF JobsTyped
<1> QED BY <1>1 DEF JobTyped, JobState

LEMMA SignedOutTyped ==
  ASSUME Typed, NEW r \in Request, NEW next, JobTyped(next, codes), DeleteUserSessions(r, next),
         UNCHANGED <<now, account, tokens, codes, cuts, guesses, redeemed>>
  PROVE  Typed'
<1> USE DEF Typed
<1>1. PICK u \in job[r].user :
        /\ sessions' = [t \in DOMAIN sessions \ SignedOut(u) |-> sessions[t]]
        /\ good' = Unpromised(SignedOut(u))
        /\ job' = [Overtaken(u) EXCEPT ![r] = next]
  BY DEF DeleteUserSessions
<1>2. JobsTyped'
  BY <1>1, OvertakenSetTyped
<1>3. SessionsTyped'
  BY <1>1, FewerTyped
<1>4. HistoryTyped'
  BY <1>1, UnpromisedTyped DEF HistoryTyped
<1> QED BY <1>2, <1>3, <1>4 DEF CountsTyped, RowsTyped

LEMMA PurgedTyped == ASSUME Typed, NEW r \in Request, Purge(r) PROVE Typed'
<1> DEFINE next == [job[r] EXCEPT !.pc = "reload"]
<1>1. JobTyped(next, codes)
  BY MovedTyped DEF Purge, Typed
<1>2. CASE DeleteUserSessions(r, next) /\ UNCHANGED cuts
  BY <1>1, <1>2, SignedOutTyped DEF Purge
<1>3. CASE Missed(r) /\ (\E u \in job[r].user : job' = [Overtaken(u) EXCEPT ![r] = next]) /\ UNCHANGED good
  <2>1. UNCHANGED <<now, account, tokens, codes, guesses, redeemed>>
    BY DEF Purge
  <2>2. SessionsTyped' /\ cuts' \in 0..MaxCuts
    BY <1>3, <2>1, MissedTyped DEF Typed
  <2>3. JobsTyped'
    BY <1>1, <1>3, <2>1, OvertakenSetTyped DEF Typed
  <2> QED BY <1>3, <2>1, <2>2, <2>3 DEF Typed, CountsTyped, RowsTyped, HistoryTyped
<1> QED BY <1>2, <1>3 DEF Purge

LEMMA CutTyped == ASSUME Typed, NEW r \in Request, Cut(r) PROVE Typed'
<1>1. UNCHANGED <<now, account, tokens, codes, good, guesses, redeemed>>
  BY DEF Cut
<1>2. SessionsTyped' /\ cuts' \in 0..MaxCuts /\ JobsTyped'
  <2>1. CASE Missed(r) /\ \E u \in job[r].user : job' = [Overtaken(u) EXCEPT ![r] = Idle]
    BY <1>1, <2>1, MissedTyped, OvertakenSetTyped, IdleTyped DEF Typed
  <2>2. CASE cuts < MaxCuts /\ cuts' = cuts + 1 /\ End(r) /\ UNCHANGED sessions
    <3>1. JobsTyped'
      BY <1>1, <2>2, SetTyped, IdleTyped DEF Typed, End, CountsTyped
    <3> QED BY <1>1, <2>2, <3>1, ConstantsAssumption DEF Typed, CountsTyped, SessionsTyped
  <2> QED BY <2>1, <2>2 DEF Cut
<1> QED BY <1>1, <1>2 DEF Typed, CountsTyped, RowsTyped, HistoryTyped

LEMMA SlidTyped == ASSUME Typed, NEW r \in Request, ExtendSession(r) PROVE Typed'
<1> DEFINE t == job[r].token
           at == job[r].at
<1>1. JobTyped(job[r], codes) /\ job[r].pc = "slide"
  BY DEF Typed, JobsTyped, ExtendSession
<1>2. at \in Nat /\ t \in Token
  BY <1>1, ConstantsAssumption DEF JobTyped
<1>3. UNCHANGED <<now, account, tokens, codes, guesses, redeemed>>
  BY DEF ExtendSession
<1>4. JobsTyped'
  <2>1. CASE End(r)
    BY <1>3, <2>1, SetTyped, IdleTyped DEF Typed, End, CountsTyped
  <2>2. CASE Set(r, [job[r] EXCEPT !.pc = "logout", !.at = Never])
    <3>1. JobTyped([job[r] EXCEPT !.pc = "logout", !.at = Never], codes)
      BY <1>1 DEF JobTyped, JobState
    <3> QED BY <1>3, <2>2, <3>1, SetTyped DEF Typed, CountsTyped
  <2> QED BY <2>1, <2>2 DEF ExtendSession
<1>5. SessionsTyped' /\ good' \in [Token -> Nat] /\ cuts' \in 0..MaxCuts
  <2>1. CASE /\ Unexpired(t)
             /\ sessions' = [sessions EXCEPT ![t].expires = Slid(sessions[t], at)]
             /\ good' = [good EXCEPT ![t] = Later(@, GoodUntil(sessions[t], at))]
             /\ UNCHANGED cuts
    <3>1. t \in DOMAIN sessions
      BY <2>1 DEF Unexpired
    <3>2. sessions[t] \in Session
      BY <3>1 DEF Typed, SessionsTyped
    <3>3. PICK s : s = sessions[t]
      OBVIOUS
    <3>4. s.expires \in Nat /\ s.created \in Nat
      BY <3>2, <3>3 DEF Session
    <3>5. Slid(s, at) \in Nat /\ GoodUntil(s, at) \in Nat
      BY <1>2, <3>4, ConstantsAssumption DEF Slid, GoodUntil, Earlier
    <3>6. [s EXCEPT !.expires = Slid(s, at)] \in Session
      BY <3>2, <3>3, <3>5 DEF Session
    <3>7. sessions' = [sessions EXCEPT ![t] = [s EXCEPT !.expires = Slid(s, at)]]
      BY <2>1, <3>3
    <3>8. SessionsTyped'
      BY <1>3, <3>1, <3>6, <3>7 DEF Typed, SessionsTyped
    <3>9. good[t] \in Nat
      BY <1>2 DEF Typed, HistoryTyped
    <3>10. Later(good[t], GoodUntil(s, at)) \in Nat
      BY <3>5, <3>9 DEF Later
    <3>11. good' = [good EXCEPT ![t] = Later(good[t], GoodUntil(s, at))]
      BY <2>1, <3>3
    <3>12. good' \in [Token -> Nat]
      BY <3>10, <3>11 DEF Typed, HistoryTyped
    <3> QED BY <2>1, <3>8, <3>12 DEF Typed, CountsTyped
  <2>2. CASE UNCHANGED <<sessions, good>> /\ (UNCHANGED cuts \/ (cuts < MaxCuts /\ cuts' = cuts + 1))
    BY <1>3, <2>2, ConstantsAssumption DEF Typed, SessionsTyped, HistoryTyped, CountsTyped
  <2> QED BY <2>1, <2>2 DEF ExtendSession
<1> QED BY <1>3, <1>4, <1>5 DEF Typed, CountsTyped, RowsTyped, HistoryTyped

LEMMA LoggedOutTyped == ASSUME Typed, NEW r \in Request, Logout(r) PROVE Typed'
<1>1. JobsTyped'
  BY SetTyped, IdleTyped DEF Typed, Logout, End, CountsTyped
<1>2. SessionsTyped'
  BY FewerTyped DEF Typed, Logout
<1>3. HistoryTyped'
  BY UnpromisedTyped DEF Typed, Logout, HistoryTyped
<1> QED BY <1>1, <1>2, <1>3 DEF Typed, Logout, CountsTyped, RowsTyped

\* Steps that change no more than the request.
LEMMA RequestTyped ==
  ASSUME Typed, NEW r \in Request, NEW j, JobTyped(j, codes), Set(r, j),
         UNCHANGED <<now, sessions, tokens, codes, cuts, good, redeemed>>,
         RowsTyped', guesses' \in [Code -> Nat]
  PROVE  Typed'
<1>1. JobsTyped'
  BY SetTyped DEF Typed, CountsTyped
<1> QED BY <1>1 DEF Typed, CountsTyped, SessionsTyped, HistoryTyped

LEMMA StartedTyped ==
  ASSUME Typed, NEW r \in Request, NEW u \in Member, Login(r, u) \/ IssueCode(r, u) \/ Revoke(r, u)
  PROVE  Typed'
<1>1. account[u] \in Account /\ RowTyped(account[u], codes) /\ guesses \in [Code -> Nat]
  BY DEF Typed, RowsTyped, HistoryTyped
<1>2. CASE Login(r, u)
  <2>1. JobTyped([Idle EXCEPT !.pc = "issue", !.user = {u}, !.password = account[u].password], codes)
    BY <1>1 DEF JobTyped, JobState, Idle, Account, NoCode, Never
  <2>2. RowsTyped'
    BY <1>2 DEF Login, Typed, RowsTyped
  <2> QED BY <1>1, <1>2, <2>1, <2>2, RequestTyped DEF Login, history
<1>3. CASE IssueCode(r, u)
  <2>1. JobTyped([Idle EXCEPT !.pc = "store", !.user = {u}], codes)
    BY DEF JobTyped, JobState, Idle, NoCode, Never
  <2>2. RowsTyped'
    BY <1>3 DEF IssueCode, Typed, RowsTyped
  <2> QED BY <1>1, <1>3, <2>1, <2>2, RequestTyped DEF IssueCode, history
<1>4. CASE Revoke(r, u)
  <2>1. JobTyped([Idle EXCEPT !.pc = "kick", !.user = {u}], codes)
    BY DEF JobTyped, JobState, Idle, NoCode, Never
  <2>2. PICK a : a = [account[u] EXCEPT !.active = FALSE]
    OBVIOUS
  <2>3. RowTyped(a, codes)
    BY <1>1, <2>2 DEF RowTyped, Account
  <2>4. SetRow(u, a) /\ codes' = codes /\ codes \in Nat
    BY <1>4, <2>2, ConstantsAssumption DEF SetRow, Revoke, Typed, CountsTyped
  <2>5. RowsTyped'
    BY <2>3, <2>4, RowSetTyped DEF Typed
  <2> QED BY <1>1, <1>4, <2>1, <2>5, RequestTyped DEF Revoke, history
<1> QED BY <1>2, <1>3, <1>4

LEMMA RedeemedTyped ==
  ASSUME Typed, NEW r \in Request, NEW u \in Member, NEW c \in {NoCode} \cup 1..codes, Redeem(r, u, c)
  PROVE  Typed'
<1> DEFINE k == [Idle EXCEPT !.pc = IF c = account[u].code THEN "set" ELSE "bump", !.user = {u}, !.code = c]
<1>1. c \in Code \cup {NoCode}
  BY ConstantsAssumption DEF Typed, CountsTyped, Code
<1>2. account[u].code \in 1..codes /\ account[u].code \in Code
  BY ConstantsAssumption DEF Typed, RowsTyped, RowTyped, Account, Redeem, NoCode, CountsTyped, Code
<1>3. k.pc = "set" => c \in 1..codes
  BY <1>2 DEF Idle
<1>4. JobTyped(k, codes)
  BY <1>1, <1>3 DEF JobTyped, JobState, Idle, NoCode, Never
<1>5. Set(r, k)
  BY DEF Redeem
<1>6. guesses' \in [Code -> Nat]
  BY <1>2 DEF Redeem, Typed, HistoryTyped
<1>7. RowsTyped'
  BY DEF Redeem, Typed, RowsTyped
<1> HIDE DEF k
<1> QED BY <1>4, <1>5, <1>6, <1>7, RequestTyped DEF Redeem

LEMMA AuthenticatedTyped ==
  ASSUME Typed, NEW r \in Request, NEW t \in DOMAIN sessions, Authenticate(r, t)
  PROVE  Typed'
<1> DEFINE k == [Idle EXCEPT !.pc = "slide", !.user = {sessions[t].user}, !.token = t, !.at = now]
<1>1. sessions[t].user \in Member
  BY DEF Typed, SessionsTyped, Session
<1>2. t \in Token /\ now \in 0..MaxNow
  BY ConstantsAssumption DEF Typed, SessionsTyped, CountsTyped, Token
<1>3. JobTyped(k, codes)
  BY <1>1, <1>2 DEF JobTyped, JobState, Idle, NoCode, Never
<1>4. Set(r, k)
  BY DEF Authenticate
<1>5. RowsTyped' /\ guesses' \in [Code -> Nat]
  BY DEF Authenticate, history, Typed, RowsTyped, HistoryTyped
<1> HIDE DEF k
<1> QED BY <1>3, <1>4, <1>5, RequestTyped DEF Authenticate, history

LEMMA ReloadedTyped == ASSUME Typed, NEW r \in Request, Reload(r) PROVE Typed'
<1>1. PICK j : JobTyped(j, codes) /\ Set(r, j)
  BY MovedTyped, IdleTyped DEF Typed, Reload, Goto, End
<1>2. RowsTyped' /\ guesses' \in [Code -> Nat]
  BY DEF Reload, history, Typed, RowsTyped, HistoryTyped
<1> QED BY <1>1, <1>2, RequestTyped DEF Reload, history

LEMMA TimeTyped == ASSUME Typed, Cleanup \/ Pass PROVE Typed'
<1>1. CASE Cleanup
  <2>1. SessionsTyped'
    BY <1>1, FewerTyped DEF Cleanup, Typed
  <2> QED BY <1>1, <2>1 DEF Cleanup, history, Typed, CountsTyped, RowsTyped, JobsTyped, HistoryTyped
<1>2. CASE Pass
  <2>1. good' \in [Token -> Nat]
    BY <1>2 DEF Pass, Typed, HistoryTyped
  <2>2. now' \in 0..MaxNow
    BY <1>2, ConstantsAssumption DEF Pass, Typed, CountsTyped
  <2> QED BY <1>2, <2>1, <2>2 DEF Pass, Typed, CountsTyped, RowsTyped, JobsTyped, SessionsTyped, HistoryTyped
<1> QED BY <1>1, <1>2

LEMMA TypedStep == ASSUME Typed, Next PROVE Typed'
<1>1. ASSUME NEW r \in Request, Kick(r) PROVE Typed'
  BY <1>1, IdleTyped, SignedOutTyped DEF Kick
<1>2. ASSUME NEW r \in Request, Step(r) PROVE Typed'
  BY <1>1, <1>2, MadeTyped, IssuedTyped, BumpedTyped, ResetTyped, PurgedTyped, ReloadedTyped, SlidTyped,
     LoggedOutTyped, CutTyped DEF Step
<1> QED BY <1>2, StartedTyped, RedeemedTyped, AuthenticatedTyped, TimeTyped DEF Next

(* Every column stays within its type: a session's ends are moments, a code *)
(* is gone together with its expiry, and only issued codes are redeemed.    *)
THEOREM TypeCorrect == Spec => []TypeOK
<1>1. Init => Typed
  BY TypedInit
<1>2. Typed /\ [Next]_vars => Typed'
  <2>1. ASSUME Typed, UNCHANGED vars PROVE Typed'
    BY <2>1 DEF vars, history, Typed, CountsTyped, RowsTyped, JobsTyped, SessionsTyped, HistoryTyped
  <2> QED BY <2>1, TypedStep
<1> QED BY <1>1, <1>2, TypedIsTypeOK, PTL DEF Spec
=============================================================================
