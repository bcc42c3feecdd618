--------------------------- MODULE AccountsProofs ---------------------------
(* Who is let in and who stays in charge, for any number of numbers,        *)
(* requests, accounts and invitations: the entry of a number admits one     *)
(* account, uninvited administrators are bounded, nobody is turned away     *)
(* for nothing, and a deletion leaves an administrator.                     *)
EXTENDS Accounts, FiniteSetTheorems, TLAPS

\* The bound on TypeOK's last conjunct is that of the ids handed out.
Types == TypeOK /\ uninvited <= lastId

----------------------------------------------------------------------------
(* Types.                                                                  *)
LEMMA IdleIsAJob == Idle \in JobState
BY ConstantsAssumption DEF Idle, JobState, RowState

LEMMA JobMoves ==
  ASSUME job \in [Request -> JobState], NEW r \in Request, NEW j \in JobState, Set(r, j)
  PROVE  /\ job' \in [Request -> JobState] /\ job'[r] = j
         /\ \A q \in Request \ {r} : job'[q] = job[q]
BY DEF Set

LEMMA LateIsAJob == ASSUME NEW j \in JobState PROVE [j EXCEPT !.late = TRUE] \in JobState
BY DEF JobState

LEMMA RowGoneJobs ==
  ASSUME NEW p, NEW jobs \in [Request -> JobState]
  PROVE  /\ RowGone(p, jobs) \in [Request -> JobState]
         /\ \A q \in Request : LET k == RowGone(p, jobs)[q] IN
              /\ k.pc = jobs[q].pc /\ k.op = jobs[q].op /\ k.user = jobs[q].user
              /\ k.phone = jobs[q].phone /\ k.admin = jobs[q].admin /\ k.row = jobs[q].row
              /\ k.had = jobs[q].had /\ (jobs[q].late => k.late) /\ (Saw(q, p) => k.late)
<1>1. RowGone(p, jobs) \in [Request -> JobState]
  BY LateIsAJob DEF RowGone
<1>2. ASSUME NEW q \in Request
      PROVE  RowGone(p, jobs)[q] = IF Saw(q, p) THEN [jobs[q] EXCEPT !.late = TRUE] ELSE jobs[q]
  BY DEF RowGone
<1> QED BY <1>1, <1>2 DEF JobState

\* A request at its next statement, with what it read.
LEMMA StepIsAJob ==
  ASSUME NEW j \in JobState
  PROVE  /\ \A pc \in {"create", "mark", "checked"} : [j EXCEPT !.pc = pc] \in JobState
         /\ \A row \in RowState : [j EXCEPT !.pc = "registered", !.row = row] \in JobState
         /\ \A p \in Phone, had \in BOOLEAN :
              [j EXCEPT !.pc = "deleting", !.phone = p, !.had = had] \in JobState
BY DEF JobState

LEMMA FirstJobs ==
  ASSUME TypeOK
  PROVE  /\ \A p \in Phone :
              LET j == [Idle EXCEPT !.op = "signup", !.phone = p, !.pc = "allowed"]
              IN  j \in JobState /\ [j EXCEPT !.pc = "create", !.admin = TRUE] \in JobState
         /\ \A i \in DOMAIN users, op \in {"invite", "remove", "revoke", "delete"} :
              [Idle EXCEPT !.pc = "auth", !.op = op, !.user = i, !.admin = users[i].admin] \in JobState
<1>1. \A i \in DOMAIN users : i \in 0..MaxAccounts /\ users[i].admin \in BOOLEAN
  BY ConstantsAssumption DEF TypeOK, User
<1> QED BY <1>1, IdleIsAJob DEF JobState, Idle, RowState

\* Steps that read: the tables stay, and one request goes on.
Reads(r, j) ==
  /\ j \in JobState /\ Set(r, j)
  /\ UNCHANGED <<initialized, users, allowed, lastId, invites, uses, uninvited>>

LEMMA TypesReads == ASSUME Types, NEW r \in Request, NEW j, Reads(r, j), cuts' \in 0..MaxCuts PROVE Types'
<1>1. job' \in [Request -> JobState]
  BY JobMoves DEF Reads, Types, TypeOK
<1> QED BY <1>1 DEF Reads, Types, TypeOK

LEMMA Starts ==
  ASSUME TypeOK, NEW r \in Request, NEW p \in Phone, ReadInitialized(r, p)
  PROVE  LET j == [Idle EXCEPT !.op = "signup", !.phone = p, !.pc = "allowed"]
         IN  cuts' = cuts /\ Reads(r, IF initialized THEN j ELSE [j EXCEPT !.pc = "create", !.admin = TRUE])
<1> DEFINE j == [Idle EXCEPT !.op = "signup", !.phone = p, !.pc = "allowed"]
<1>1. j \in JobState /\ [j EXCEPT !.pc = "create", !.admin = TRUE] \in JobState
  BY FirstJobs
<1> QED BY <1>1 DEF ReadInitialized, Reads, table

LEMMA LooksUp ==
  ASSUME TypeOK, NEW r \in Request, ReadAllowed(r)
  PROVE  cuts' = cuts /\ Reads(r, [job[r] EXCEPT !.pc = "registered", !.row = PhoneAllowed(job[r].phone)])
<1>1. PhoneAllowed(job[r].phone) \in RowState /\ job[r] \in JobState
  BY DEF PhoneAllowed, RowState, TypeOK
<1>2. [job[r] EXCEPT !.pc = "registered", !.row = PhoneAllowed(job[r].phone)] \in JobState
  BY <1>1, StepIsAJob
<1> QED BY <1>2 DEF ReadAllowed, Reads, table

LEMMA Decides ==
  ASSUME TypeOK, NEW r \in Request, ReadRegistered(r)
  PROVE  /\ cuts' = cuts
         /\ Reads(r, IF InviteStateFor(job[r].row, PhoneRegistered(job[r].phone)) = "open"
                       THEN [job[r] EXCEPT !.pc = "create"] ELSE Idle)
<1>1. [job[r] EXCEPT !.pc = "create"] \in JobState
  BY StepIsAJob DEF TypeOK
<1> QED BY <1>1, IdleIsAJob DEF ReadRegistered, Reads, table, End

LEMMA Authenticates ==
  ASSUME TypeOK, NEW r \in Request, NEW i \in DOMAIN users,
         NEW op \in {"invite", "remove", "revoke", "delete"}, Authenticate(r, i, op)
  PROVE  /\ cuts' = cuts
         /\ Reads(r, [Idle EXCEPT !.pc = "auth", !.op = op, !.user = i, !.admin = users[i].admin])
<1>1. [Idle EXCEPT !.pc = "auth", !.op = op, !.user = i, !.admin = users[i].admin] \in JobState
  BY FirstJobs
<1> QED BY <1>1 DEF Authenticate, Reads, table

LEMMA Checks ==
  ASSUME TypeOK, NEW r \in Request, CheckOtherAdmin(r)
  PROVE  /\ cuts' = cuts
         /\ Reads(r, IF job[r].admin => OtherAdminExists(job[r].user)
                       THEN [job[r] EXCEPT !.pc = "checked"] ELSE Idle)
<1>1. [job[r] EXCEPT !.pc = "checked"] \in JobState
  BY StepIsAJob DEF TypeOK
<1> QED BY <1>1, IdleIsAJob DEF CheckOtherAdmin, Reads, table

LEMMA Locks ==
  ASSUME TypeOK, NEW r \in Request, DeleteInvite(r)
  PROVE  LET i == job[r].user IN
         /\ cuts' = cuts
         /\ Reads(r, IF i \in DOMAIN users
                       THEN [job[r] EXCEPT !.pc = "deleting", !.phone = users[i].phone, !.had = InviteOf(i)]
                       ELSE Idle)
<1>1. ASSUME job[r].user \in DOMAIN users
      PROVE  [job[r] EXCEPT !.pc = "deleting", !.phone = users[job[r].user].phone,
                            !.had = InviteOf(job[r].user)] \in JobState
  <2>1. users[job[r].user].phone \in Phone /\ InviteOf(job[r].user) \in BOOLEAN /\ job[r] \in JobState
    BY <1>1 DEF TypeOK, User, InviteOf
  <2> QED BY <2>1, StepIsAJob
<1> QED BY <1>1, IdleIsAJob DEF DeleteInvite, Reads, table, End

LEMMA IsCut ==
  ASSUME TypeOK, NEW r \in Request, Cut(r)
  PROVE  Reads(r, Idle) /\ cuts' = cuts + 1 /\ cuts' \in 0..MaxCuts
BY IdleIsAJob, ConstantsAssumption DEF Cut, End, Reads, table, TypeOK

LEMMA TypesCreate == ASSUME Types, NEW r \in Request, CreateUser(r), job[r].phone \in Phone PROVE Types'
<1> DEFINE j == job[r]
           u == [phone |-> j.phone, admin |-> j.admin, active |-> TRUE]
<1>1. j \in JobState /\ lastId \in 0..MaxAccounts /\ uninvited \in 0..MaxAccounts
  BY DEF Types, TypeOK
<1>2. CASE PhoneFree(j.phone)
  <2>1. /\ lastId < MaxAccounts /\ lastId' = lastId + 1
        /\ users' = With(users, lastId + 1, u)
        /\ Set(r, [j EXCEPT !.pc = "mark"])
        /\ uninvited' = (IF j.admin THEN uninvited + 1 ELSE uninvited)
        /\ uses' = IF j.admin \/ j.late THEN uses ELSE [uses EXCEPT ![j.phone] = @ + 1]
        /\ UNCHANGED <<initialized, allowed, invites, cuts>>
    BY <1>2 DEF CreateUser
  <2>2. lastId' \in 0..MaxAccounts /\ uninvited' \in 0..MaxAccounts /\ uninvited' <= lastId'
    BY <1>1, <2>1, ConstantsAssumption DEF Types
  <2>3. u \in User
    BY <1>1 DEF User, JobState
  <2> HIDE DEF u
  <2>4. /\ DOMAIN users' = DOMAIN users \cup {lastId + 1} /\ users'[lastId + 1] = u
        /\ \A i \in DOMAIN users : i # lastId + 1 => users'[i] = users[i]
    <3>1. users' = With(users, lastId + 1, u)
      BY <2>1
    <3>2. DOMAIN users' = DOMAIN users \cup {lastId + 1}
      BY <3>1 DEF With
    <3>3. users'[lastId + 1] = u
      BY <3>1 DEF With
    <3>4. \A i \in DOMAIN users : i # lastId + 1 => users'[i] = users[i]
      BY <3>1 DEF With
    <3> QED BY <3>2, <3>3, <3>4
  <2>5. DOMAIN users' \subseteq 1..lastId' /\ \A i \in DOMAIN users : i # lastId + 1
    BY <1>1, <2>1, <2>4, ConstantsAssumption DEF Types, TypeOK
  <2>6. \A i \in DOMAIN users' : users'[i] \in User
    BY <2>3, <2>4, <2>5 DEF Types, TypeOK
  <2>7. users' \in [DOMAIN users' -> User]
    BY <2>1, <2>6 DEF With
  <2>8. \A i \in DOMAIN users : users[i].phone # j.phone
    BY <1>2 DEF PhoneFree, PhoneRegistered
  <2>9. \A i, k \in DOMAIN users' : users'[i].phone = users'[k].phone => i = k
    BY <2>4, <2>5, <2>8 DEF u, Types, TypeOK
  <2>10. job' \in [Request -> JobState]
    BY <1>1, <2>1, StepIsAJob, JobMoves DEF Types, TypeOK
  <2>11. uses' \in [Phone -> Nat]
    BY <2>1 DEF Types, TypeOK
  <2> QED BY <2>1, <2>2, <2>5, <2>7, <2>9, <2>10, <2>11 DEF Types, TypeOK
<1>3. CASE ~PhoneFree(j.phone)
  <2>1. Set(r, Idle) /\ UNCHANGED <<lastId, users, uninvited, uses, initialized, allowed, invites, cuts>>
    BY <1>3 DEF CreateUser, End
  <2>2. job' \in [Request -> JobState]
    BY <2>1, IdleIsAJob, JobMoves DEF Types, TypeOK
  <2> QED BY <2>1, <2>2 DEF Types, TypeOK
<1> QED BY <1>2, <1>3

LEMMA TypesMark == ASSUME Types, NEW r \in Request, Mark(r) PROVE Types'
<1>1. /\ Set(r, Idle) /\ initialized' = Initialized(job[r])
      /\ UNCHANGED allowed \/ allowed' = [allowed EXCEPT ![job[r].phone] = TRUE]
      /\ UNCHANGED <<users, lastId, invites, cuts, uses, uninvited>>
  BY DEF Mark, End
<1>2. job' \in [Request -> JobState] /\ job[r].admin \in BOOLEAN
  BY <1>1, IdleIsAJob, JobMoves DEF Types, TypeOK, JobState
<1>3. initialized' \in BOOLEAN
  BY <1>1, <1>2 DEF Initialized, Types, TypeOK
<1>4. DOMAIN allowed' \subseteq Phone /\ allowed' \in [DOMAIN allowed' -> BOOLEAN]
  BY <1>1 DEF Types, TypeOK
<1> QED BY <1>1, <1>2, <1>3, <1>4 DEF Types, TypeOK

\* Invitations and their removal, by whomever.
LEMMA TypesAdd ==
  ASSUME Types, NEW p \in Phone, AddAllowedPhone(p), job' \in [Request -> JobState],
         UNCHANGED <<initialized, users, lastId, cuts, uninvited>>
  PROVE  Types'
<1>1. /\ allowed' = With(allowed, p, FALSE) /\ invites < MaxInvites /\ invites' = invites + 1
      /\ uses' = [uses EXCEPT ![p] = 0]
  BY DEF AddAllowedPhone
<1>2. DOMAIN allowed' = DOMAIN allowed \cup {p} /\ allowed' \in [DOMAIN allowed' -> BOOLEAN]
  BY <1>1 DEF With, Types, TypeOK
<1>3. invites' \in 0..MaxInvites /\ uses' \in [Phone -> Nat]
  BY <1>1, ConstantsAssumption DEF Types, TypeOK
<1> QED BY <1>2, <1>3 DEF Types, TypeOK

LEMMA TypesRemove ==
  ASSUME Types, NEW p, allowed' = Without(allowed, {p}), job' \in [Request -> JobState],
         UNCHANGED <<initialized, users, lastId, invites, cuts, uses, uninvited>>
  PROVE  Types'
<1>1. DOMAIN allowed' \subseteq Phone /\ allowed' \in [DOMAIN allowed' -> BOOLEAN]
  BY DEF Without, Types, TypeOK
<1> QED BY <1>1 DEF Types, TypeOK

\* A row of users with one column set keeps its phone.
SetsColumn(i) ==
  \/ users' = [users EXCEPT ![i].active = FALSE]
  \/ users' = [users EXCEPT ![i].admin = TRUE]

LEMMA ColumnSet ==
  ASSUME TypeOK, NEW i \in DOMAIN users, SetsColumn(i)
  PROVE  /\ DOMAIN users' = DOMAIN users /\ users' \in [DOMAIN users' -> User]
         /\ \A k \in DOMAIN users : users'[k].phone = users[k].phone /\ (users[k].admin => users'[k].admin)
<1> DEFINE Fit(v) == v \in User /\ v.phone = users[i].phone /\ (users[i].admin => v.admin)
<1>1. users[i] \in User
  BY DEF TypeOK
<1>2. Fit([users[i] EXCEPT !.active = FALSE]) /\ Fit([users[i] EXCEPT !.admin = TRUE])
  BY <1>1 DEF User
<1>3. PICK v : Fit(v) /\ users' = [users EXCEPT ![i] = v]
  BY <1>2 DEF SetsColumn
<1> QED BY <1>3 DEF TypeOK

LEMMA TypesColumn ==
  ASSUME Types, NEW i \in DOMAIN users, SetsColumn(i), job' \in [Request -> JobState],
         UNCHANGED <<initialized, allowed, lastId, invites, cuts, uses, uninvited>>
  PROVE  Types'
BY ColumnSet DEF Types, TypeOK

----------------------------------------------------------------------------
(* What a step does to requests: one goes on, and the others stay, end or  *)
(* learn that they are late.                                               *)
SameJob(q) ==
  /\ job'[q].pc = job[q].pc /\ job'[q].op = job[q].op /\ job'[q].user = job[q].user
  /\ job'[q].phone = job[q].phone /\ job'[q].admin = job[q].admin /\ job'[q].row = job[q].row
  /\ job'[q].had = job[q].had /\ (job[q].late => job'[q].late)
Calm(q) == SameJob(q) \/ job'[q].pc = "idle"

JobOK(j) ==
  /\ j.pc \in {"allowed", "registered", "create", "mark"} => j.phone \in Phone
  /\ j.pc \in {"allowed", "registered"} => ~j.admin
  /\ j.pc = "create" /\ ~j.admin => j.row # "none"
  /\ j.pc \in {"checked", "deleting"} => j.op = "delete"
JobsOK == \A q \in Request : JobOK(job[q])

\* Rows and entries stay, and so does the count.
Quiet ==
  /\ \A q \in Request : Calm(q)
  /\ DOMAIN users' = DOMAIN users
  /\ \A i \in DOMAIN users : users'[i].phone = users[i].phone /\ (users[i].admin => users'[i].admin)
  /\ DOMAIN allowed' = DOMAIN allowed /\ uses' = uses
  /\ UNCHANGED lastId
\* An account is made, which the entry lets in or not.
SignsUp(r) ==
  /\ job[r].pc = "create" /\ PhoneFree(job[r].phone)
  /\ lastId < MaxAccounts /\ lastId' = lastId + 1
  /\ users' = With(users, lastId + 1, [phone |-> job[r].phone, admin |-> job[r].admin, active |-> TRUE])
  /\ Set(r, [job[r] EXCEPT !.pc = "mark"])
  /\ uses' = IF job[r].admin \/ job[r].late THEN uses ELSE [uses EXCEPT ![job[r].phone] = @ + 1]
  /\ uninvited' = IF job[r].admin THEN uninvited + 1 ELSE uninvited
  /\ UNCHANGED <<initialized, allowed, cuts>>
Invites(p) ==
  /\ AddAllowedPhone(p) /\ \A q \in Request : Calm(q)
  /\ UNCHANGED <<initialized, users, lastId, cuts, uninvited>>
Removes(p) ==
  /\ ~RowLocked(p) /\ allowed' = Without(allowed, {p})
  /\ \A q \in Request : Calm(q) /\ (Saw(q, p) => job'[q].late \/ job'[q].pc = "idle")
  /\ UNCHANGED <<initialized, users, lastId, cuts, uses, uninvited>>

\* Nobody who is to mark the server or to learn an outcome is disturbed.
Elsewhere ==
  /\ \A q \in Request : Calm(q) /\ (job[q].pc \in {"mark", "registered"} => SameJob(q))
  /\ UNCHANGED <<initialized, cuts, uninvited>>

LEMMA EndsCalm ==
  ASSUME job \in [Request -> JobState], NEW r \in Request, Set(r, Idle)
  PROVE  /\ job' \in [Request -> JobState] /\ \A q \in Request : Calm(q)
         /\ \A q \in Request \ {r} : SameJob(q)
<1>1. job'[r].pc = "idle"
  BY JobMoves, IdleIsAJob DEF Idle
<1>2. \A q \in Request \ {r} : SameJob(q)
  BY JobMoves, IdleIsAJob DEF SameJob
<1> QED BY <1>1, <1>2, JobMoves, IdleIsAJob DEF Calm

LEMMA StaysCalm == ASSUME UNCHANGED job PROVE \A q \in Request : Calm(q) /\ SameJob(q)
BY DEF Calm, SameJob

LEMMA RowGoneCalm ==
  ASSUME job \in [Request -> JobState], NEW p, NEW jobs \in [Request -> JobState], job' = RowGone(p, jobs),
         \A q \in Request : jobs[q] = job[q] \/ jobs[q] = Idle
  PROVE  /\ job' \in [Request -> JobState]
         /\ \A q \in Request : Calm(q) /\ (Saw(q, p) => job'[q].late \/ job'[q].pc = "idle")
         /\ \A q \in Request : jobs[q] = job[q] => SameJob(q)
<1>1. \A q \in Request :
        /\ job'[q].pc = jobs[q].pc /\ job'[q].op = jobs[q].op /\ job'[q].user = jobs[q].user
        /\ job'[q].phone = jobs[q].phone /\ job'[q].admin = jobs[q].admin /\ job'[q].row = jobs[q].row
        /\ job'[q].had = jobs[q].had /\ (jobs[q].late => job'[q].late) /\ (Saw(q, p) => job'[q].late)
  BY RowGoneJobs
<1>2. ASSUME NEW q \in Request, jobs[q] = Idle PROVE job'[q].pc = "idle"
  BY <1>1, <1>2 DEF Idle
<1>3. ASSUME NEW q \in Request, jobs[q] = job[q] PROVE SameJob(q) /\ (Saw(q, p) => job'[q].late)
  BY <1>1, <1>3 DEF SameJob
<1> QED BY <1>2, <1>3, RowGoneJobs DEF Calm

LEMMA MarkIsQuiet == ASSUME TypeOK, NEW r \in Request, Mark(r) PROVE Quiet
<1>1. DOMAIN allowed' = DOMAIN allowed /\ Set(r, Idle) /\ UNCHANGED <<users, lastId, uses>>
  BY DEF Mark, End
<1> QED BY <1>1, EndsCalm DEF Quiet, TypeOK

LEMMA Creating == ASSUME TypeOK, NEW r \in Request, CreateUser(r) PROVE (Quiet /\ Elsewhere) \/ SignsUp(r)
<1>1. CASE PhoneFree(job[r].phone)
  BY <1>1 DEF CreateUser, SignsUp
<1>2. CASE ~PhoneFree(job[r].phone)
  <2>1. /\ Set(r, Idle) /\ UNCHANGED <<lastId, users, uses, allowed, initialized, cuts, uninvited>>
        /\ job[r].pc = "create"
    BY <1>2 DEF CreateUser, End
  <2> QED BY <2>1, EndsCalm DEF Quiet, Elsewhere, TypeOK
<1> QED BY <1>1, <1>2

LEMMA Uploading ==
  ASSUME TypeOK, NEW r \in Request, NEW p \in Phone, UploadContact(r, p)
  PROVE  job' \in [Request -> JobState] /\ (Quiet \/ Invites(p)) /\ Elsewhere
<1>1. /\ job' \in [Request -> JobState] /\ \A q \in Request : Calm(q)
      /\ \A q \in Request \ {r} : SameJob(q)
  BY EndsCalm DEF UploadContact, End, TypeOK
<1>2. Elsewhere
  BY <1>1 DEF UploadContact, Elsewhere
<1> QED BY <1>1, <1>2 DEF UploadContact, Quiet, Invites

LEMMA Removing ==
  ASSUME TypeOK, NEW r \in Request, NEW p \in Phone, RemoveAllowed(r, p)
  PROVE  job' \in [Request -> JobState] /\ Removes(p) /\ Elsewhere
<1> DEFINE jobs == [job EXCEPT ![r] = Idle]
<1>1. /\ jobs \in [Request -> JobState] /\ \A q \in Request : jobs[q] = job[q] \/ jobs[q] = Idle
      /\ \A q \in Request \ {r} : jobs[q] = job[q]
  BY IdleIsAJob DEF TypeOK
<1>2. job' = RowGone(p, jobs)
  BY DEF RemoveAllowed
<1> HIDE DEF jobs
<1>3. Elsewhere
  BY <1>1, <1>2, RowGoneCalm DEF RemoveAllowed, Elsewhere, TypeOK
<1> QED BY <1>1, <1>2, <1>3, RowGoneCalm DEF RemoveAllowed, Removes, TypeOK

LEMMA Revoking ==
  ASSUME TypeOK, NEW r \in Request, NEW i \in DOMAIN users, Revoke(r, i)
  PROVE  job' \in [Request -> JobState] /\ SetsColumn(i) /\ Quiet /\ Elsewhere
<1>1. /\ job' \in [Request -> JobState] /\ \A q \in Request : Calm(q)
      /\ \A q \in Request \ {r} : SameJob(q)
  BY EndsCalm DEF Revoke, End, TypeOK
<1>2. SetsColumn(i)
  BY DEF Revoke, SetsColumn
<1>3. Elsewhere
  BY <1>1 DEF Revoke, Elsewhere
<1> QED BY <1>1, <1>2, <1>3, ColumnSet DEF Revoke, Quiet

LEMMA Operating ==
  ASSUME TypeOK
  PROVE  /\ \A p \in Phone : OperatorInvite(p) => Invites(p) /\ Elsewhere /\ job' \in [Request -> JobState]
         /\ \A p \in Phone : OperatorRemove(p) => Removes(p) /\ Elsewhere /\ job' \in [Request -> JobState]
         /\ \A i \in DOMAIN users : OperatorRevoke(i) \/ OperatorPromote(i)
              => SetsColumn(i) /\ Quiet /\ Elsewhere /\ job' \in [Request -> JobState]
<1>1. ASSUME NEW p \in Phone, OperatorInvite(p) PROVE Invites(p) /\ Elsewhere /\ job' \in [Request -> JobState]
  BY <1>1, StaysCalm DEF OperatorInvite, Invites, Elsewhere, TypeOK
<1>2. ASSUME NEW p \in Phone, OperatorRemove(p) PROVE Removes(p) /\ Elsewhere /\ job' \in [Request -> JobState]
  BY <1>2, RowGoneCalm DEF OperatorRemove, Removes, Elsewhere, TypeOK
<1>3. ASSUME NEW i \in DOMAIN users, OperatorRevoke(i) \/ OperatorPromote(i)
      PROVE  SetsColumn(i) /\ Quiet /\ Elsewhere /\ job' \in [Request -> JobState]
  <2>1. SetsColumn(i) /\ UNCHANGED <<allowed, uses, job, lastId, initialized, cuts, uninvited>>
    BY <1>3 DEF OperatorRevoke, OperatorPromote, SetsColumn
  <2> QED BY <2>1, ColumnSet, StaysCalm DEF Quiet, Elsewhere, TypeOK
<1> QED BY <1>1, <1>2, <1>3

(* The commit of a deletion.                                               *)
LEMMA Deleting ==
  ASSUME TypeOK, NEW r \in Request, DeleteUser(r)
  PROVE  /\ job' \in [Request -> JobState] /\ \A q \in Request : Calm(q)
         /\ \A q \in Request \ {r} : SameJob(q)
         /\ job[r].had => \A q \in Request : Saw(q, job[r].phone) => job'[q].late \/ job'[q].pc = "idle"
         /\ \A q \in Request \ {r} :
              job[q].op = "delete" /\ users[job[r].user].admin => job'[q].late \/ job'[q].pc = "idle"
         /\ job'[r].pc = "idle"
<1> DEFINE j == job[r]
           ended == [job EXCEPT ![r] = Idle]
           told == [q \in Request |->
                      IF job[q].op = "delete" /\ users[j.user].admin /\ q # r
                        THEN [ended[q] EXCEPT !.late = TRUE] ELSE ended[q]]
<1>1. ended \in [Request -> JobState] /\ ended[r] = Idle /\ \A q \in Request \ {r} : ended[q] = job[q]
  BY IdleIsAJob DEF TypeOK
<1> HIDE DEF ended
<1>2. told \in [Request -> JobState]
  BY <1>1, LateIsAJob
<1>3. told[r] = Idle
  BY <1>1
<1>4. ASSUME NEW q \in Request \ {r}
      PROVE  /\ told[q].pc = job[q].pc /\ told[q].op = job[q].op /\ told[q].user = job[q].user
             /\ told[q].phone = job[q].phone /\ told[q].admin = job[q].admin /\ told[q].row = job[q].row
             /\ told[q].had = job[q].had
             /\ (job[q].late => told[q].late)
             /\ (job[q].op = "delete" /\ users[j.user].admin => told[q].late)
  <2>1. job[q] \in JobState
    BY DEF TypeOK
  <2>2. told[q] = IF job[q].op = "delete" /\ users[j.user].admin
                    THEN [job[q] EXCEPT !.late = TRUE] ELSE job[q]
    BY <1>1
  <2> QED BY <2>1, <2>2 DEF JobState
<1>5. job' = IF j.had THEN RowGone(j.phone, told) ELSE told
  BY DEF DeleteUser, ended
<1> HIDE DEF told
<1>6. job' \in [Request -> JobState]
  BY <1>2, <1>5, RowGoneJobs
<1>7. ASSUME NEW q \in Request
      PROVE  /\ job'[q].pc = told[q].pc /\ job'[q].op = told[q].op /\ job'[q].user = told[q].user
             /\ job'[q].phone = told[q].phone /\ job'[q].admin = told[q].admin /\ job'[q].row = told[q].row
             /\ job'[q].had = told[q].had /\ (told[q].late => job'[q].late)
             /\ (j.had /\ Saw(q, j.phone) => job'[q].late)
  <2>1. CASE j.had
    BY <1>2, <1>5, <2>1, RowGoneJobs
  <2>2. CASE ~j.had
    BY <1>5, <2>2
  <2> QED BY <2>1, <2>2
<1>8. job'[r].pc = "idle"
  BY <1>3, <1>7 DEF Idle
<1>9. ASSUME NEW q \in Request \ {r}
      PROVE  SameJob(q) /\ (job[q].op = "delete" /\ users[j.user].admin => job'[q].late)
  BY <1>4, <1>7 DEF SameJob
<1> QED BY <1>6, <1>7, <1>8, <1>9 DEF Calm

----------------------------------------------------------------------------
(* The step as a whole.                                                    *)
Known(r) ==
  \/ \E p \in Phone : ReadInitialized(r, p)
  \/ ReadAllowed(r) \/ ReadRegistered(r) \/ CheckOtherAdmin(r) \/ DeleteInvite(r) \/ Cut(r)
  \/ \E i \in DOMAIN users, op \in {"invite", "remove", "revoke", "delete"} : Authenticate(r, i, op)

LEMMA KnownReads ==
  ASSUME TypeOK, NEW r \in Request, Known(r)
  PROVE  cuts' \in 0..MaxCuts /\ cuts' >= cuts /\ \E j : Reads(r, j)
<1>1. cuts \in 0..MaxCuts /\ cuts \in Nat
  BY ConstantsAssumption DEF TypeOK
<1>2. CASE Cut(r)
  BY <1>1, <1>2, IsCut
<1>3. CASE ~Cut(r)
  <2>1. ASSUME NEW p \in Phone, ReadInitialized(r, p) PROVE cuts' = cuts /\ \E j : Reads(r, j)
    BY <2>1, Starts
  <2>2. ASSUME ReadAllowed(r) \/ ReadRegistered(r) PROVE cuts' = cuts /\ \E j : Reads(r, j)
    BY <2>2, LooksUp, Decides
  <2>3. ASSUME CheckOtherAdmin(r) PROVE cuts' = cuts /\ \E j : Reads(r, j)
    BY <2>3, Checks
  <2>4. ASSUME DeleteInvite(r) PROVE cuts' = cuts /\ \E j : Reads(r, j)
    BY <2>4, Locks
  <2>5. ASSUME NEW i \in DOMAIN users, NEW op \in {"invite", "remove", "revoke", "delete"},
               Authenticate(r, i, op)
        PROVE  cuts' = cuts /\ \E j : Reads(r, j)
    BY <2>5, Authenticates
  <2> QED BY <1>1, <1>3, <2>1, <2>2, <2>3, <2>4, <2>5 DEF Known
<1> QED BY <1>2, <1>3

LEMMA Steps ==
  ASSUME TypeOK, Next
  PROVE  \/ \E r \in Request : Known(r) \/ SignsUp(r) \/ DeleteUser(r)
         \/ Quiet
         \/ \E p \in Phone : Invites(p) \/ Removes(p)
<1>1. ASSUME NEW r \in Request, Step(r) PROVE Known(r) \/ SignsUp(r) \/ DeleteUser(r) \/ Quiet
  BY <1>1, MarkIsQuiet, Creating DEF Step, Known
<1>2. ASSUME NEW r \in Request, NEW p \in Phone,
             ReadInitialized(r, p) \/ UploadContact(r, p) \/ RemoveAllowed(r, p)
      PROVE  Known(r) \/ Quiet \/ Invites(p) \/ Removes(p)
  BY <1>2, Uploading, Removing DEF Known
<1>3. ASSUME NEW r \in Request, NEW i \in DOMAIN users,
             Revoke(r, i) \/ \E op \in {"invite", "remove", "revoke", "delete"} : Authenticate(r, i, op)
      PROVE  Quiet \/ Known(r)
  BY <1>3, Revoking DEF Known
<1> QED BY <1>1, <1>2, <1>3, Operating DEF Next

LEMMA StepsElsewhere ==
  ASSUME TypeOK, Next
  PROVE  Elsewhere \/ \E r \in Request : Known(r) \/ SignsUp(r) \/ Mark(r)
<1>1. ASSUME NEW r \in Request, DeleteUser(r) PROVE Elsewhere
  BY <1>1, Deleting DEF DeleteUser, Elsewhere
<1>2. ASSUME NEW r \in Request, Step(r) PROVE Elsewhere \/ Known(r) \/ SignsUp(r) \/ Mark(r)
  BY <1>1, <1>2, Creating DEF Step, Known
<1>3. ASSUME NEW r \in Request, NEW p \in Phone,
             ReadInitialized(r, p) \/ UploadContact(r, p) \/ RemoveAllowed(r, p)
      PROVE  Known(r) \/ Elsewhere
  BY <1>3, Uploading, Removing DEF Known
<1>4. ASSUME NEW r \in Request, NEW i \in DOMAIN users,
             Revoke(r, i) \/ \E op \in {"invite", "remove", "revoke", "delete"} : Authenticate(r, i, op)
      PROVE  Known(r) \/ Elsewhere
  BY <1>4, Revoking DEF Known
<1> QED BY <1>2, <1>3, <1>4, Operating DEF Next

----------------------------------------------------------------------------
(* Types, and the phase a request is in.                                   *)
LEMMA TypesInit == Init => Types
<1> SUFFICES ASSUME Init PROVE Types
  OBVIOUS
<1>1. job \in [Request -> JobState] /\ uses \in [Phone -> Nat]
  BY IdleIsAJob DEF Init
<1>2. DOMAIN users = {} /\ users \in [DOMAIN users -> User]
  BY DEF Init
<1>3. DOMAIN allowed = {} /\ allowed \in [DOMAIN allowed -> BOOLEAN]
  BY DEF Init
<1>4. /\ initialized = FALSE /\ lastId = 0 /\ invites = 0 /\ cuts = 0 /\ uninvited = 0
  BY DEF Init
<1>5. /\ lastId \in 0..MaxAccounts /\ invites \in 0..MaxInvites
      /\ cuts \in 0..MaxCuts /\ uninvited \in 0..MaxAccounts /\ uninvited <= lastId
  BY <1>4, ConstantsAssumption
<1>8. initialized \in BOOLEAN
  BY <1>4
<1>6. \A i, k \in DOMAIN users : users[i].phone = users[k].phone => i = k
  BY <1>2
<1>7. DOMAIN users \subseteq 1..lastId /\ DOMAIN allowed \subseteq Phone
  BY <1>2, <1>3
<1> QED BY <1>1, <1>2, <1>3, <1>5, <1>6, <1>7, <1>8 DEF Types, TypeOK

LEMMA TypesDelete == ASSUME Types, NEW r \in Request, DeleteUser(r) PROVE Types'
<1>1. job' \in [Request -> JobState]
  BY Deleting DEF Types
<1>2. /\ users' = Without(users, {job[r].user})
      /\ UNCHANGED allowed \/ allowed' = Without(allowed, {job[r].phone})
      /\ UNCHANGED <<initialized, lastId, invites, cuts, uses, uninvited>>
  BY DEF DeleteUser
<1>3. DOMAIN users' \subseteq DOMAIN users /\ \A i \in DOMAIN users' : users'[i] = users[i]
  BY <1>2 DEF Without
<1>4. users' \in [DOMAIN users' -> User]
  BY <1>2 DEF Without, Types, TypeOK
<1>5. DOMAIN allowed' \subseteq Phone /\ allowed' \in [DOMAIN allowed' -> BOOLEAN]
  BY <1>2 DEF Without, Types, TypeOK
<1> QED BY <1>1, <1>2, <1>3, <1>4, <1>5 DEF Types, TypeOK

LEMMA TypesStep == ASSUME Types, JobsOK, Next PROVE Types'
<1>1. ASSUME NEW r \in Request, Known(r) PROVE Types'
  BY <1>1, KnownReads, TypesReads DEF Types
<1>2. ASSUME NEW r \in Request, Step(r) PROVE Types'
  <2>1. job[r].pc = "create" => job[r].phone \in Phone
    BY DEF JobsOK, JobOK
  <2>2. CreateUser(r) => Types'
    BY <2>1, TypesCreate DEF CreateUser
  <2> QED BY <1>1, <1>2, <2>2, TypesMark, TypesDelete DEF Step, Known
<1>3. ASSUME NEW r \in Request, NEW p \in Phone, UploadContact(r, p) \/ RemoveAllowed(r, p) PROVE Types'
  <2>1. job' \in [Request -> JobState]
    BY <1>3, Uploading, Removing DEF Types
  <2>2. CASE UploadContact(r, p) /\ UNCHANGED <<allowed, invites, uses>>
    BY <2>1, <2>2 DEF UploadContact, Types, TypeOK
  <2>3. CASE UploadContact(r, p) /\ AddAllowedPhone(p)
    BY <2>1, <2>3, TypesAdd DEF UploadContact
  <2>4. CASE RemoveAllowed(r, p)
    BY <2>1, <2>4, TypesRemove DEF RemoveAllowed
  <2> QED BY <1>3, <2>2, <2>3, <2>4 DEF UploadContact
<1>4. ASSUME NEW r \in Request, NEW i \in DOMAIN users, Revoke(r, i) PROVE Types'
  <2>1. job' \in [Request -> JobState] /\ SetsColumn(i)
    BY <1>4, Revoking DEF Types
  <2> QED BY <1>4, <2>1, TypesColumn DEF Revoke
<1>5. ASSUME NEW p \in Phone, OperatorInvite(p) \/ OperatorRemove(p) PROVE Types'
  <2>1. job' \in [Request -> JobState]
    BY <1>5, Operating DEF Types
  <2> QED BY <1>5, <2>1, TypesAdd, TypesRemove DEF OperatorInvite, OperatorRemove
<1>6. ASSUME NEW i \in DOMAIN users, OperatorRevoke(i) \/ OperatorPromote(i) PROVE Types'
  <2>1. job' \in [Request -> JobState] /\ SetsColumn(i)
    BY <1>6, Operating DEF Types
  <2> QED BY <1>6, <2>1, TypesColumn DEF OperatorRevoke, OperatorPromote
<1> QED BY <1>1, <1>2, <1>3, <1>4, <1>5, <1>6 DEF Next, Known

LEMMA MovedFields ==
  ASSUME NEW j \in JobState
  PROVE  /\ \A pc : LET k == [j EXCEPT !.pc = pc] IN
              /\ k.pc = pc /\ k.op = j.op /\ k.user = j.user /\ k.phone = j.phone
              /\ k.admin = j.admin /\ k.row = j.row /\ k.had = j.had /\ k.late = j.late
         /\ \A row : LET k == [j EXCEPT !.pc = "registered", !.row = row] IN
              k.pc = "registered" /\ k.phone = j.phone /\ k.admin = j.admin /\ k.row = row /\ k.late = j.late
         /\ \A p, had : LET k == [j EXCEPT !.pc = "deleting", !.phone = p, !.had = had] IN
              /\ k.pc = "deleting" /\ k.phone = p /\ k.had = had /\ k.op = j.op /\ k.user = j.user
              /\ k.admin = j.admin /\ k.late = j.late
BY DEF JobState

LEMMA FirstFields ==
  /\ \A p : LET j == [Idle EXCEPT !.op = "signup", !.phone = p, !.pc = "allowed"]
                k == [j EXCEPT !.pc = "create", !.admin = TRUE]
            IN  /\ j.pc = "allowed" /\ j.phone = p /\ ~j.admin
                /\ k.pc = "create" /\ k.phone = p /\ k.admin /\ k.row = "none"
  /\ \A i, op, a : LET j == [Idle EXCEPT !.pc = "auth", !.op = op, !.user = i, !.admin = a]
                   IN  j.pc = "auth" /\ j.op = op /\ j.user = i /\ j.admin = a /\ ~j.late
BY DEF Idle

\* What a request that only reads knows next.
Begun(r) ==
  /\ job[r].pc = "idle" /\ job'[r].phone \in Phone
  /\ \/ job'[r].pc = "allowed" /\ ~job'[r].admin
     \/ job'[r].pc = "create" /\ job'[r].admin /\ job'[r].row = "none" /\ ~initialized
LookedUp(r) ==
  /\ job[r].pc = "allowed" /\ job'[r].pc = "registered" /\ job'[r].phone = job[r].phone
  /\ job'[r].admin = job[r].admin /\ job'[r].row = PhoneAllowed(job[r].phone)
Admitted(r) ==
  /\ job[r].pc = "registered" /\ job'[r].pc = "create" /\ job[r].row # "none"
  /\ job'[r].phone = job[r].phone /\ job'[r].admin = job[r].admin /\ job'[r].row = job[r].row
  /\ job'[r].late = job[r].late
Checked(r) ==
  /\ job[r].pc = "auth" /\ job'[r].pc = "checked" /\ job[r].op = "delete" /\ job'[r].op = "delete"
  /\ job'[r].user = job[r].user /\ job'[r].admin = job[r].admin /\ job'[r].late = job[r].late
  /\ job[r].admin => OtherAdminExists(job[r].user)
Locked(r) ==
  LET i == job[r].user IN
  /\ job[r].pc = "checked" /\ job'[r].pc = "deleting" /\ i \in DOMAIN users /\ ~BeingDeleted(i)
  /\ job'[r].phone = users[i].phone /\ job'[r].had = InviteOf(i) /\ job'[r].user = i
  /\ job'[r].op = job[r].op /\ job'[r].admin = job[r].admin /\ job'[r].late = job[r].late
Progress(r) ==
  \/ job'[r].pc \in {"idle", "auth"} \/ Begun(r) \/ LookedUp(r) \/ Admitted(r) \/ Checked(r) \/ Locked(r)

LEMMA KnownFields ==
  ASSUME TypeOK, NEW r \in Request, Known(r)
  PROVE  /\ UNCHANGED <<initialized, users, allowed, lastId, uses, uninvited>>
         /\ \A q \in Request \ {r} : job'[q] = job[q]
         /\ Progress(r)
<1> DEFINE Frame == /\ UNCHANGED <<initialized, users, allowed, lastId, uses, uninvited>>
                    /\ \A q \in Request \ {r} : job'[q] = job[q]
<1>1. ASSUME NEW j, Reads(r, j) PROVE Frame /\ job'[r] = j
  BY <1>1, JobMoves DEF Reads, TypeOK
<1>2. job[r] \in JobState
  BY DEF TypeOK
<1>3. ASSUME NEW p \in Phone, ReadInitialized(r, p) PROVE Frame /\ Begun(r)
  <2> DEFINE j == [Idle EXCEPT !.op = "signup", !.phone = p, !.pc = "allowed"]
             k == [j EXCEPT !.pc = "create", !.admin = TRUE]
  <2>1. Reads(r, IF initialized THEN j ELSE k) /\ job[r].pc = "idle"
    BY <1>3, Starts DEF ReadInitialized
  <2>2. /\ j.pc = "allowed" /\ j.phone = p /\ ~j.admin
        /\ k.pc = "create" /\ k.phone = p /\ k.admin /\ k.row = "none"
    BY FirstFields
  <2> HIDE DEF j, k
  <2> QED BY <1>1, <2>1, <2>2 DEF Begun
<1>4. ASSUME ReadAllowed(r) PROVE Frame /\ LookedUp(r)
  <2> DEFINE k == [job[r] EXCEPT !.pc = "registered", !.row = PhoneAllowed(job[r].phone)]
  <2>1. Reads(r, k) /\ job[r].pc = "allowed"
    BY <1>4, LooksUp DEF ReadAllowed
  <2>2. /\ k.pc = "registered" /\ k.phone = job[r].phone /\ k.admin = job[r].admin
        /\ k.row = PhoneAllowed(job[r].phone)
    BY <1>2, MovedFields
  <2> HIDE DEF k
  <2> QED BY <1>1, <2>1, <2>2 DEF LookedUp
<1>5. ASSUME ReadRegistered(r) PROVE Frame /\ (job'[r].pc = "idle" \/ Admitted(r))
  <2> DEFINE k == [job[r] EXCEPT !.pc = "create"]
  <2>1. /\ Reads(r, IF InviteStateFor(job[r].row, PhoneRegistered(job[r].phone)) = "open" THEN k ELSE Idle)
        /\ job[r].pc = "registered"
    BY <1>5, Decides DEF ReadRegistered
  <2>2. /\ k.pc = "create" /\ k.phone = job[r].phone /\ k.admin = job[r].admin
        /\ k.row = job[r].row /\ k.late = job[r].late
    BY <1>2, MovedFields
  <2> HIDE DEF k
  <2>3. CASE InviteStateFor(job[r].row, PhoneRegistered(job[r].phone)) = "open"
    <3>1. job[r].row # "none"
      BY <2>3 DEF InviteStateFor
    <3> QED BY <1>1, <2>1, <2>2, <2>3, <3>1 DEF Admitted
  <2>4. CASE InviteStateFor(job[r].row, PhoneRegistered(job[r].phone)) # "open"
    BY <1>1, <2>1, <2>4 DEF Idle
  <2> QED BY <2>3, <2>4
<1>6. ASSUME CheckOtherAdmin(r) PROVE Frame /\ (job'[r].pc = "idle" \/ Checked(r))
  <2> DEFINE k == [job[r] EXCEPT !.pc = "checked"]
  <2>1. /\ Reads(r, IF job[r].admin => OtherAdminExists(job[r].user) THEN k ELSE Idle)
        /\ job[r].pc = "auth" /\ job[r].op = "delete"
    BY <1>6, Checks DEF CheckOtherAdmin
  <2>2. /\ k.pc = "checked" /\ k.op = job[r].op /\ k.user = job[r].user /\ k.admin = job[r].admin
        /\ k.late = job[r].late
    BY <1>2, MovedFields
  <2> HIDE DEF k
  <2>3. CASE job[r].admin => OtherAdminExists(job[r].user)
    BY <1>1, <2>1, <2>2, <2>3 DEF Checked
  <2>4. CASE ~(job[r].admin => OtherAdminExists(job[r].user))
    BY <1>1, <2>1, <2>4 DEF Idle
  <2> QED BY <2>3, <2>4
<1>7. ASSUME DeleteInvite(r) PROVE Frame /\ (job'[r].pc = "idle" \/ Locked(r))
  <2> DEFINE i == job[r].user
             k == [job[r] EXCEPT !.pc = "deleting", !.phone = users[i].phone, !.had = InviteOf(i)]
  <2>1. Reads(r, IF i \in DOMAIN users THEN k ELSE Idle) /\ job[r].pc = "checked"
    BY <1>7, Locks DEF DeleteInvite
  <2>2. i \in DOMAIN users => ~BeingDeleted(i)
    BY <1>7 DEF DeleteInvite
  <2>3. /\ k.pc = "deleting" /\ k.phone = users[i].phone /\ k.had = InviteOf(i) /\ k.op = job[r].op
        /\ k.user = job[r].user /\ k.admin = job[r].admin /\ k.late = job[r].late
    BY <1>2, MovedFields
  <2> HIDE DEF k
  <2>4. CASE i \in DOMAIN users
    BY <1>1, <2>1, <2>2, <2>3, <2>4 DEF Locked
  <2>5. CASE i \notin DOMAIN users
    BY <1>1, <2>1, <2>5 DEF Idle
  <2> QED BY <2>4, <2>5
<1>8. ASSUME Cut(r) PROVE Frame /\ job'[r].pc = "idle"
  BY <1>1, <1>8, IsCut DEF Idle
<1>9. ASSUME NEW i \in DOMAIN users, NEW op \in {"invite", "remove", "revoke", "delete"}, Authenticate(r, i, op)
      PROVE  Frame /\ job'[r].pc = "auth"
  <2> DEFINE k == [Idle EXCEPT !.pc = "auth", !.op = op, !.user = i, !.admin = users[i].admin]
  <2>1. Reads(r, k)
    BY <1>9, Authenticates
  <2>2. k.pc = "auth"
    BY FirstFields
  <2> HIDE DEF k
  <2> QED BY <1>1, <2>1, <2>2
<1> HIDE DEF Frame
<1>10. Frame /\ Progress(r)
  BY <1>3, <1>4, <1>5, <1>6, <1>7, <1>8, <1>9 DEF Known, Progress
<1> QED BY <1>10 DEF Frame

LEMMA SignsUpFields ==
  ASSUME TypeOK, NEW r \in Request, SignsUp(r)
  PROVE  /\ \A q \in Request \ {r} : job'[q] = job[q]
         /\ job'[r].pc = "mark" /\ job'[r].phone = job[r].phone /\ job'[r].admin = job[r].admin
<1> DEFINE k == [job[r] EXCEPT !.pc = "mark"]
<1>1. job[r] \in JobState
  BY DEF TypeOK
<1>2. k \in JobState /\ k.pc = "mark" /\ k.phone = job[r].phone /\ k.admin = job[r].admin
  <2>1. k \in JobState
    BY <1>1, StepIsAJob
  <2>2. k.pc = "mark" /\ k.phone = job[r].phone /\ k.admin = job[r].admin
    BY <1>1, MovedFields
  <2> QED BY <2>1, <2>2
<1>3. Set(r, k)
  BY DEF SignsUp
<1> HIDE DEF k
<1> QED BY <1>2, <1>3, JobMoves DEF TypeOK

LEMMA JobsStep == ASSUME Types, JobsOK, Next PROVE JobsOK'
<1>1. ASSUME NEW q \in Request, Calm(q) PROVE JobOK(job'[q])
  BY <1>1 DEF JobsOK, JobOK, Calm, SameJob
<1>2. ASSUME NEW r \in Request, Known(r) PROVE JobsOK'
  <2>1. Progress(r) /\ \A q \in Request \ {r} : job'[q] = job[q]
    BY <1>2, KnownFields DEF Types
  <2>2. JobOK(job'[r])
    BY <2>1 DEF Progress, Begun, LookedUp, Admitted, Checked, Locked, JobsOK, JobOK
  <2> QED BY <2>1, <2>2 DEF JobsOK
<1>3. ASSUME NEW r \in Request, SignsUp(r) PROVE JobsOK'
  <2>1. job'[r].pc = "mark" /\ job'[r].phone = job[r].phone /\ job[r].pc = "create"
    BY <1>3, SignsUpFields DEF Types, SignsUp
  <2>2. JobOK(job'[r])
    BY <2>1 DEF JobsOK, JobOK
  <2> QED BY <1>3, <2>2, SignsUpFields DEF Types, JobsOK
<1>4. ASSUME \A q \in Request : Calm(q) PROVE JobsOK'
  BY <1>1, <1>4 DEF JobsOK
<1> QED BY <1>2, <1>3, <1>4, Steps, Deleting DEF Types, Quiet, Invites, Removes

----------------------------------------------------------------------------
(* Invites: who has seen an entry that is still there, what deletions in   *)
(* flight are about, and what an entry that was used is held by.           *)
SawFresh == \A q \in Request, p \in Phone : Saw(q, p) /\ ~job[q].late => p \in DOMAIN allowed
Deletion(q) == job[q].pc = "deleting"
Deletions ==
  /\ \A q \in Request : Deletion(q) => job[q].user \in DOMAIN users /\ users[job[q].user].phone = job[q].phone
  /\ \A q, r \in Request : Deletion(q) /\ Deletion(r) /\ job[q].user = job[r].user => q = r
Unused ==
  \A q \in Request : Deletion(q) /\ ~job[q].had /\ job[q].phone \in DOMAIN allowed => uses[job[q].phone] = 0
UsedIsHeld == \A p \in DOMAIN allowed : uses[p] = 0 \/ PhoneRegistered(p)
Admissions == SawFresh /\ Deletions /\ Unused /\ UsedIsHeld /\ InviteAdmitsOne

LEMMA AdmissionsInit == Init => Admissions
BY DEF Init, Admissions, SawFresh, Saw, Deletions, Deletion, Unused, UsedIsHeld, InviteAdmitsOne, Idle

\* Calm requests see, and are deleting, no more than before.
LEMMA CalmSees ==
  ASSUME NEW q \in Request, Calm(q), NEW p
  PROVE  /\ Saw(q, p)' /\ ~job'[q].late => Saw(q, p) /\ ~job[q].late
         /\ Deletion(q)' => /\ Deletion(q) /\ job'[q].user = job[q].user /\ job'[q].phone = job[q].phone
                            /\ job'[q].had = job[q].had
BY DEF Calm, SameJob, Saw, Deletion

LEMMA AdmissionsQuiet == ASSUME Types, Admissions, Quiet PROVE Admissions'
<1>1. SawFresh'
  BY CalmSees DEF Quiet, Admissions, SawFresh
<1>2. Deletions'
  BY CalmSees DEF Quiet, Admissions, Deletions
<1>3. Unused'
  BY CalmSees DEF Quiet, Admissions, Unused
<1>4. UsedIsHeld'
  BY DEF Quiet, Admissions, UsedIsHeld, PhoneRegistered
<1> QED BY <1>1, <1>2, <1>3, <1>4 DEF Quiet, Admissions, InviteAdmitsOne

LEMMA AdmissionsInvite == ASSUME Types, Admissions, NEW p \in Phone, Invites(p) PROVE Admissions'
<1>1. DOMAIN allowed' = DOMAIN allowed \cup {p} /\ UNCHANGED users /\ \A q \in Request : Calm(q)
  BY DEF Invites, AddAllowedPhone, With
<1>2. uses'[p] = 0 /\ \A x \in Phone \ {p} : uses'[x] = uses[x]
  BY DEF Invites, AddAllowedPhone, Types, TypeOK
<1>3. SawFresh'
  BY <1>1, CalmSees DEF Admissions, SawFresh
<1>4. Deletions'
  BY <1>1, CalmSees DEF Admissions, Deletions
<1>5. Unused'
  <2> SUFFICES ASSUME NEW q \in Request, Deletion(q)', ~job'[q].had, job'[q].phone \in DOMAIN allowed'
               PROVE  uses'[job'[q].phone] = 0
    BY DEF Unused
  <2>1. Deletion(q) /\ job'[q].phone = job[q].phone /\ ~job[q].had
    BY <1>1, CalmSees
  <2>2. job[q].phone \in DOMAIN allowed \cup {p} /\ DOMAIN allowed \subseteq Phone
    BY <1>1, <2>1 DEF Types, TypeOK
  <2> QED BY <1>2, <2>1, <2>2 DEF Admissions, Unused
<1>6. UsedIsHeld'
  BY <1>1, <1>2 DEF Admissions, UsedIsHeld, PhoneRegistered, Types, TypeOK
<1>7. InviteAdmitsOne'
  BY <1>2 DEF Admissions, InviteAdmitsOne
<1> QED BY <1>3, <1>4, <1>5, <1>6, <1>7 DEF Admissions

LEMMA AdmissionsRemove == ASSUME Types, Admissions, NEW p \in Phone, Removes(p) PROVE Admissions'
<1>1. DOMAIN allowed' = DOMAIN allowed \ {p} /\ UNCHANGED <<users, uses>> /\ \A q \in Request : Calm(q)
  BY DEF Removes, Without
<1>2. \A q \in Request : Saw(q, p)' => job'[q].late
  BY DEF Removes, Saw, Calm, SameJob
<1>3. SawFresh'
  <2> SUFFICES ASSUME NEW q \in Request, NEW x \in Phone, Saw(q, x)', ~job'[q].late PROVE x \in DOMAIN allowed'
    BY DEF SawFresh
  <2>1. Saw(q, x) /\ ~job[q].late /\ x # p
    BY <1>1, <1>2, CalmSees
  <2> QED BY <1>1, <2>1 DEF Admissions, SawFresh
<1>4. Deletions'
  BY <1>1, CalmSees DEF Admissions, Deletions
<1>5. Unused'
  BY <1>1, CalmSees DEF Admissions, Unused
<1>6. UsedIsHeld'
  BY <1>1 DEF Admissions, UsedIsHeld, PhoneRegistered
<1> QED BY <1>1, <1>3, <1>4, <1>5, <1>6 DEF Admissions, InviteAdmitsOne

LEMMA AdmissionsKnown == ASSUME Types, JobsOK, Admissions, NEW r \in Request, Known(r) PROVE Admissions'
<1>1. /\ UNCHANGED <<users, allowed, uses>> /\ Progress(r)
      /\ \A q \in Request \ {r} : job'[q] = job[q]
  BY KnownFields DEF Types
<1>2. \A q \in Request \ {r} : (Deletion(q)' <=> Deletion(q)) /\ \A p : Saw(q, p)' <=> Saw(q, p)
  BY <1>1 DEF Deletion, Saw
<1>3. ASSUME NEW p \in Phone, Saw(r, p)', ~job'[r].late PROVE p \in DOMAIN allowed
  <2>1. LookedUp(r) \/ Admitted(r)
    BY <1>1, <1>3 DEF Saw, Progress, Begun, Checked, Locked
  <2>2. CASE LookedUp(r)
    BY <1>3, <2>2 DEF Saw, LookedUp, PhoneAllowed
  <2>3. CASE Admitted(r)
    <3>1. Saw(r, p) /\ ~job[r].late
      BY <1>3, <2>3 DEF Saw, Admitted
    <3> QED BY <3>1 DEF Admissions, SawFresh
  <2> QED BY <2>1, <2>2, <2>3
<1>4. SawFresh'
  BY <1>1, <1>2, <1>3 DEF Admissions, SawFresh
<1>5. Deletion(r)' => Locked(r)
  BY <1>1 DEF Deletion, Progress, Begun, LookedUp, Admitted, Checked
<1>6. Deletions'
  <2>1. ASSUME NEW q \in Request, Deletion(q)'
        PROVE  job'[q].user \in DOMAIN users /\ users[job'[q].user].phone = job'[q].phone
    BY <2>1, <1>1, <1>2, <1>5 DEF Admissions, Deletions, Locked
  <2>2. ASSUME NEW q \in Request, NEW s \in Request, Deletion(q)', Deletion(s)', job'[q].user = job'[s].user
        PROVE  q = s
    BY <2>2, <1>1, <1>2, <1>5 DEF Admissions, Deletions, Deletion, Locked, BeingDeleted
  <2> QED BY <1>1, <2>1, <2>2 DEF Deletions
<1>7. Unused'
  <2> SUFFICES ASSUME NEW q \in Request, Deletion(q)', ~job'[q].had, job'[q].phone \in DOMAIN allowed'
               PROVE  uses'[job'[q].phone] = 0
    BY DEF Unused
  <2>1. CASE q = r
    BY <1>1, <1>5, <2>1 DEF Locked, InviteOf
  <2>2. CASE q # r
    BY <1>1, <1>2, <2>2 DEF Admissions, Unused
  <2> QED BY <2>1, <2>2
<1>8. UsedIsHeld' /\ InviteAdmitsOne'
  BY <1>1 DEF Admissions, UsedIsHeld, InviteAdmitsOne, PhoneRegistered
<1> QED BY <1>4, <1>6, <1>7, <1>8 DEF Admissions

LEMMA AdmissionsSignUp == ASSUME Types, JobsOK, Admissions, NEW r \in Request, SignsUp(r) PROVE Admissions'
<1> DEFINE p == job[r].phone
           n == lastId + 1
           u == [phone |-> p, admin |-> job[r].admin, active |-> TRUE]
<1>1. /\ job'[r].pc = "mark" /\ \A q \in Request \ {r} : job'[q] = job[q]
      /\ UNCHANGED allowed /\ p \in Phone /\ ~PhoneRegistered(p)
  BY SignsUpFields DEF SignsUp, PhoneFree, Types, JobsOK, JobOK
<1>2. users' = With(users, n, u) /\ n \notin DOMAIN users
  BY ConstantsAssumption DEF SignsUp, Types, TypeOK
<1>3. /\ DOMAIN users' = DOMAIN users \cup {n} /\ users'[n].phone = p
      /\ \A i \in DOMAIN users : users'[i] = users[i]
  BY <1>2 DEF With
<1>4. \A q \in Request : /\ Deletion(q)' => q # r /\ Deletion(q)
                         /\ \A x \in Phone : Saw(q, x)' => q # r /\ Saw(q, x)
  BY <1>1 DEF Deletion, Saw
<1>5. ~job[r].admin /\ ~job[r].late => p \in DOMAIN allowed /\ uses[p] = 0
  <2> SUFFICES ASSUME ~job[r].admin, ~job[r].late PROVE p \in DOMAIN allowed /\ uses[p] = 0
    OBVIOUS
  <2>1. Saw(r, p)
    BY DEF SignsUp, Saw, JobsOK, JobOK
  <2>2. p \in DOMAIN allowed
    BY <1>1, <2>1 DEF Admissions, SawFresh
  <2> QED BY <1>1, <2>2 DEF Admissions, UsedIsHeld
<1>6. \A x \in Phone : uses'[x] = uses[x] \/ (x = p /\ uses'[x] = 1)
  BY <1>1, <1>5 DEF SignsUp, Types, TypeOK
<1>7. SawFresh'
  BY <1>1, <1>4 DEF Admissions, SawFresh
<1>8. Deletions'
  BY <1>1, <1>3, <1>4 DEF Admissions, Deletions
<1>9. Unused'
  <2> SUFFICES ASSUME NEW q \in Request, Deletion(q)', ~job'[q].had, job'[q].phone \in DOMAIN allowed'
               PROVE  uses'[job'[q].phone] = 0
    BY DEF Unused
  <2>1. q # r /\ Deletion(q) /\ job'[q] = job[q]
    BY <1>1, <1>4
  <2>2. job[q].phone # p /\ job[q].phone \in Phone
    BY <1>1, <2>1 DEF Admissions, Deletions, PhoneRegistered, Types, TypeOK
  <2> QED BY <1>1, <1>6, <2>1, <2>2 DEF Admissions, Unused
<1>10. UsedIsHeld'
  <2> SUFFICES ASSUME NEW x \in DOMAIN allowed PROVE uses'[x] = 0 \/ PhoneRegistered(x)'
    BY <1>1 DEF UsedIsHeld
  <2>1. (x = p => PhoneRegistered(x)') /\ (PhoneRegistered(x) => PhoneRegistered(x)')
    BY <1>3 DEF PhoneRegistered
  <2>2. x \in Phone
    BY DEF Types, TypeOK
  <2> QED BY <1>6, <2>1, <2>2 DEF Admissions, UsedIsHeld
<1>11. InviteAdmitsOne'
  BY <1>6 DEF Admissions, InviteAdmitsOne
<1> QED BY <1>7, <1>8, <1>9, <1>10, <1>11 DEF Admissions

LEMMA AdmissionsDelete == ASSUME Types, Admissions, NEW r \in Request, DeleteUser(r) PROVE Admissions'
<1> DEFINE i == job[r].user
           p == job[r].phone
<1>1. /\ job'[r].pc = "idle" /\ \A q \in Request : Calm(q)
      /\ job[r].had => \A q \in Request : Saw(q, p) => job'[q].late \/ job'[q].pc = "idle"
  BY Deleting DEF Types
<1>2. Deletion(r) /\ i \in DOMAIN users /\ users[i].phone = p
  BY DEF DeleteUser, Deletion, Admissions, Deletions
<1>3. /\ DOMAIN users' = DOMAIN users \ {i} /\ \A k \in DOMAIN users' : users'[k] = users[k]
      /\ uses' = uses
      /\ DOMAIN allowed' = IF job[r].had THEN DOMAIN allowed \ {p} ELSE DOMAIN allowed
  BY DEF DeleteUser, Without
<1>4. ASSUME NEW q \in Request, NEW x \in Phone, Saw(q, x)', ~job'[q].late PROVE x \in DOMAIN allowed'
  <2>1. x \in DOMAIN allowed /\ Saw(q, x)
    BY <1>1, <1>4, CalmSees DEF Admissions, SawFresh
  <2>2. ~(job[r].had /\ x = p)
    BY <1>1, <1>4, <2>1 DEF Saw
  <2> QED BY <1>3, <2>1, <2>2
<1>5. SawFresh'
  BY <1>4 DEF SawFresh
<1>6. \A q \in Request : Deletion(q)' =>
        /\ q # r /\ Deletion(q) /\ job'[q].user = job[q].user /\ job'[q].phone = job[q].phone
        /\ job'[q].had = job[q].had /\ job[q].user # i
  BY <1>1, <1>2, CalmSees DEF Deletion, Admissions, Deletions
<1>7. Deletions'
  BY <1>3, <1>6 DEF Admissions, Deletions
<1>8. Unused'
  BY <1>3, <1>6 DEF Admissions, Unused
<1>9. UsedIsHeld'
  <2> SUFFICES ASSUME NEW x \in DOMAIN allowed' PROVE uses[x] = 0 \/ PhoneRegistered(x)'
    BY <1>3 DEF UsedIsHeld
  <2>1. x \in DOMAIN allowed /\ ~(job[r].had /\ x = p)
    BY <1>3
  <2>2. CASE x = p
    BY <1>2, <2>1, <2>2 DEF Admissions, Unused
  <2>3. CASE x # p
    BY <1>2, <1>3, <2>1, <2>3 DEF Admissions, UsedIsHeld, PhoneRegistered
  <2> QED BY <2>2, <2>3
<1> QED BY <1>3, <1>5, <1>7, <1>8, <1>9 DEF Admissions, InviteAdmitsOne

LEMMA AdmissionsStep == ASSUME Types, JobsOK, Admissions, Next PROVE Admissions'
BY Steps, AdmissionsQuiet, AdmissionsInvite, AdmissionsRemove, AdmissionsKnown, AdmissionsSignUp,
   AdmissionsDelete DEF Types

LEMMA JobsInit == Init => JobsOK
BY DEF Init, JobsOK, JobOK, Idle

\* What every invariant here rests on.
Base == Types /\ JobsOK

LEMMA BaseInit == Init => Base
BY TypesInit, JobsInit DEF Base

LEMMA BaseStep == ASSUME Base, [Next]_vars PROVE Base'
<1>1. CASE Next
  BY <1>1, TypesStep, JobsStep DEF Base
<1>2. CASE UNCHANGED vars
  BY <1>2 DEF vars, table, Base, Types, TypeOK, JobsOK, JobOK
<1> QED BY <1>1, <1>2

(* The member table, the invite list and every request are well typed,     *)
(* whatever signups, removals and deletions came before.                   *)
THEOREM TypeCorrect == Spec => []TypeOK
<1>1. Base => TypeOK
  BY DEF Base, Types
<1> QED BY <1>1, BaseInit, BaseStep, PTL DEF Spec

(* Signup and deletion: an entry of the invite list lets in at most one     *)
(* account in its life, signups that read it before its removal aside.     *)
THEOREM AnInviteAdmitsOne == Spec => []InviteAdmitsOne
<1>1. Init => Base /\ Admissions
  BY BaseInit, AdmissionsInit
<1>2. (Base /\ Admissions) /\ [Next]_vars => (Base /\ Admissions)'
  <2>1. ASSUME Base, Admissions, Next PROVE Admissions'
    BY <2>1, AdmissionsStep DEF Base
  <2>2. ASSUME Admissions, UNCHANGED vars PROVE Admissions'
    BY <2>2 DEF vars, table, Admissions, SawFresh, Saw, Deletions, Deletion, Unused, UsedIsHeld,
       InviteAdmitsOne, PhoneRegistered
  <2> QED BY <2>1, <2>2, BaseStep
<1>3. Base /\ Admissions => InviteAdmitsOne
  BY DEF Admissions
<1> QED BY <1>1, <1>2, <1>3, PTL DEF Spec

----------------------------------------------------------------------------
(* Administrators.                                                         *)
LastAdmin ==
  \A q \in Request : job[q].pc \in {"checked", "deleting"} /\ job[q].admin /\ ~job[q].late
    => OtherAdminExists(job[q].user)

LEMMA MoreAdmins ==
  ASSUME LastAdmin, \A q \in Request : Calm(q), Admins \subseteq Admins'
  PROVE  LastAdmin'
BY DEF LastAdmin, Calm, SameJob, OtherAdminExists

LEMMA AdminsGrow ==
  ASSUME TypeOK,
         \/ Quiet \/ UNCHANGED users \/ \E r \in Request : SignsUp(r)
  PROVE  Admins \subseteq Admins'
<1>1. CASE Quiet
  BY <1>1 DEF Quiet, Admins
<1>2. CASE UNCHANGED users
  BY <1>2 DEF Admins
<1>3. ASSUME NEW r \in Request, SignsUp(r) PROVE Admins \subseteq Admins'
  <2> DEFINE u == [phone |-> job[r].phone, admin |-> job[r].admin, active |-> TRUE]
  <2>1. users' = With(users, lastId + 1, u) /\ lastId + 1 \notin DOMAIN users
    BY <1>3, ConstantsAssumption DEF SignsUp, TypeOK
  <2> HIDE DEF u
  <2>2. DOMAIN users \subseteq DOMAIN users' /\ \A i \in DOMAIN users : users'[i] = users[i]
    BY <2>1 DEF With
  <2> QED BY <2>2 DEF Admins
<1> QED BY <1>1, <1>2, <1>3

LEMMA LastAdminStep == ASSUME Base, LastAdmin, Next PROVE LastAdmin'
<1>1. ASSUME NEW r \in Request, Known(r) PROVE LastAdmin'
  <2>1. UNCHANGED users /\ Progress(r) /\ \A q \in Request \ {r} : job'[q] = job[q]
    BY <1>1, KnownFields DEF Base, Types
  <2>2. ASSUME NEW q \in Request, job'[q].pc \in {"checked", "deleting"}, job'[q].admin, ~job'[q].late
        PROVE  OtherAdminExists(job'[q].user)
    <3>1. CASE q # r
      BY <2>1, <2>2, <3>1 DEF LastAdmin
    <3>2. CASE q = r
      BY <2>1, <2>2, <3>2 DEF LastAdmin, Progress, Begun, LookedUp, Admitted, Checked, Locked
    <3> QED BY <3>1, <3>2
  <2> QED BY <2>1, <2>2 DEF LastAdmin, OtherAdminExists, Admins
<1>2. ASSUME NEW r \in Request, SignsUp(r) PROVE LastAdmin'
  <2>1. job'[r].pc = "mark" /\ \A q \in Request \ {r} : job'[q] = job[q]
    BY <1>2, SignsUpFields DEF Base, Types
  <2>2. Admins \subseteq Admins'
    BY <1>2, AdminsGrow DEF Base, Types
  <2> QED BY <2>1, <2>2 DEF LastAdmin, OtherAdminExists
<1>3. ASSUME NEW r \in Request, DeleteUser(r) PROVE LastAdmin'
  <2> DEFINE i == job[r].user
  <2>1. /\ job'[r].pc = "idle" /\ \A q \in Request \ {r} : SameJob(q)
        /\ \A q \in Request \ {r} :
             job[q].op = "delete" /\ users[i].admin => job'[q].late \/ job'[q].pc = "idle"
    BY <1>3, Deleting DEF Base, Types
  <2>2. Admins' = Admins \ {i}
    BY <1>3 DEF DeleteUser, Without, Admins
  <2> SUFFICES ASSUME NEW q \in Request,
                      job'[q].pc \in {"checked", "deleting"}, job'[q].admin, ~job'[q].late
               PROVE  Admins' \ {job'[q].user} # {}
    BY DEF LastAdmin, OtherAdminExists
  <2>3. q # r /\ SameJob(q) /\ job[q].op = "delete"
    BY <2>1 DEF SameJob, Base, JobsOK, JobOK
  <2>4. i \notin Admins
    BY <2>1, <2>3 DEF Admins, SameJob
  <2> QED BY <2>2, <2>3, <2>4 DEF LastAdmin, OtherAdminExists, SameJob
<1>4. ASSUME Quiet \/ \E p \in Phone : Invites(p) \/ Removes(p) PROVE LastAdmin'
  <2>1. (\A q \in Request : Calm(q)) /\ (Quiet \/ UNCHANGED users)
    BY <1>4 DEF Quiet, Invites, Removes
  <2> QED BY <2>1, AdminsGrow, MoreAdmins DEF Base, Types
<1> QED BY <1>1, <1>2, <1>3, <1>4, Steps DEF Base, Types

(* handleDeleteAccount: an administrator's deletion of itself leaves an     *)
(* administrator, unless another's committed while it was in flight.       *)
THEOREM ADeletionLeavesAnAdmin == Spec => LastAdminKept
<1> DEFINE Left == \A r \in Request :
                     job[r].pc = "deleting" /\ job'[r].pc = "idle" /\ cuts' = cuts
                       /\ job[r].admin /\ ~job[r].late
                       => Admins' # {}
<1>1. Init => Base /\ LastAdmin
  BY BaseInit DEF Init, LastAdmin, Idle
<1>2. (Base /\ LastAdmin) /\ [Next]_vars => (Base /\ LastAdmin)'
  <2>1. ASSUME Base, LastAdmin, Next PROVE LastAdmin'
    BY <2>1, LastAdminStep
  <2>2. ASSUME LastAdmin, UNCHANGED vars PROVE LastAdmin'
    BY <2>2 DEF vars, table, LastAdmin, OtherAdminExists, Admins
  <2> QED BY <2>1, <2>2, BaseStep
<1>3. ASSUME Base, LastAdmin, Next PROVE Left
  <2>1. SUFFICES ASSUME NEW q \in Request, job[q].pc = "deleting", job'[q].pc = "idle",
                        job[q].admin, ~job[q].late
                 PROVE  Admins' # {}
    OBVIOUS
  <2>2. Admins \ {job[q].user} # {}
    BY <1>3, <2>1 DEF LastAdmin, OtherAdminExists
  <2>3. ASSUME NEW r \in Request, DeleteUser(r) PROVE Admins' # {}
    <3>1. q = r
      BY <1>3, <2>1, <2>3, Deleting DEF Base, Types, SameJob
    <3>2. Admins' = Admins \ {job[q].user}
      BY <2>3, <3>1 DEF DeleteUser, Without, Admins
    <3> QED BY <2>2, <3>2
  <2>4. ASSUME NEW r \in Request, Known(r) PROVE UNCHANGED users
    BY <1>3, <2>4, KnownFields DEF Base, Types
  <2>5. ASSUME NEW p \in Phone, Invites(p) \/ Removes(p) PROVE UNCHANGED users
    BY <2>5 DEF Invites, Removes
  <2>6. CASE Admins \subseteq Admins'
    BY <2>2, <2>6
  <2> QED BY <1>3, <2>3, <2>4, <2>5, <2>6, Steps, AdminsGrow DEF Base, Types
<1>4. (Base /\ LastAdmin) /\ [Next]_vars => [Left]_vars
  BY <1>3
<1> QED BY <1>1, <1>2, <1>4, PTL DEF Spec, LastAdminKept

----------------------------------------------------------------------------
(* The first signup: while the server is not initialized, whoever came in  *)
(* uninvited is about to mark it or was cut; once it is, only those that    *)
(* had begun may follow.                                                    *)
Marking == {q \in Request : job[q].pc = "mark" /\ job[q].admin}
Founding == {q \in Request : job[q].pc = "create" /\ job[q].admin}
Window ==
  /\ ~initialized => uninvited <= Cardinality(Marking) + cuts
  /\ initialized => uninvited + Cardinality(Founding) <= Cardinality(Request) + cuts

LEMMA Finite ==
  /\ IsFiniteSet(Marking) /\ IsFiniteSet(Founding) /\ IsFiniteSet(Marking') /\ IsFiniteSet(Founding')
  /\ Cardinality(Marking) \in Nat /\ Cardinality(Founding) \in Nat
  /\ Cardinality(Marking') \in Nat /\ Cardinality(Founding') \in Nat /\ Cardinality(Request) \in Nat
<1>1. Marking \subseteq Request /\ Founding \subseteq Request
      /\ Marking' \subseteq Request /\ Founding' \subseteq Request
  BY DEF Marking, Founding
<1>2. IsFiniteSet(Request)
  BY ConstantsAssumption
<1> QED BY <1>1, <1>2, FS_Subset, FS_CardinalityType

LEMMA Together == Cardinality(Marking) + Cardinality(Founding) <= Cardinality(Request)
<1>1. Marking \cap Founding = {} /\ Marking \cup Founding \subseteq Request
  BY DEF Marking, Founding
<1>2. Cardinality(Marking \cup Founding) = Cardinality(Marking) + Cardinality(Founding)
  <2>1. Cardinality(Marking \cup Founding)
          = Cardinality(Marking) + Cardinality(Founding) - Cardinality(Marking \cap Founding)
    BY Finite, FS_Union
  <2>2. Cardinality(Marking \cap Founding) = 0
    BY <1>1, FS_EmptySet
  <2> QED BY <2>1, <2>2, Finite
<1>3. Cardinality(Marking \cup Founding) <= Cardinality(Request)
  BY <1>1, FS_Subset, ConstantsAssumption
<1> QED BY <1>2, <1>3

LEMMA MoreMark ==
  ASSUME Marking \subseteq Marking' PROVE Cardinality(Marking) <= Cardinality(Marking')
BY Finite, FS_Subset

LEMMA FewerFound ==
  ASSUME Founding' \subseteq Founding PROVE Cardinality(Founding') <= Cardinality(Founding)
BY Finite, FS_Subset

LEMMA WindowIsBounded == ASSUME Types, Window PROVE FirstSignupWindow
<1>1. uninvited \in Nat /\ cuts \in Nat
  BY ConstantsAssumption DEF Types, TypeOK
<1>2. Cardinality(Marking) <= Cardinality(Request)
  BY Together, Finite
<1>3. CASE initialized
  BY <1>1, <1>3, Finite DEF Window, FirstSignupWindow
<1>4. CASE ~initialized
  BY <1>1, <1>2, <1>4, Finite DEF Window, FirstSignupWindow
<1> QED BY <1>3, <1>4

\* Nobody marks and nobody comes in.
LEMMA WindowStays ==
  ASSUME Types, Window, UNCHANGED <<initialized, uninvited, cuts>>, Marking \subseteq Marking',
         initialized => Founding' \subseteq Founding
  PROVE  Window'
<1>1. uninvited \in Nat /\ cuts \in Nat
  BY ConstantsAssumption DEF Types, TypeOK
<1>2. CASE initialized
  BY <1>1, <1>2, FewerFound, Finite DEF Window
<1>3. CASE ~initialized
  BY <1>1, <1>3, MoreMark, Finite DEF Window
<1> QED BY <1>2, <1>3

LEMMA WindowKnown == ASSUME Base, Window, NEW r \in Request, Known(r) PROVE Window'
<1>1. /\ UNCHANGED <<initialized, uninvited>> /\ Progress(r)
      /\ \A q \in Request \ {r} : job'[q] = job[q]
  BY KnownFields DEF Base, Types
<1>2. ASSUME initialized PROVE Founding' \subseteq Founding
  <2>1. ~(job'[r].pc = "create" /\ job'[r].admin)
    BY <1>1, <1>2 DEF Progress, Begun, LookedUp, Admitted, Checked, Locked, Base, JobsOK, JobOK
  <2> QED BY <1>1, <2>1 DEF Founding
<1>3. CASE Cut(r)
  <2>1. cuts' = cuts + 1 /\ cuts \in Nat /\ uninvited \in Nat
    BY <1>3, ConstantsAssumption DEF Cut, Base, Types, TypeOK
  <2>2. Cardinality(Marking) <= Cardinality(Marking') + 1
    <3>1. Marking \subseteq Marking' \cup {r}
      BY <1>1 DEF Marking
    <3>2. Cardinality(Marking' \cup {r}) <= Cardinality(Marking') + 1
      <4>1. Cardinality(Marking' \cup {r})
              = IF r \in Marking' THEN Cardinality(Marking') ELSE Cardinality(Marking') + 1
        BY Finite, FS_AddElement
      <4> QED BY <4>1, Finite
    <3>3. Cardinality(Marking) <= Cardinality(Marking' \cup {r})
      <4>1. IsFiniteSet(Marking' \cup {r})
        BY Finite, FS_AddElement
      <4> QED BY <3>1, <4>1, FS_Subset
    <3>4. Cardinality(Marking' \cup {r}) \in Nat
      BY Finite, FS_AddElement, FS_CardinalityType
    <3> QED BY <3>2, <3>3, <3>4, Finite
  <2>3. CASE initialized
    BY <1>1, <1>2, <2>1, <2>3, FewerFound, Finite DEF Window
  <2>4. CASE ~initialized
    BY <1>1, <2>1, <2>2, <2>4, Finite DEF Window
  <2> QED BY <2>3, <2>4
<1>4. CASE ~Cut(r)
  <2>1. cuts' = cuts /\ job[r].pc # "mark"
    BY <1>4 DEF Known, ReadInitialized, ReadAllowed, ReadRegistered, CheckOtherAdmin, DeleteInvite,
       Authenticate
  <2>2. Marking \subseteq Marking'
    BY <1>1, <2>1 DEF Marking
  <2> QED BY <1>1, <1>2, <2>1, <2>2, WindowStays DEF Base
<1> QED BY <1>3, <1>4

LEMMA WindowMark == ASSUME Base, Window, NEW r \in Request, Mark(r) PROVE Window'
<1>a. /\ initialized' = Initialized(job[r]) /\ Set(r, Idle)
      /\ UNCHANGED <<uninvited, cuts>>
  BY Zenon DEF Mark, End
<1>b. job'[r].pc = "idle" /\ \A q \in Request \ {r} : job'[q] = job[q]
  <2>1. job'[r] = Idle /\ \A q \in Request \ {r} : job'[q] = job[q]
    BY <1>a, JobMoves, IdleIsAJob DEF Base, Types, TypeOK
  <2>2. Idle.pc = "idle"
    BY DEF Idle
  <2> QED BY <2>1, <2>2
<1>c. (initialized \/ job[r].admin) => initialized'
  BY <1>a, Zenon DEF Initialized
<1>d. initialized' => (initialized \/ job[r].admin)
  BY <1>a, Zenon DEF Initialized
<1>1. /\ (initialized \/ job[r].admin) => initialized'
      /\ initialized' => (initialized \/ job[r].admin)
      /\ UNCHANGED <<uninvited, cuts>>
      /\ job'[r].pc = "idle" /\ \A q \in Request \ {r} : job'[q] = job[q]
  BY <1>a, <1>b, <1>c, <1>d
<1>2. Founding' \subseteq Founding /\ (~job[r].admin => Marking \subseteq Marking')
  BY <1>1 DEF Founding, Marking
<1>3. uninvited \in Nat /\ cuts \in Nat
  BY ConstantsAssumption DEF Base, Types, TypeOK
<1>4. CASE initialized
  BY <1>1, <1>2, <1>3, <1>4, FewerFound, Finite DEF Window
<1>5. CASE ~initialized /\ job[r].admin
  <2>1. uninvited <= Cardinality(Marking) + cuts
    BY <1>5 DEF Window
  <2>2. uninvited + Cardinality(Founding') <= Cardinality(Request) + cuts
    BY <1>2, <1>3, <2>1, Together, FewerFound, Finite
  <2> QED BY <1>1, <1>5, <2>2 DEF Window
<1>6. CASE ~initialized /\ ~job[r].admin
  BY <1>1, <1>2, <1>3, <1>6, MoreMark, Finite DEF Window
<1> QED BY <1>4, <1>5, <1>6

LEMMA WindowSignUp == ASSUME Base, Window, NEW r \in Request, SignsUp(r) PROVE Window'
<1>1. /\ UNCHANGED <<initialized, cuts>> /\ job[r].pc = "create"
      /\ uninvited' = IF job[r].admin THEN uninvited + 1 ELSE uninvited
      /\ job'[r].pc = "mark" /\ job'[r].admin = job[r].admin
      /\ \A q \in Request \ {r} : job'[q] = job[q]
  BY SignsUpFields DEF SignsUp, Base, Types
<1>2. Marking \subseteq Marking' /\ Founding' \subseteq Founding
  BY <1>1 DEF Marking, Founding
<1>3. CASE ~job[r].admin
  BY <1>1, <1>2, <1>3, WindowStays DEF Base
<1>4. CASE job[r].admin
  <2>1. uninvited' = uninvited + 1 /\ uninvited \in Nat /\ cuts \in Nat
    BY <1>1, <1>4, ConstantsAssumption DEF Base, Types, TypeOK
  <2>2. Cardinality(Marking) + 1 <= Cardinality(Marking')
    <3>1. r \notin Marking /\ Marking \cup {r} \subseteq Marking'
      BY <1>1, <1>2, <1>4 DEF Marking
    <3>2. Cardinality(Marking \cup {r}) = Cardinality(Marking) + 1
      BY <3>1, Finite, FS_AddElement
    <3>3. Cardinality(Marking \cup {r}) <= Cardinality(Marking')
      BY <3>1, Finite, FS_Subset
    <3> QED BY <3>2, <3>3
  <2>3. Cardinality(Founding') + 1 <= Cardinality(Founding)
    <3>1. r \notin Founding' /\ Founding' \cup {r} \subseteq Founding
      BY <1>1, <1>2, <1>4 DEF Founding
    <3>2. Cardinality(Founding' \cup {r}) = Cardinality(Founding') + 1
      BY <3>1, Finite, FS_AddElement
    <3>3. Cardinality(Founding' \cup {r}) <= Cardinality(Founding)
      BY <3>1, Finite, FS_Subset
    <3> QED BY <3>2, <3>3
  <2>4. CASE initialized
    BY <1>1, <2>1, <2>3, <2>4, Finite DEF Window
  <2>5. CASE ~initialized
    BY <1>1, <2>1, <2>2, <2>5, Finite DEF Window
  <2> QED BY <2>4, <2>5
<1> QED BY <1>3, <1>4

LEMMA WindowElsewhere == ASSUME Base, Window, Elsewhere PROVE Window'
<1>1. Marking \subseteq Marking'
  BY DEF Elsewhere, Marking, SameJob
<1>2. Founding' \subseteq Founding
  BY DEF Elsewhere, Founding, Calm, SameJob
<1> QED BY <1>1, <1>2, WindowStays DEF Elsewhere, Base

(* However signups overlap and wherever they are cut, so many at most come  *)
(* in uninvited.                                                            *)
THEOREM TheFirstSignupWindowIsBounded == Spec => []FirstSignupWindow
<1>1. Init => Base /\ Window
  <2>1. Init => uninvited = 0 /\ cuts = 0 /\ ~initialized
    BY DEF Init
  <2>2. Init => Window
    BY <2>1, Finite DEF Window
  <2> QED BY <2>2, BaseInit
<1>2. (Base /\ Window) /\ [Next]_vars => (Base /\ Window)'
  <2>1. ASSUME Base, Window, Next PROVE Window'
    BY <2>1, StepsElsewhere, WindowKnown, WindowMark, WindowSignUp, WindowElsewhere DEF Base, Types
  <2>2. ASSUME Window, UNCHANGED vars PROVE Window'
    BY <2>2 DEF vars, table, Window, Marking, Founding
  <2> QED BY <2>1, <2>2, BaseStep
<1>3. Base /\ Window => FirstSignupWindow
  BY WindowIsBounded DEF Base
<1> QED BY <1>1, <1>2, <1>3, PTL DEF Spec

----------------------------------------------------------------------------
(* Signup: a number that is on the list is turned away as registered only  *)
(* while an account holds it.                                              *)
THEOREM NobodyIsRefusedForNothing == Spec => RefusedOnlyIfHeld
<1> DEFINE Fair == \A r \in Request :
                     job[r].pc = "registered" /\ job'[r].pc = "idle" /\ job[r].row # "none" /\ cuts' = cuts
                       => PhoneRegistered(job[r].phone)
<1>1. ASSUME Base, Next PROVE Fair
  <2>1. SUFFICES ASSUME NEW q \in Request, job[q].pc = "registered", job'[q].pc = "idle",
                        job[q].row # "none", cuts' = cuts
                 PROVE  PhoneRegistered(job[q].phone)
    OBVIOUS
  <2>2. ~Elsewhere
    BY <2>1 DEF Elsewhere, SameJob
  <2>3. ASSUME NEW r \in Request, SignsUp(r) \/ Mark(r) PROVE FALSE
    <3>1. job[r].pc \in {"create", "mark"} /\ \A p \in Request \ {r} : job'[p] = job[p]
      BY <1>1, <2>3, SignsUpFields, JobMoves, IdleIsAJob DEF SignsUp, Mark, End, Base, Types, TypeOK
    <3> QED BY <2>1, <3>1
  <2>4. ASSUME NEW r \in Request, Known(r) PROVE PhoneRegistered(job[q].phone)
    <3>1. q = r
      BY <1>1, <2>1, <2>4, KnownFields DEF Base, Types
    <3>2. ~Cut(r)
      BY <1>1, <2>1, ConstantsAssumption DEF Cut, Base, Types, TypeOK
    <3>3. ReadRegistered(r)
      BY <2>1, <2>4, <3>1, <3>2 DEF Known, ReadInitialized, ReadAllowed, CheckOtherAdmin, DeleteInvite,
         Authenticate
    <3>4. InviteStateFor(job[r].row, PhoneRegistered(job[r].phone)) # "open"
      <4>1. SUFFICES ASSUME InviteStateFor(job[r].row, PhoneRegistered(job[r].phone)) = "open" PROVE FALSE
        OBVIOUS
      <4> DEFINE k == [job[r] EXCEPT !.pc = "create"]
      <4>2. Set(r, k)
        BY <3>3, <4>1 DEF ReadRegistered
      <4>3. job[r] \in JobState
        BY <1>1 DEF Base, Types, TypeOK
      <4>4. k \in JobState
        BY <4>3, StepIsAJob
      <4>5. k.pc = "create"
        BY <4>3, MovedFields
      <4> HIDE DEF k
      <4> QED BY <1>1, <2>1, <3>1, <4>2, <4>4, <4>5, JobMoves DEF Base, Types, TypeOK
    <3> QED BY <2>1, <3>1, <3>4 DEF InviteStateFor
  <2> QED BY <1>1, <2>2, <2>3, <2>4, StepsElsewhere DEF Base, Types
<1>2. Base /\ [Next]_vars => [Fair]_vars
  BY <1>1
<1> QED BY <1>2, BaseInit, BaseStep, PTL DEF Spec, RefusedOnlyIfHeld
=============================================================================
