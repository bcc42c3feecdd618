------------------------------ MODULE Accounts ------------------------------
(***************************************************************************)
(* Who belongs to a group: the invite list, signing up, administrators,    *)
(* revocation and the deletion of accounts.                                *)
(*                                                                         *)
(* Every handler is a sequence of statements on PostgreSQL, each one a     *)
(* transaction of its own but for DeleteAccount, so the handlers of        *)
(* several requests interleave between any two of them.  A request acts on *)
(* the user row it read when it authenticated.  It may end between any two *)
(* statements: its client hangs up, which cancels the context of the       *)
(* queries, or the process dies.                                           *)
(*                                                                         *)
(* Whoever has an active account can log in, and so send a request at any  *)
(* time; passwords and sessions are not modelled here.                     *)
(***************************************************************************)
EXTENDS Naturals, FiniteSets

CONSTANTS
  Phone,
  Request,          \* requests being served at once
  NoPhone,
  MaxAccounts,      \* bound on accounts ever made
  MaxInvites,       \* bound on invitations ever made
  MaxCuts           \* bound on requests that end early

ASSUME ConstantsAssumption ==
  /\ NoPhone \notin Phone
  /\ MaxAccounts \in Nat /\ MaxInvites \in Nat /\ MaxCuts \in Nat
  /\ IsFiniteSet(Request)

VARIABLES
  initialized,  \* server_config.initialized
  users,        \* the users table: a function from its ids to their columns
  allowed,      \* allowed_phones: a function from phones to the column "used"
  job,          \* the local state of every request
  lastId,       \* the ids of users handed out
  invites, cuts,
  \* History, read by properties only:
  uses,         \* how many accounts the present invite of a phone has let in
  uninvited     \* how many signed up as the first member

table == <<initialized, users, allowed, lastId>>
vars == <<table, job, invites, cuts, uses, uninvited>>

Id == 1..MaxAccounts
User == [phone : Phone, admin : BOOLEAN, active : BOOLEAN]
RowState == {"none", "fresh", "used"}
Idle == [pc |-> "idle", op |-> "none", user |-> 0, phone |-> NoPhone,
         admin |-> FALSE, row |-> "none", had |-> FALSE, late |-> FALSE]
JobState ==
  [pc : {"idle", "allowed", "registered", "create", "mark", "auth", "checked", "deleting"},
   op : {"none", "signup", "invite", "remove", "revoke", "delete"},
   user : 0..MaxAccounts, phone : Phone \cup {NoPhone}, admin : BOOLEAN,
   row : RowState, had : BOOLEAN, late : BOOLEAN]

TypeOK ==
  /\ initialized \in BOOLEAN
  /\ DOMAIN users \subseteq 1..lastId /\ users \in [DOMAIN users -> User]
  /\ \A i, k \in DOMAIN users : users[i].phone = users[k].phone => i = k
  /\ DOMAIN allowed \subseteq Phone /\ allowed \in [DOMAIN allowed -> BOOLEAN]
  /\ job \in [Request -> JobState]
  /\ lastId \in 0..MaxAccounts /\ invites \in 0..MaxInvites /\ cuts \in 0..MaxCuts
  /\ uses \in [Phone -> Nat] /\ uninvited \in 0..MaxAccounts

Init ==
  /\ initialized = FALSE
  /\ users = [i \in {} |-> 0] /\ allowed = [p \in {} |-> FALSE]
  /\ job = [r \in Request |-> Idle]
  /\ lastId = 0 /\ invites = 0 /\ cuts = 0
  /\ uses = [p \in Phone |-> 0] /\ uninvited = 0

Set(r, v) == job' = [job EXCEPT ![r] = v]
End(r) == Set(r, Idle)

Without(f, S) == [x \in DOMAIN f \ S |-> f[x]]
With(f, x, v) == [y \in DOMAIN f \cup {x} |-> IF y = x THEN v ELSE f[y]]

Admins == {i \in DOMAIN users : users[i].admin}
PhoneRegistered(p) == \E i \in DOMAIN users : users[i].phone = p
PhoneAllowed(p) == IF p \notin DOMAIN allowed THEN "none"
                   ELSE IF allowed[p] THEN "used" ELSE "fresh"

InviteByFlag(row, registered) ==
  IF row = "none" THEN "none" ELSE IF registered \/ row = "used" THEN "claimed" ELSE "open"
InviteStateFor(row, registered) ==
  IF row = "none" THEN "none" ELSE IF registered THEN "claimed" ELSE "open"

-----------------------------------------------------------------------------
(* handleSignup.                                                           *)

ReadInitialized(r, p) ==
  /\ job[r].pc = "idle"
  /\ LET j == [Idle EXCEPT !.op = "signup", !.phone = p, !.pc = "allowed"] IN
     Set(r, IF initialized THEN j ELSE [j EXCEPT !.pc = "create", !.admin = TRUE])
  /\ UNCHANGED <<table, invites, cuts, uses, uninvited>>

(* invite(): two statements, and only then the decision.                   *)
ReadAllowed(r) ==
  /\ job[r].pc = "allowed"
  /\ Set(r, [job[r] EXCEPT !.pc = "registered", !.row = PhoneAllowed(job[r].phone)])
  /\ UNCHANGED <<table, invites, cuts, uses, uninvited>>

ReadRegistered(r) ==
  /\ job[r].pc = "registered"
  /\ IF InviteStateFor(job[r].row, PhoneRegistered(job[r].phone)) = "open"
       THEN Set(r, [job[r] EXCEPT !.pc = "create"])
       ELSE End(r)
  /\ UNCHANGED <<table, invites, cuts, uses, uninvited>>

(* users.phone is UNIQUE.                                                  *)
AnyPhone(p) == TRUE
PhoneFree(p) == ~PhoneRegistered(p)

CreateUser(r) ==
  LET j == job[r] IN
  /\ j.pc = "create"
  /\ IF PhoneFree(j.phone)
       THEN /\ lastId < MaxAccounts
            /\ lastId' = lastId + 1
            /\ users' = With(users, lastId + 1,
                             [phone |-> j.phone, admin |-> j.admin, active |-> TRUE])
            /\ Set(r, [j EXCEPT !.pc = "mark"])
            /\ uninvited' = IF j.admin THEN uninvited + 1 ELSE uninvited
            /\ uses' = IF j.admin \/ j.late THEN uses ELSE [uses EXCEPT ![j.phone] = @ + 1]
       ELSE End(r) /\ UNCHANGED <<lastId, users, uninvited, uses>>
  /\ UNCHANGED <<initialized, allowed, invites, cuts>>

(* A row of the invite list that a deletion has removed and not committed. *)
RowLocked(p) == \E r \in Request : job[r].pc = "deleting" /\ job[r].had /\ job[r].phone = p

NotInitialized(j) == initialized
Initialized(j) == initialized \/ j.admin

(* MarkInitialized, or MarkPhoneUsed, which may find no row, or another    *)
(* row than the one the signup saw.                                        *)
Mark(r) ==
  LET j == job[r] IN
  /\ j.pc = "mark"
  /\ initialized' = Initialized(j)
  /\ IF j.admin \/ j.phone \notin DOMAIN allowed THEN UNCHANGED allowed
     ELSE ~RowLocked(j.phone) /\ allowed' = [allowed EXCEPT ![j.phone] = TRUE]
  /\ End(r)
  /\ UNCHANGED <<users, lastId, invites, cuts, uses, uninvited>>

-----------------------------------------------------------------------------
(* The administrator's requests and the operator's dashboard.              *)

(* requireAuth and requireAdmin: the row as it is now.                     *)
Authenticate(r, i, op) ==
  /\ job[r].pc = "idle"
  /\ users[i].active
  /\ op \in (IF users[i].admin THEN {"invite", "remove", "revoke", "delete"} ELSE {"delete"})
  /\ Set(r, [Idle EXCEPT !.pc = "auth", !.op = op, !.user = i, !.admin = users[i].admin])
  /\ UNCHANGED <<table, invites, cuts, uses, uninvited>>

AddAllowedPhone(p) ==
  /\ ~RowLocked(p) /\ p \notin DOMAIN allowed
  /\ invites < MaxInvites
  /\ allowed' = With(allowed, p, FALSE)
  /\ invites' = invites + 1
  /\ uses' = [uses EXCEPT ![p] = 0]

(* The signups on p in flight that have seen the row, which is going.      *)
Saw(r, p) == job[r].pc \in {"registered", "create"} /\ job[r].phone = p /\ job[r].row # "none"
(* The state of requests once the row of p is removed.                     *)
RowGone(p, jobs) == [r \in Request |-> IF Saw(r, p) THEN [jobs[r] EXCEPT !.late = TRUE]
                                       ELSE jobs[r]]

(* handleUploadContacts.  A number already listed changes nothing, and     *)
(* added_by refers to users.                                               *)
UploadContact(r, p) ==
  /\ job[r].pc = "auth" /\ job[r].op = "invite"
  /\ End(r)
  /\ \/ job[r].user \in DOMAIN users /\ AddAllowedPhone(p)
     \/ ~RowLocked(p) /\ (job[r].user \notin DOMAIN users \/ p \in DOMAIN allowed)
        /\ UNCHANGED <<allowed, invites, uses>>
  /\ UNCHANGED <<initialized, users, lastId, cuts, uninvited>>

(* handleAdminRemoveAllowed.                                               *)
RemoveAllowed(r, p) ==
  /\ job[r].pc = "auth" /\ job[r].op = "remove"
  /\ ~RowLocked(p) /\ p \in DOMAIN allowed
  /\ allowed' = Without(allowed, {p})
  /\ job' = RowGone(p, [job EXCEPT ![r] = Idle])
  /\ UNCHANGED <<initialized, users, lastId, invites, cuts, uses, uninvited>>

(* handleAdminRevokeUser; nobody revokes themselves.                       *)
Revoke(r, i) ==
  /\ job[r].pc = "auth" /\ job[r].op = "revoke"
  /\ i # job[r].user
  /\ users' = [users EXCEPT ![i].active = FALSE]
  /\ End(r)
  /\ UNCHANGED <<initialized, allowed, lastId, invites, cuts, uses, uninvited>>

(* handleDebugInviteAdd, handleDebugInviteRemove, handleDebugMemberRevoke, *)
(* handleDebugMemberPromote.                                               *)
OperatorInvite(p) ==
  /\ AddAllowedPhone(p)
  /\ UNCHANGED <<initialized, users, lastId, job, cuts, uninvited>>

OperatorRemove(p) ==
  /\ ~RowLocked(p) /\ p \in DOMAIN allowed
  /\ allowed' = Without(allowed, {p})
  /\ job' = RowGone(p, job)
  /\ UNCHANGED <<initialized, users, lastId, invites, cuts, uses, uninvited>>

OperatorRevoke(i) ==
  /\ users[i].active
  /\ users' = [users EXCEPT ![i].active = FALSE]
  /\ UNCHANGED <<initialized, allowed, lastId, job, invites, cuts, uses, uninvited>>

OperatorPromote(i) ==
  /\ ~users[i].admin
  /\ users' = [users EXCEPT ![i].admin = TRUE]
  /\ UNCHANGED <<initialized, allowed, lastId, job, invites, cuts, uses, uninvited>>

-----------------------------------------------------------------------------
(* handleDeleteAccount.                                                    *)

AnyAdminExists(i) == Admins # {}
OtherAdminExists(i) == Admins \ {i} # {}

CheckOtherAdmin(r) ==
  /\ job[r].pc = "auth" /\ job[r].op = "delete"
  /\ Set(r, IF job[r].admin => OtherAdminExists(job[r].user)
              THEN [job[r] EXCEPT !.pc = "checked"] ELSE Idle)
  /\ UNCHANGED <<table, invites, cuts, uses, uninvited>>

BeingDeleted(i) == \E r \in Request : job[r].pc = "deleting" /\ job[r].user = i

(* The invite of the account, which the subquery on users finds.           *)
InviteOfDeletedUser(i) == FALSE
InviteOf(i) == users[i].phone \in DOMAIN allowed

(* accountDeletions, up to the one that takes the invite; whoever wants    *)
(* the same row waits.                                                     *)
DeleteInvite(r) ==
  LET i == job[r].user IN
  /\ job[r].pc = "checked"
  /\ IF i \in DOMAIN users
       THEN /\ ~BeingDeleted(i)
            /\ Set(r, [job[r] EXCEPT !.pc = "deleting", !.phone = users[i].phone,
                                     !.had = InviteOf(i)])
       ELSE End(r)
  /\ UNCHANGED <<table, invites, cuts, uses, uninvited>>

(* The last of them, and the commit.  Deletions in flight learn nothing of *)
(* an administrator who is gone.                                           *)
DeleteUser(r) ==
  LET j == job[r]
      ended == [job EXCEPT ![r] = Idle]
      told == [q \in Request |->
                 IF job[q].op = "delete" /\ users[j.user].admin /\ q # r
                   THEN [ended[q] EXCEPT !.late = TRUE] ELSE ended[q]]
  IN
  /\ j.pc = "deleting"
  /\ users' = Without(users, {j.user})
  /\ allowed' = IF j.had THEN Without(allowed, {j.phone}) ELSE allowed
  /\ job' = IF j.had THEN RowGone(j.phone, told) ELSE told
  /\ UNCHANGED <<initialized, lastId, invites, cuts, uses, uninvited>>

-----------------------------------------------------------------------------
(* A request ends where it stands.                                         *)
Cut(r) ==
  /\ job[r].pc # "idle" /\ cuts < MaxCuts
  /\ cuts' = cuts + 1
  /\ End(r)
  /\ UNCHANGED <<table, invites, uses, uninvited>>

Step(r) ==
  \/ ReadAllowed(r) \/ ReadRegistered(r) \/ CreateUser(r) \/ Mark(r)
  \/ CheckOtherAdmin(r) \/ DeleteInvite(r) \/ DeleteUser(r) \/ Cut(r)

Next ==
  \/ \E r \in Request : Step(r)
  \/ \E r \in Request, p \in Phone :
       ReadInitialized(r, p) \/ UploadContact(r, p) \/ RemoveAllowed(r, p)
  \/ \E r \in Request : \E i \in DOMAIN users :
       \/ Revoke(r, i)
       \/ \E op \in {"invite", "remove", "revoke", "delete"} : Authenticate(r, i, op)
  \/ \E p \in Phone : OperatorInvite(p) \/ OperatorRemove(p)
  \/ \E i \in DOMAIN users : OperatorRevoke(i) \/ OperatorPromote(i)

Spec == Init /\ [][Next]_vars

-----------------------------------------------------------------------------
(* Properties.                                                             *)

(* "letting a deleted account sign up again with no fresh invite": an      *)
(* entry of the invite list lets in one account in its life, through any   *)
(* sequence of signups, removals and deletions; only a signup that had     *)
(* read the entry before it was removed may still follow.                  *)
InviteAdmitsOne == \A p \in Phone : uses[p] <= 1

(* "First ever user -> admin": nobody becomes a member and an              *)
(* administrator without an invite, but for signups that were in flight    *)
(* together with the first and one more for each that was cut off before   *)
(* it marked the server initialized.                                       *)
FirstSignupWindow == uninvited <= Cardinality(Request) + cuts

(* "dead-end an invited number forever behind an already registered error  *)
(* that is false": a signup whose number is on the list is turned away as  *)
(* claimed only while an account holds the number, whatever signup,        *)
(* deletion and new invite came before and in whatever order the flag was  *)
(* written.                                                                *)
RefusedOnlyIfHeld ==
  [][\A r \in Request :
       job[r].pc = "registered" /\ job'[r].pc = "idle" /\ job[r].row # "none" /\ cuts' = cuts
         => PhoneRegistered(job[r].phone)]_vars

(* "Refuse to delete the only admin": an administrator's deletion of their *)
(* own account leaves an administrator, unless another administrator's     *)
(* deletion committed while it was in flight.                              *)
LastAdminKept ==
  [][\A r \in Request :
       job[r].pc = "deleting" /\ job'[r].pc = "idle" /\ cuts' = cuts
         /\ job[r].admin /\ ~job[r].late
         => Admins' # {}]_vars

(* "Refuse to delete the only admin: doing so would leave the server with  *)
(* no one able to invite members": the same without the exception, so      *)
(* that two administrators who delete themselves at once violate it.       *)
AnAdminRemains ==
  [][\A r \in Request :
       job[r].pc = "deleting" /\ job'[r].pc = "idle" /\ cuts' = cuts /\ job[r].admin
         => Admins' # {}]_vars

(* And the other administrator it lets a deletion rely on is one who can   *)
(* act: OtherAdminExists does not look at the status, and a revocation is  *)
(* for good.                                                               *)
OnlyAdminRefused ==
  [][\A r \in Request :
       job[r].pc = "auth" /\ job'[r].pc = "checked" /\ job[r].admin
         => \E i \in Admins \ {job[r].user} : users[i].active]_vars
=============================================================================
