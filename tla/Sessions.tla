------------------------------ MODULE Sessions ------------------------------
(***************************************************************************)
(* How a member stays signed in: logging in, sessions that slide with use  *)
(* up to an absolute age, signing out, reset codes issued by an            *)
(* administrator and redeemed by the member, and revocation.               *)
(*                                                                         *)
(* Passwords and codes are hashed slowly, between the statement that reads *)
(* the stored one and the statement that acts on the outcome, so requests  *)
(* interleave there; each statement is a transaction of its own.  A        *)
(* password is the number of times it was set.                             *)
(***************************************************************************)
EXTENDS Integers, FiniteSets

CONSTANTS
  Member,
  Request,          \* requests being served at once
  TTL,              \* SessionTTL
  Gap,              \* how far an expiry may lag behind before it is slid
  MaxAge,           \* SessionMaxAge
  CodeLife,         \* the 24 hours of a reset code
  MaxAttempts,      \* maxResetAttempts
  MaxNow,           \* bound of the clock
  MaxTokens, MaxCodes,    \* bounds on sessions and codes ever made
  MaxCuts           \* bound on requests that end early

Token == 1..MaxTokens
Code == 1..MaxCodes
NoCode == 0                    \* a NULL reset_code_hash
Never == -1
Earlier(a, b) == IF a < b THEN a ELSE b
Later(a, b) == IF a < b THEN b ELSE a

ASSUME ConstantsAssumption ==
  /\ TTL \in Nat \ {0} /\ Gap \in 0..TTL /\ MaxAge \in Nat \ {0}
  /\ CodeLife \in Nat /\ MaxAttempts \in Nat \ {0}
  /\ MaxNow \in Nat /\ MaxTokens \in Nat /\ MaxCodes \in Nat /\ MaxCuts \in Nat
  /\ IsFiniteSet(Request)

VARIABLES
  now,
  account,    \* the users table: status, password, reset code
  sessions,   \* the sessions table: a function from tokens to their columns
  job,        \* the local state of every request
  tokens, codes, cuts,
  \* History, read by properties only:
  good,       \* token -> until when its last use made it good, unless signed out
  guesses,    \* code -> wrong guesses that were verified against it
  redeemed    \* codes redeemed
\* and the columns of a session that follow "created": the password it was made
\* with, whether a signing out everywhere overtook its making, and whether one
\* was to end it and failed.

history == <<good, guesses, redeemed>>
vars == <<now, account, sessions, job, tokens, codes, cuts, history>>

Account == [active : BOOLEAN, password : Nat \ {0}, code : Code \cup {NoCode},
            expires : Int, attempts : Nat]
Session == [user : Member, expires : Nat, created : Nat,
            password : Nat, late : BOOLEAN, kept : BOOLEAN]
Idle == [pc |-> "idle", user |-> {}, token |-> 0, code |-> NoCode, password |-> 0,
         at |-> Never, late |-> FALSE]
JobState == [pc : {"idle", "issue", "bump", "set", "purge", "reload", "store", "kick",
                   "slide", "logout"},
             user : SUBSET Member, token : Token \cup {0}, code : Code \cup {NoCode},
             password : Nat, at : 0..MaxNow \cup {Never}, late : BOOLEAN]

TypeOK ==
  /\ now \in 0..MaxNow
  /\ account \in [Member -> Account]
  /\ \A u \in Member : account[u].code = NoCode <=> account[u].expires = Never
  /\ tokens \in 0..MaxTokens /\ codes \in 0..MaxCodes /\ cuts \in 0..MaxCuts
  /\ DOMAIN sessions \subseteq 1..tokens /\ sessions \in [DOMAIN sessions -> Session]
  /\ job \in [Request -> JobState]
  /\ \A r \in Request : job[r].pc # "idle" => \E u \in Member : job[r].user = {u}
  /\ good \in [Token -> Nat]
  /\ guesses \in [Code -> Nat] /\ redeemed \subseteq 1..codes

Init ==
  /\ now = 0
  /\ account = [u \in Member |-> [active |-> TRUE, password |-> 1, code |-> NoCode,
                                  expires |-> Never, attempts |-> 0]]
  /\ sessions = [t \in {} |-> 0]
  /\ job = [r \in Request |-> Idle]
  /\ tokens = 0 /\ codes = 0 /\ cuts = 0
  /\ good = [t \in Token |-> 0]
  /\ guesses = [c \in Code |-> 0] /\ redeemed = {}

Set(r, v) == job' = [job EXCEPT ![r] = v]
End(r) == Set(r, Idle)
Goto(r, pc) == Set(r, [job[r] EXCEPT !.pc = pc])

-----------------------------------------------------------------------------
(* handleLogin, with the right password: status and password are those of  *)
(* the row as it was read.                                                 *)
Login(r, u) ==
  /\ job[r].pc = "idle" /\ tokens < MaxTokens /\ account[u].active
  /\ Set(r, [Idle EXCEPT !.pc = "issue", !.user = {u}, !.password = account[u].password])
  /\ UNCHANGED <<now, account, sessions, tokens, codes, cuts, history>>

(* issueSession, for a login or a redeemed code.                           *)
CreateSession(r) ==
  LET t == tokens + 1 IN
  /\ job[r].pc = "issue" /\ tokens < MaxTokens
  /\ \E u \in job[r].user :
       sessions' = [s \in DOMAIN sessions \cup {t} |->
                      IF s = t
                      THEN [user |-> u, expires |-> now + TTL, created |-> now,
                            password |-> job[r].password, late |-> job[r].late, kept |-> FALSE]
                      ELSE sessions[s]]
  /\ tokens' = t
  /\ End(r)
  /\ UNCHANGED <<now, account, codes, cuts, good, guesses, redeemed>>

-----------------------------------------------------------------------------
(* Reset codes.                                                            *)

(* handleAdminIssueResetCode: GetUser, then SetResetCode.                  *)
IssueCode(r, u) ==
  /\ job[r].pc = "idle" /\ codes < MaxCodes /\ account[u].active
  /\ Set(r, [Idle EXCEPT !.pc = "store", !.user = {u}])
  /\ UNCHANGED <<now, account, sessions, tokens, codes, cuts, history>>

Issued(a) == [a EXCEPT !.code = codes + 1, !.expires = now + CodeLife, !.attempts = 0]

SetResetCode(r) ==
  /\ job[r].pc = "store" /\ codes < MaxCodes
  /\ codes' = codes + 1
  /\ \E u \in job[r].user : account' = [account EXCEPT ![u] = Issued(account[u])]
  /\ End(r)
  /\ UNCHANGED <<now, sessions, tokens, cuts, history>>

(* handleResetPassword up to VerifyPassword: the code, its expiry and the  *)
(* attempts are those of the row as it was read.  NoCode stands for any    *)
(* wrong one.                                                              *)
Redeem(r, u, c) ==
  LET a == account[u]
      right == c = a.code
  IN  /\ job[r].pc = "idle" /\ a.active /\ a.code # NoCode
      /\ now <= a.expires /\ a.attempts < MaxAttempts
      /\ Set(r, [Idle EXCEPT !.pc = IF right THEN "set" ELSE "bump", !.user = {u},
                             !.code = c])
      /\ guesses' = IF right THEN guesses ELSE [guesses EXCEPT ![a.code] = @ + 1]
      /\ UNCHANGED <<now, account, sessions, tokens, codes, cuts,
                     good, redeemed>>

(* BumpResetAttempt: the last attempt takes the code with it.              *)
BumpedUncounted(a) ==
  IF a.attempts >= MaxAttempts THEN [a EXCEPT !.code = NoCode, !.expires = Never] ELSE a
BumpedHashOnly(a) ==
  IF a.attempts + 1 >= MaxAttempts
    THEN [a EXCEPT !.attempts = @ + 1, !.code = NoCode]
    ELSE [a EXCEPT !.attempts = @ + 1]
Bumped(a) ==
  IF a.attempts + 1 >= MaxAttempts
    THEN [a EXCEPT !.attempts = @ + 1, !.code = NoCode, !.expires = Never]
    ELSE [a EXCEPT !.attempts = @ + 1]

BumpResetAttempt(r) ==
  /\ job[r].pc = "bump"
  /\ \E u \in job[r].user : account' = [account EXCEPT ![u] = Bumped(account[u])]
  /\ End(r)
  /\ UNCHANGED <<now, sessions, tokens, codes, cuts, history>>

(* SetPasswordAndClearReset, which takes the code there is by now.         *)
Cleared(a) == [a EXCEPT !.password = @ + 1, !.code = NoCode, !.expires = Never]
NotCleared(a) == [a EXCEPT !.password = @ + 1]
Reset(a) == Cleared(a)

SetPasswordAndClearReset(r) ==
  /\ job[r].pc = "set"
  /\ \E u \in job[r].user :
       /\ account' = [account EXCEPT ![u] = Reset(account[u])]
       /\ Set(r, [job[r] EXCEPT !.pc = "purge", !.code = NoCode,
                                !.password = account[u].password + 1])
  /\ redeemed' = redeemed \cup {job[r].code}
  /\ UNCHANGED <<now, sessions, tokens, codes, cuts, good, guesses>>

(* DeleteUserSessions.                                                     *)
Unpromised(T) == [t \in Token |-> IF t \in T THEN 0 ELSE good[t]]
TokensOf(u) == {t \in DOMAIN sessions : sessions[t].user = u}
OldestTokenOf(u) == {t \in TokensOf(u) : \A s \in TokensOf(u) : t <= s}
SignedOut(u) == TokensOf(u)

(* A login or a redemption in flight is going to make its session all the  *)
(* same.                                                                   *)
Overtaken(u) ==
  [q \in Request |-> IF u \in job[q].user /\ job[q].pc \in {"issue", "purge", "reload"}
                       THEN [job[q] EXCEPT !.late = TRUE] ELSE job[q]]

DeleteUserSessions(r, next) ==
  \E u \in job[r].user :
    /\ sessions' = [t \in DOMAIN sessions \ SignedOut(u) |-> sessions[t]]
    /\ good' = Unpromised(SignedOut(u))
    /\ job' = [Overtaken(u) EXCEPT ![r] = next]

(* Its failure is ignored, and the sessions stay.                          *)
Missed(r) ==
  /\ cuts < MaxCuts /\ cuts' = cuts + 1
  /\ \E u \in job[r].user :
       sessions' = [t \in DOMAIN sessions |->
                      IF t \in TokensOf(u) THEN [sessions[t] EXCEPT !.kept = TRUE] ELSE sessions[t]]

Purge(r) ==
  LET next == [job[r] EXCEPT !.pc = "reload"] IN
  /\ job[r].pc = "purge"
  /\ \/ DeleteUserSessions(r, next) /\ UNCHANGED cuts
     \/ /\ Missed(r)
        /\ \E u \in job[r].user : job' = [Overtaken(u) EXCEPT ![r] = next]
        /\ UNCHANGED good
  /\ UNCHANGED <<now, account, tokens, codes, guesses, redeemed>>

(* GetUser finds active accounts only.                                     *)
Reload(r) ==
  /\ job[r].pc = "reload"
  /\ \E u \in job[r].user : IF account[u].active THEN Goto(r, "issue") ELSE End(r)
  /\ UNCHANGED <<now, account, sessions, tokens, codes, cuts, history>>

-----------------------------------------------------------------------------
(* Revocation: SetUserStatus, then DeleteUserSessions.                     *)
Revoke(r, u) ==
  /\ job[r].pc = "idle"
  /\ account' = [account EXCEPT ![u].active = FALSE]
  /\ Set(r, [Idle EXCEPT !.pc = "kick", !.user = {u}])
  /\ UNCHANGED <<now, sessions, tokens, codes, cuts, history>>

Kick(r) ==
  /\ job[r].pc = "kick"
  /\ DeleteUserSessions(r, Idle)
  /\ UNCHANGED <<now, account, tokens, codes, cuts, guesses, redeemed>>

-----------------------------------------------------------------------------
(* requireAuth: UserForToken, then slideSession on the clock it reads.     *)
Unexpired(t) == t \in DOMAIN sessions /\ sessions[t].expires > now
Valid(t) ==
  /\ Unexpired(t) /\ sessions[t].created > now - MaxAge
  /\ account[sessions[t].user].active

Authenticate(r, t) ==
  /\ job[r].pc = "idle" /\ Valid(t)
  /\ Set(r, [Idle EXCEPT !.pc = "slide", !.user = {sessions[t].user}, !.token = t,
                         !.at = now])
  /\ UNCHANGED <<now, account, sessions, tokens, codes, cuts, history>>

(* ExtendSession, whose failure does not matter, and on to the handler.    *)
SlidUncapped(s, at) == IF s.expires < at + TTL - Gap THEN at + TTL ELSE s.expires
SlidWhenDue(s, at) ==
  LET new == Earlier(at + TTL, s.created + MaxAge)
  IN  IF s.expires < at + Gap /\ new > s.expires THEN new ELSE s.expires
Slid(s, at) ==
  LET new == Earlier(at + TTL, s.created + MaxAge)
  IN  IF s.expires < at + TTL - Gap /\ new > s.expires THEN new ELSE s.expires

GoodUntil(s, at) == Earlier(at + TTL - Gap, s.created + MaxAge)

ExtendSession(r) ==
  LET t == job[r].token
      at == job[r].at
  IN  /\ job[r].pc = "slide"
      /\ \/ /\ Unexpired(t)
            /\ sessions' = [sessions EXCEPT ![t].expires = Slid(sessions[t], at)]
            /\ good' = [good EXCEPT ![t] = Later(@, GoodUntil(sessions[t], at))]
            /\ UNCHANGED cuts
         \/ /\ ~Unexpired(t)
            /\ UNCHANGED <<sessions, good, cuts>>
         \/ /\ cuts < MaxCuts /\ cuts' = cuts + 1
            /\ UNCHANGED <<sessions, good>>
      /\ \/ End(r)
         \/ Set(r, [job[r] EXCEPT !.pc = "logout", !.at = Never])
      /\ UNCHANGED <<now, account, tokens, codes, guesses, redeemed>>

(* handleLogout, the one handler of those requests that touches sessions.  *)
Logout(r) ==
  /\ job[r].pc = "logout"
  /\ sessions' = [t \in DOMAIN sessions \ {job[r].token} |-> sessions[t]]
  /\ good' = Unpromised({job[r].token})
  /\ End(r)
  /\ UNCHANGED <<now, account, tokens, codes, cuts, guesses, redeemed>>

(* The hourly purge in main.                                               *)
StaleSoon(s) == s.expires < now + Gap + 1
Stale(s) == s.expires < now

Cleanup ==
  /\ sessions' = [t \in {s \in DOMAIN sessions : ~Stale(sessions[s])} |-> sessions[t]]
  /\ UNCHANGED <<now, account, job, tokens, codes, cuts, history>>

-----------------------------------------------------------------------------
(* A request ends where it stands: a statement fails, the client hangs up  *)
(* and so cancels the statements to come, or the process dies.             *)
Cut(r) ==
  /\ job[r].pc # "idle"
  /\ IF job[r].pc \in {"purge", "kick"}
       THEN /\ Missed(r)
            /\ \E u \in job[r].user : job' = [Overtaken(u) EXCEPT ![r] = Idle]
       ELSE /\ cuts < MaxCuts /\ cuts' = cuts + 1
            /\ End(r) /\ UNCHANGED sessions
  /\ UNCHANGED <<now, account, tokens, codes, good, guesses, redeemed>>

Pass ==
  /\ now < MaxNow /\ now' = now + 1
  /\ good' = [t \in Token |-> IF good[t] > now' THEN good[t] ELSE 0]
  /\ UNCHANGED <<account, sessions, job, tokens, codes, cuts, guesses, redeemed>>

Step(r) ==
  \/ CreateSession(r) \/ SetResetCode(r) \/ BumpResetAttempt(r)
  \/ SetPasswordAndClearReset(r) \/ Purge(r) \/ Reload(r) \/ Kick(r)
  \/ ExtendSession(r) \/ Logout(r) \/ Cut(r)

Next ==
  \/ \E r \in Request : Step(r)
  \/ \E r \in Request, u \in Member : Login(r, u) \/ IssueCode(r, u) \/ Revoke(r, u)
  \/ \E r \in Request, u \in Member : \E c \in {NoCode} \cup 1..codes : Redeem(r, u, c)
  \/ \E r \in Request : \E t \in DOMAIN sessions : Authenticate(r, t)
  \/ Cleanup \/ Pass

Spec == Init /\ [][Next]_vars

-----------------------------------------------------------------------------
(* Properties.                                                             *)

(* helpers.go: "a member who opens the app every few weeks is never signed *)
(* out": a session that was used is good for TTL less Gap after that use,  *)
(* up to its absolute age, unless somebody signed it out; neither          *)
(* concurrent slides nor the hourly purge cost it a moment of that.        *)
UsedStaysSignedIn ==
  \A t \in Token : now < good[t] => t \in DOMAIN sessions /\ sessions[t].expires > now

(* ExtendSession: "never passes created_at + maxAge": requests that slide  *)
(* one session at once, on clocks read in one order and used in another,   *)
(* neither shorten it nor carry it past its absolute age.                  *)
SlidesForwardToTheCap ==
  [][\A t \in DOMAIN sessions : t \in DOMAIN sessions' =>
       /\ sessions'[t].expires >= sessions[t].expires
       /\ sessions'[t].expires > sessions[t].expires =>
            sessions'[t].expires <= sessions[t].created + MaxAge]_vars

(* "Sign out everywhere": once a reset has gone through, the sessions of   *)
(* earlier passwords are gone, but for those of logins and redemptions in  *)
(* flight with it and those a failed or abandoned signing out left.        *)
SessionsOfThePassword ==
  \A t \in DOMAIN sessions :
    LET u == sessions[t].user IN
    sessions[t].password < account[u].password
      => \/ sessions[t].late \/ sessions[t].kept
         \/ \E r \in Request : job[r].pc = "purge" /\ u \in job[r].user

(* "consumes the reset code (single-use)": no request gets past the check  *)
(* of a code that has been redeemed; of those past it already each one     *)
(* sets a password.                                                        *)
RedeemedCodesAreDead ==
  [][\A r \in Request :
       job[r].pc = "idle" /\ job'[r].pc = "set" => job'[r].code \notin redeemed]_vars

(* "lock it after maxResetAttempts wrong tries": a code is held against no *)
(* more wrong ones than that, but for those in flight at once and one more *)
(* for each request that ended before its attempt was recorded.            *)
GuessesBounded ==
  \A c \in Code : guesses[c] < MaxAttempts + Cardinality(Request) + cuts

(* 0006_reset_code.sql: a code is "single-use": it sets one password.      *)
CodesSetOnce ==
  [][\A r \in Request :
       job[r].pc = "set" /\ job'[r].pc = "purge" => job[r].code \notin redeemed]_vars

(* handleResetPassword: "Sign out everywhere, then log this device in      *)
(* fresh": once its statement has run, no session of an earlier password   *)
(* is left or still to come.                                               *)
OldSessionsEnd ==
  \A t \in DOMAIN sessions :
    LET u == sessions[t].user IN
    sessions[t].password < account[u].password
      => \E r \in Request : job[r].pc = "purge" /\ u \in job[r].user
=============================================================================
