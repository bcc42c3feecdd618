------------------------------ MODULE ResetProofs ------------------------------
(* Reset codes: a redeemed one is dead, the wrong guesses at one are        *)
(* bounded, and a reset ends the sessions of earlier passwords.             *)
EXTENDS SessionsProofs

----------------------------------------------------------------------------
(* Codes: whose they are, who is about to redeem one, and which are spent. *)
Held == \A r \in Request : job[r].pc = "set" => job[r].code \in 1..codes
Personal ==
  /\ \A u \in Member : account[u].code \in {NoCode} \cup 1..codes
  /\ \A u, v \in Member : account[u].code = account[v].code /\ account[u].code # NoCode => u = v
  /\ \A u \in Member, r \in Request :
       job[r].pc = "set" /\ job[r].code = account[u].code => job[r].user = {u}
Spent == redeemed \subseteq 1..codes /\ \A u \in Member : account[u].code \notin redeemed
Codes == Held /\ Personal /\ Spent

LEMMA AsideClaims ==
  ASSUME Aside, NEW q \in Request, Tallying(q)' PROVE SameClaim(q) /\ Tallying(q)
BY DEF Aside, Tallying, SameClaim

LEMMA LeavesClaims ==
  ASSUME NEW r \in Request, Leaves(r), NEW q \in Request, Tallying(q)'
  PROVE  q # r /\ SameClaim(q) /\ Tallying(q)
BY DEF Leaves, Becomes, Tallying, SameClaim

LEMMA CodesInit == Init => Codes
BY DEF Init, Codes, Held, Personal, Spent, Tallying, Idle, NoCode

LEMMA CodesOther == ASSUME Shape, Codes, Other PROVE Codes'
<1>1. Held'
  BY AsideClaims DEF Codes, Held, Tallying, SameClaim, Other, Beside
<1>2. Personal'
  <2>1. ASSUME NEW u \in Member, NEW r \in Request, job'[r].pc = "set", job'[r].code = account'[u].code
        PROVE  job'[r].user = {u}
    BY <2>1, AsideClaims DEF Codes, Personal, Tallying, SameClaim, Other, Beside, SameCodes
  <2> QED BY <2>1 DEF Codes, Personal, Other, Beside, SameCodes
<1>3. Spent'
  BY DEF Codes, Spent, Other, Beside, SameCodes
<1> QED BY <1>1, <1>2, <1>3 DEF Codes

LEMMA CodesIssued == ASSUME Shape, Codes, NEW r \in Request, SetResetCode(r) PROVE Codes'
<1>1. PICK u \in Member : Rows(u, Issued(account[u]))
  BY Issuing
<1>2. account'[u].code = codes + 1 /\ \A v \in Member \ {u} : account'[v].code = account[v].code
  BY <1>1, IssuedRow DEF Rows, SameRow, Shape, AccountsOK
<1>3. \A q \in Request : Tallying(q)' => SameClaim(q) /\ Tallying(q)
  BY Ending, LeavesClaims DEF SetResetCode, Shape
<1>4. codes' = codes + 1 /\ codes \in Nat /\ redeemed' = redeemed
  BY DEF SetResetCode, Shape, NumbersOK, history
<1>6. Held'
  BY <1>3, <1>4 DEF Codes, Held, Tallying, SameClaim
<1>7. Personal'
  <2>1. ASSUME NEW v \in Member PROVE account'[v].code \in {NoCode} \cup 1..codes'
    BY <1>2, <1>4 DEF Codes, Personal, NoCode
  <2>2. ASSUME NEW v \in Member, NEW w \in Member,
               account'[v].code = account'[w].code, account'[v].code # NoCode
        PROVE  v = w
    BY <2>2, <1>2, <1>4 DEF Codes, Personal, NoCode
  <2>3. ASSUME NEW v \in Member, NEW q \in Request, job'[q].pc = "set", job'[q].code = account'[v].code
        PROVE  job'[q].user = {v}
    <3>1. job[q].pc = "set" /\ job[q].code = job'[q].code /\ job'[q].user = job[q].user
      BY <2>3, <1>3 DEF Tallying, SameClaim
    <3>2. job[q].code \in 1..codes
      BY <3>1 DEF Codes, Held
    <3> QED BY <2>3, <3>1, <3>2, <1>2, <1>4 DEF Codes, Personal
  <2> QED BY <2>1, <2>2, <2>3 DEF Personal
<1>8. Spent'
  BY <1>2, <1>4 DEF Codes, Spent
<1> QED BY <1>6, <1>7, <1>8 DEF Codes

LEMMA CodesBumped == ASSUME Shape, Codes, NEW r \in Request, BumpResetAttempt(r) PROVE Codes'
<1>1. PICK u \in Member : Rows(u, Bumped(account[u]))
  BY Bumping
<1>2. /\ account'[u].code \in {NoCode, account[u].code}
      /\ \A v \in Member \ {u} : account'[v].code = account[v].code
  BY <1>1, BumpedRow DEF Rows, SameRow, Shape, AccountsOK
<1>3. \A q \in Request : Tallying(q)' => SameClaim(q) /\ Tallying(q)
  BY Ending, LeavesClaims DEF BumpResetAttempt, Shape
<1>4. codes' = codes /\ codes \in Nat /\ redeemed' = redeemed
  BY DEF BumpResetAttempt, Shape, NumbersOK, history
<1>5. Held'
  BY <1>3, <1>4 DEF Codes, Held, Tallying, SameClaim
<1>6. Personal'
  <2>1. ASSUME NEW v \in Member, NEW q \in Request, job'[q].pc = "set", job'[q].code = account'[v].code
        PROVE  job'[q].user = {v}
    <3>1. job[q].pc = "set" /\ job[q].code = job'[q].code /\ job'[q].user = job[q].user
      BY <2>1, <1>3 DEF Tallying, SameClaim
    <3>2. job[q].code \in 1..codes
      BY <3>1 DEF Codes, Held
    <3>3. account'[v].code = account[v].code
      BY <2>1, <3>1, <3>2, <1>2, <1>4 DEF NoCode
    <3> QED BY <2>1, <3>1, <3>3 DEF Codes, Personal
  <2>2. \A v, w \in Member : account'[v].code = account'[w].code /\ account'[v].code # NoCode => v = w
    BY <1>2 DEF Codes, Personal
  <2> QED BY <2>1, <2>2, <1>2, <1>4 DEF Codes, Personal
<1>7. Spent'
  BY <1>2, <1>4 DEF Codes, Spent, NoCode
<1> QED BY <1>5, <1>6, <1>7 DEF Codes

LEMMA CodesReset == ASSUME Shape, Codes, NEW r \in Request, SetPasswordAndClearReset(r) PROVE Codes'
<1>1. PICK u \in Member : u \in job[r].user /\ Rows(u, Reset(account[u]))
  BY Resetting
<1>2. account'[u].code = NoCode /\ \A v \in Member \ {u} : account'[v].code = account[v].code
  BY <1>1, ResetRow DEF Rows, SameRow, Shape, AccountsOK
<1>3. \A q \in Request : Tallying(q)' => SameClaim(q) /\ Tallying(q)
  BY PasswordSet, LeavesClaims
<1>4. codes' = codes /\ codes \in Nat /\ redeemed' = redeemed \cup {job[r].code} /\ job[r].pc = "set"
  BY DEF SetPasswordAndClearReset, Shape, NumbersOK
<1>5. Held'
  BY <1>3, <1>4 DEF Codes, Held, Tallying, SameClaim
<1>6. Personal'
  <2>1. ASSUME NEW v \in Member, NEW q \in Request, job'[q].pc = "set", job'[q].code = account'[v].code
        PROVE  job'[q].user = {v}
    <3>1. job[q].pc = "set" /\ job[q].code = job'[q].code /\ job'[q].user = job[q].user
      BY <2>1, <1>3 DEF Tallying, SameClaim
    <3>2. job[q].code \in 1..codes
      BY <3>1 DEF Codes, Held
    <3>3. account'[v].code = account[v].code
      BY <2>1, <3>1, <3>2, <1>2, <1>4 DEF NoCode
    <3> QED BY <2>1, <3>1, <3>3 DEF Codes, Personal
  <2>2. \A v, w \in Member : account'[v].code = account'[w].code /\ account'[v].code # NoCode => v = w
    BY <1>2 DEF Codes, Personal
  <2> QED BY <2>1, <2>2, <1>2, <1>4 DEF Codes, Personal
<1>7. Spent'
  <2>1. job[r].code \in 1..codes
    BY <1>4 DEF Codes, Held
  <2>2. ASSUME NEW v \in Member \ {u} PROVE account[v].code # job[r].code
    BY <1>1, <1>4 DEF Codes, Personal
  <2>3. redeemed' \subseteq 1..codes'
    BY <1>4, <2>1 DEF Codes, Spent
  <2>4. NoCode \notin redeemed'
    BY <1>4, <2>3 DEF NoCode
  <2>5. ASSUME NEW v \in Member \ {u} PROVE account'[v].code \notin redeemed'
    BY <1>2, <1>4, <2>2 DEF Codes, Spent
  <2>6. \A v \in Member : account'[v].code \notin redeemed'
    BY <1>2, <2>4, <2>5
  <2> QED BY <2>3, <2>6 DEF Spent
<1> QED BY <1>5, <1>6, <1>7 DEF Codes

LEMMA CodesRedeemed ==
  ASSUME Shape, Codes, NEW r \in Request, NEW u \in Member, NEW c, Redeem(r, u, c) PROVE Codes'
<1>1. PICK j : /\ JobOK(j) /\ Becomes(r, j) /\ j.user = {u} /\ j.code = c
               /\ j.pc = IF c = account[u].code THEN "set" ELSE "bump"
  BY Redeeming
<1>2. \A q \in Request \ {r} : SameClaim(q)
  BY <1>1 DEF Becomes
<1>3. job'[r] = j
  BY <1>1 DEF Becomes
<1>4. UNCHANGED <<account, codes, redeemed>> /\ account[u].code # NoCode
  BY DEF Redeem
<1>6. ASSUME job'[r].pc = "set" PROVE job'[r].code = account[u].code /\ job'[r].user = {u}
  BY <1>1, <1>3, <1>6
<1>7. Held'
  BY <1>2, <1>4, <1>6 DEF Codes, Held, Personal, SameClaim
<1>8. Personal'
  <2>1. ASSUME NEW v \in Member, NEW q \in Request, job'[q].pc = "set", job'[q].code = account'[v].code
        PROVE  job'[q].user = {v}
    BY <2>1, <1>2, <1>4, <1>6 DEF Codes, Personal, SameClaim
  <2> QED BY <2>1, <1>4 DEF Codes, Personal
<1> QED BY <1>4, <1>7, <1>8 DEF Codes, Spent

LEMMA CodesStep == ASSUME Shape, Codes, Next PROVE Codes'
BY OtherSteps, CodesOther, CodesIssued, CodesBumped, CodesReset, CodesRedeemed

LEMMA CodesStutter == ASSUME Shape, Codes, UNCHANGED vars PROVE Shape' /\ Codes'
<1>1. Shape'
  BY DEF vars, Shape, NumbersOK, AccountsOK, JobsOK, JobOK, SessionsOK, SessionOK
<1>2. Codes'
  BY DEF vars, history, Codes, Held, Personal, Spent, Tallying
<1> QED BY <1>1, <1>2

(* No request gets past the check of a code that was redeemed.             *)
THEOREM ResetCodesAreSingleUse == Spec => RedeemedCodesAreDead
<1> DEFINE Dead == \A r \in Request :
                     job[r].pc = "idle" /\ job'[r].pc = "set" => job'[r].code \notin redeemed
<1>1. (Shape /\ Codes) /\ [Next]_vars => (Shape /\ Codes)'
  BY ShapeStep, CodesStep, CodesStutter
<1>2. ASSUME Shape, Codes, Next PROVE Dead
  <2>1. SUFFICES ASSUME NEW q \in Request, job[q].pc = "idle", job'[q].pc = "set"
                 PROVE  job'[q].code \notin redeemed
    OBVIOUS
  <2>2. Tallying(q)' /\ ~Tallying(q)
    BY <2>1 DEF Tallying
  <2>3. ~Other
    BY <2>2, AsideClaims DEF Other, Beside
  <2>4. ASSUME NEW r \in Request, SetResetCode(r) \/ BumpResetAttempt(r) \/ SetPasswordAndClearReset(r)
        PROVE  FALSE
    <3>1. Leaves(r)
      BY <1>2, <2>4, Ending, PasswordSet DEF SetResetCode, BumpResetAttempt, Shape
    <3> QED BY <3>1, <2>2, LeavesClaims
  <2>5. ASSUME NEW r \in Request, NEW u \in Member, NEW c, Redeem(r, u, c)
        PROVE  job'[q].code \notin redeemed
    <3>1. PICK j : /\ Becomes(r, j) /\ j.code = c
                   /\ j.pc = IF c = account[u].code THEN "set" ELSE "bump"
      BY <1>2, <2>5, Redeeming
    <3>2. q = r /\ job'[r] = j
      BY <2>1, <3>1 DEF Becomes, SameClaim
    <3>3. job'[q].code = account[u].code
      BY <2>1, <3>1, <3>2
    <3> QED BY <1>2, <3>3 DEF Codes, Spent
  <2> QED BY <1>2, <2>3, <2>4, <2>5, OtherSteps
<1>3. (Shape /\ Codes) /\ [Next]_vars => [Dead]_vars
  BY <1>2
<1> QED BY <1>1, <1>3, ShapeInit, CodesInit, PTL DEF Spec, RedeemedCodesAreDead

----------------------------------------------------------------------------
(* Guesses: those at a member's code are counted, about to be, or cut.     *)
Guessing(u) == {q \in Request : job[q].pc = "bump" /\ job[q].user = {u}}
Counted ==
  \A u \in Member : account[u].code # NoCode =>
    guesses[account[u].code] <= account[u].attempts + Cardinality(Guessing(u)) + cuts
Tally ==
  /\ codes \in 0..MaxCodes /\ guesses \in [Code -> Nat]
  /\ \A c \in Code : c > codes => guesses[c] = 0
  /\ Counted /\ GuessesBounded
IInv == Shape /\ Codes /\ Tally

LEMMA GuessingIsFinite ==
  ASSUME NEW u
  PROVE  /\ IsFiniteSet(Guessing(u)) /\ Cardinality(Guessing(u)) \in Nat
         /\ IsFiniteSet(Guessing(u)') /\ Cardinality(Guessing(u)') \in Nat
         /\ Cardinality(Guessing(u)') <= Cardinality(Request) /\ Cardinality(Request) \in Nat
<1>1. Guessing(u) \subseteq Request /\ Guessing(u)' \subseteq Request /\ IsFiniteSet(Request)
  BY ConstantsAssumption DEF Guessing
<1>2. IsFiniteSet(Guessing(u)) /\ IsFiniteSet(Guessing(u)')
  BY <1>1, FS_Subset
<1> QED BY <1>1, <1>2, FS_Subset, FS_CardinalityType

LEMMA MoreGuess ==
  ASSUME NEW u, Guessing(u) \subseteq Guessing(u)'
  PROVE  Cardinality(Guessing(u)) <= Cardinality(Guessing(u)')
BY FS_Subset, GuessingIsFinite

LEMMA OneGuessesNoMore ==
  ASSUME NEW u, NEW r, Guessing(u) \ {r} \subseteq Guessing(u)'
  PROVE  Cardinality(Guessing(u)) <= Cardinality(Guessing(u)') + 1
<1>1. IsFiniteSet(Guessing(u) \ {r}) /\ Cardinality(Guessing(u) \ {r}) \in Nat
  BY GuessingIsFinite, FS_Subset, FS_CardinalityType
<1>2. Cardinality(Guessing(u) \ {r}) <= Cardinality(Guessing(u)')
  BY FS_Subset, GuessingIsFinite
<1>3. Cardinality(Guessing(u)) <= Cardinality(Guessing(u) \ {r}) + 1
  BY FS_RemoveElement, GuessingIsFinite, <1>1
<1> QED BY <1>1, <1>2, <1>3, GuessingIsFinite

LEMMA GuessingAside ==
  ASSUME Shape, NumbersOK', Aside, NEW u
  PROVE  Cardinality(Guessing(u)) + cuts <= Cardinality(Guessing(u)') + cuts' /\ cuts' >= cuts
<1>0. cuts \in Nat /\ cuts' \in Nat
  BY DEF Shape, NumbersOK
<1>1. CASE cuts' >= cuts /\ \A q \in Request : SameClaim(q) \/ (~Tallying(q) /\ ~Tallying(q)')
  <2>1. Guessing(u) \subseteq Guessing(u)'
    BY <1>1 DEF Guessing, SameClaim, Tallying
  <2>2. Cardinality(Guessing(u)) <= Cardinality(Guessing(u)')
    BY <2>1, MoreGuess
  <2> QED BY <1>0, <1>1, <2>2, GuessingIsFinite
<1>2. CASE /\ cuts' = cuts + 1
           /\ \E r \in Request : ~Tallying(r)' /\ \A q \in Request \ {r} : SameClaim(q)
  <2>1. PICK r \in Request : \A q \in Request \ {r} : SameClaim(q)
    BY <1>2
  <2>2. Guessing(u) \ {r} \subseteq Guessing(u)'
    BY <2>1 DEF Guessing, SameClaim
  <2>3. Cardinality(Guessing(u)) <= Cardinality(Guessing(u)') + 1
    BY <2>2, OneGuessesNoMore
  <2> QED BY <1>0, <1>2, <2>3, GuessingIsFinite
<1> QED BY <1>1, <1>2 DEF Aside

LEMMA OthersGuess ==
  ASSUME NEW r \in Request, NEW j, Becomes(r, j), NEW u, r \notin Guessing(u)
  PROVE  Guessing(u) \subseteq Guessing(u)'
BY DEF Becomes, SameClaim, Guessing

LEMMA TallyInit == Init => Tally
<1> SUFFICES ASSUME Init PROVE Tally
  OBVIOUS
<1>1. codes \in 0..MaxCodes /\ guesses \in [Code -> Nat] /\ (\A c \in Code : guesses[c] = 0) /\ cuts = 0
  BY ConstantsAssumption DEF Init
<1>2. Counted
  BY DEF Init, Counted
<1>3. Cardinality(Request) \in Nat
  BY ConstantsAssumption, FS_CardinalityType
<1>4. GuessesBounded
  BY <1>1, <1>3, ConstantsAssumption DEF GuessesBounded
<1> QED BY <1>1, <1>2, <1>4 DEF Tally

\* What was bounded stays so, while nothing is guessed.
LEMMA BoundStays ==
  ASSUME Tally, cuts \in Nat, cuts' \in Int, cuts' >= cuts, guesses' = guesses
  PROVE  GuessesBounded'
<1>1. Cardinality(Request) \in Nat
  BY ConstantsAssumption, FS_CardinalityType
<1>2. SUFFICES ASSUME NEW c \in Code PROVE guesses[c] < MaxAttempts + Cardinality(Request) + cuts'
  BY DEF GuessesBounded
<1>3. guesses[c] \in Nat /\ guesses[c] < MaxAttempts + Cardinality(Request) + cuts
  BY DEF Tally, GuessesBounded
<1> QED BY <1>1, <1>3, ConstantsAssumption

LEMMA CodeIsACode ==
  ASSUME Tally, Codes, NEW u \in Member, account[u].code # NoCode
  PROVE  account[u].code \in 1..codes /\ account[u].code \in Code /\ guesses[account[u].code] \in Nat
<1>1. account[u].code \in 1..codes
  BY DEF Codes, Personal
<1>2. 1..codes \subseteq Code
  BY ConstantsAssumption DEF Tally, Code
<1> QED BY <1>1, <1>2 DEF Tally

LEMMA TallyOther == ASSUME Shape, NumbersOK', Codes, Tally, Other PROVE Tally'
<1>1. /\ codes' = codes /\ guesses' = guesses /\ Aside
      /\ \A u \in Member : account'[u].code = account[u].code /\ account'[u].attempts = account[u].attempts
  BY DEF Other, Beside, SameCodes
<1>2. Counted'
  <2>1. SUFFICES ASSUME NEW u \in Member, account'[u].code # NoCode
                 PROVE  guesses'[account'[u].code]
                          <= account'[u].attempts + Cardinality(Guessing(u)') + cuts'
    BY DEF Counted
  <2>2. guesses[account[u].code] <= account[u].attempts + Cardinality(Guessing(u)) + cuts
    BY <1>1, <2>1 DEF Tally, Counted
  <2>3. guesses[account[u].code] \in Nat /\ account[u].attempts \in Nat /\ cuts \in Nat
    BY <1>1, <2>1, CodeIsACode DEF Shape, AccountsOK, NumbersOK
  <2>4. Cardinality(Guessing(u)) + cuts <= Cardinality(Guessing(u)') + cuts' /\ cuts' \in Nat
    BY <1>1, GuessingAside DEF NumbersOK
  <2> QED BY <1>1, <2>2, <2>3, <2>4, GuessingIsFinite
<1>3. GuessesBounded'
  BY <1>1, GuessingAside, BoundStays DEF Shape, NumbersOK
<1> QED BY <1>1, <1>2, <1>3 DEF Tally

LEMMA TallyIssued == ASSUME Shape, Codes, Tally, NEW r \in Request, SetResetCode(r) PROVE Tally'
<1>1. PICK u \in Member : Rows(u, Issued(account[u]))
  BY Issuing
<1>2. /\ account'[u].code = codes + 1 /\ account'[u].attempts = 0
      /\ \A v \in Member \ {u} : account'[v] = account[v]
  BY <1>1, IssuedRow DEF Rows, SameRow, Shape, AccountsOK
<1>3. codes' = codes + 1 /\ codes' \in 0..MaxCodes /\ codes \in Nat /\ guesses' = guesses /\ cuts' = cuts /\ cuts \in Nat
  BY ConstantsAssumption DEF SetResetCode, Shape, NumbersOK, history
<1>4. PICK j : Becomes(r, j)
  BY Ending DEF SetResetCode, Shape, Leaves
<1>5. ASSUME NEW v \in Member, account'[v].code # NoCode
      PROVE  guesses'[account'[v].code] <= account'[v].attempts + Cardinality(Guessing(v)') + cuts'
  <2>1. CASE v = u
    <3>1. codes + 1 \in Code /\ guesses[codes + 1] = 0
      BY <1>3, ConstantsAssumption DEF Tally, Code
    <3> QED BY <2>1, <3>1, <1>2, <1>3, GuessingIsFinite
  <2>2. CASE v # u
    <3>1. account'[v] = account[v]
      BY <1>2, <2>2
    <3>2. guesses[account[v].code] <= account[v].attempts + Cardinality(Guessing(v)) + cuts
      BY <3>1, <1>5 DEF Tally, Counted
    <3>3. Cardinality(Guessing(v)) <= Cardinality(Guessing(v)')
      BY <1>4, OthersGuess, MoreGuess DEF SetResetCode, Guessing
    <3>4. guesses[account[v].code] \in Nat /\ account[v].attempts \in Nat
      BY <3>1, <1>5, CodeIsACode DEF Shape, AccountsOK
    <3> QED BY <1>3, <3>1, <3>2, <3>3, <3>4, GuessingIsFinite
  <2> QED BY <2>1, <2>2
<1>6. \A c \in Code : c > codes' => guesses'[c] = 0
  BY <1>3 DEF Tally, Code
<1>7. Counted'
  BY <1>5 DEF Counted
<1>8. GuessesBounded'
  BY <1>3, BoundStays
<1> QED BY <1>3, <1>6, <1>7, <1>8 DEF Tally

LEMMA TallyBumped == ASSUME Shape, Codes, Tally, NEW r \in Request, BumpResetAttempt(r) PROVE Tally'
<1>1. PICK u \in Member : u \in job[r].user /\ Rows(u, Bumped(account[u]))
  BY Bumping
<1>2. /\ account'[u].code # NoCode => account'[u].code = account[u].code
      /\ account'[u].attempts = account[u].attempts + 1
      /\ \A v \in Member \ {u} : account'[v] = account[v]
  BY <1>1, BumpedRow DEF Rows, SameRow, Shape, AccountsOK
<1>3. codes' = codes /\ guesses' = guesses /\ cuts' = cuts /\ cuts \in Nat
  BY DEF BumpResetAttempt, Shape, NumbersOK, history
<1>4. PICK j : Becomes(r, j)
  BY Ending DEF BumpResetAttempt, Shape, Leaves
<1>5. job[r].user = {u}
  BY <1>1 DEF BumpResetAttempt, Shape, JobsOK, JobOK
<1>6. ASSUME NEW v \in Member, account'[v].code # NoCode
      PROVE  guesses'[account'[v].code] <= account'[v].attempts + Cardinality(Guessing(v)') + cuts'
  <2>1. account'[v].code = account[v].code
    BY <1>2, <1>6
  <2>2. guesses[account[v].code] <= account[v].attempts + Cardinality(Guessing(v)) + cuts
    BY <2>1, <1>6 DEF Tally, Counted
  <2>3. guesses[account[v].code] \in Nat /\ account[v].attempts \in Nat
    BY <2>1, <1>6, CodeIsACode DEF Shape, AccountsOK
  <2>4. CASE v = u
    <3>1. Guessing(v) \ {r} \subseteq Guessing(v)'
      BY <1>4 DEF Becomes, SameClaim, Guessing
    <3>2. Cardinality(Guessing(v)) <= Cardinality(Guessing(v)') + 1
      BY <3>1, OneGuessesNoMore
    <3> QED BY <1>2, <1>3, <2>1, <2>2, <2>3, <2>4, <3>2, GuessingIsFinite
  <2>5. CASE v # u
    <3>1. Cardinality(Guessing(v)) <= Cardinality(Guessing(v)')
      BY <1>4, <1>5, <2>5, OthersGuess, MoreGuess DEF Guessing
    <3>2. account'[v] = account[v]
      BY <1>2, <2>5
    <3> QED BY <1>3, <2>2, <2>3, <3>1, <3>2, GuessingIsFinite
  <2> QED BY <2>4, <2>5
<1>7. Counted'
  BY <1>6 DEF Counted
<1>8. GuessesBounded'
  BY <1>3, BoundStays
<1> QED BY <1>3, <1>7, <1>8 DEF Tally

LEMMA TallyReset == ASSUME Shape, Codes, Tally, NEW r \in Request, SetPasswordAndClearReset(r) PROVE Tally'
<1>1. PICK u \in Member : Rows(u, Reset(account[u]))
  BY Resetting
<1>2. account'[u].code = NoCode /\ \A v \in Member \ {u} : account'[v] = account[v]
  BY <1>1, ResetRow DEF Rows, SameRow, Shape, AccountsOK
<1>3. codes' = codes /\ guesses' = guesses /\ cuts' = cuts /\ cuts \in Nat
  BY DEF SetPasswordAndClearReset, Shape, NumbersOK
<1>4. PICK j : Becomes(r, j)
  BY PasswordSet DEF Leaves
<1>5. ASSUME NEW v \in Member, account'[v].code # NoCode
      PROVE  guesses'[account'[v].code] <= account'[v].attempts + Cardinality(Guessing(v)') + cuts'
  <2>1. account'[v] = account[v]
    BY <1>2, <1>5
  <2>2. guesses[account[v].code] <= account[v].attempts + Cardinality(Guessing(v)) + cuts
    BY <2>1, <1>5 DEF Tally, Counted
  <2>3. Cardinality(Guessing(v)) <= Cardinality(Guessing(v)')
    BY <1>4, OthersGuess, MoreGuess DEF SetPasswordAndClearReset, Guessing
  <2>4. guesses[account[v].code] \in Nat /\ account[v].attempts \in Nat
    BY <2>1, <1>5, CodeIsACode DEF Shape, AccountsOK
  <2> QED BY <1>3, <2>1, <2>2, <2>3, <2>4, GuessingIsFinite
<1>6. Counted'
  BY <1>5 DEF Counted
<1>7. GuessesBounded'
  BY <1>3, BoundStays
<1> QED BY <1>3, <1>6, <1>7 DEF Tally

LEMMA TallyRedeemed ==
  ASSUME Shape, Codes, Tally, NEW r \in Request, NEW u \in Member, NEW c, Redeem(r, u, c) PROVE Tally'
<1> DEFINE k == account[u].code
<1>1. PICK j : /\ JobOK(j) /\ Becomes(r, j) /\ j.user = {u} /\ j.code = c
               /\ j.pc = IF c = account[u].code THEN "set" ELSE "bump"
  BY Redeeming
<1>2. /\ UNCHANGED <<account, codes, cuts>> /\ k # NoCode /\ job[r].pc = "idle"
      /\ account[u].attempts < MaxAttempts /\ cuts \in Nat
      /\ guesses' = IF c = k THEN guesses ELSE [guesses EXCEPT ![k] = @ + 1]
  BY DEF Redeem, Shape, NumbersOK
<1>3. k \in 1..codes /\ k \in Code /\ guesses[k] \in Nat
  BY <1>2, CodeIsACode
<1>4. ASSUME NEW v \in Member
      PROVE  Guessing(v) \subseteq Guessing(v)' /\ Cardinality(Guessing(v)) <= Cardinality(Guessing(v)')
  BY <1>1, <1>2, OthersGuess, MoreGuess DEF Guessing
<1>5. CASE c = k
  <2>1. guesses' = guesses
    BY <1>2, <1>5
  <2>2. ASSUME NEW v \in Member, account[v].code # NoCode
        PROVE  guesses[account[v].code] <= account[v].attempts + Cardinality(Guessing(v)') + cuts
    <3>1. guesses[account[v].code] <= account[v].attempts + Cardinality(Guessing(v)) + cuts
      BY <2>2 DEF Tally, Counted
    <3>2. guesses[account[v].code] \in Nat /\ account[v].attempts \in Nat
      BY <2>2, CodeIsACode DEF Shape, AccountsOK
    <3> QED BY <1>2, <1>4, <3>1, <3>2, GuessingIsFinite
  <2>3. Counted'
    BY <1>2, <2>1, <2>2 DEF Counted
  <2>4. GuessesBounded'
    BY <1>2, <2>1, BoundStays
  <2> QED BY <1>2, <2>1, <2>3, <2>4 DEF Tally
<1>6. CASE c # k
  <2>1. guesses' \in [Code -> Nat] /\ guesses'[k] = guesses[k] + 1
        /\ \A d \in Code \ {k} : guesses'[d] = guesses[d]
    BY <1>2, <1>3, <1>6 DEF Tally
  <2>2. Cardinality(Guessing(u)) + 1 <= Cardinality(Guessing(u)')
    <3>1. r \notin Guessing(u)
      BY <1>2 DEF Guessing
    <3>2. r \in Guessing(u)'
      BY <1>1, <1>6 DEF Becomes, Guessing
    <3>3. Cardinality(Guessing(u) \cup {r}) = Cardinality(Guessing(u)) + 1
      BY <3>1, FS_AddElement, GuessingIsFinite
    <3>4. Guessing(u) \cup {r} \subseteq Guessing(u)'
      BY <3>2, <1>4
    <3> QED BY <3>3, <3>4, FS_Subset, GuessingIsFinite
  <2>3. /\ guesses[k] <= account[u].attempts + Cardinality(Guessing(u)) + cuts
        /\ account[u].attempts \in Nat
    BY <1>2 DEF Tally, Counted, Shape, AccountsOK
  <2>4. guesses'[k] <= account[u].attempts + Cardinality(Guessing(u)') + cuts
    BY <1>2, <1>3, <2>1, <2>2, <2>3, GuessingIsFinite
  <2>5. ASSUME NEW v \in Member, account[v].code # NoCode
        PROVE  guesses'[account[v].code] <= account[v].attempts + Cardinality(Guessing(v)') + cuts
    <3>1. CASE v = u
      BY <2>4, <3>1
    <3>2. CASE v # u
      <4>1. account[v].code # k /\ account[v].code \in Code /\ guesses[account[v].code] \in Nat
        BY <2>5, <3>2, CodeIsACode DEF Codes, Personal
      <4>2. guesses[account[v].code] <= account[v].attempts + Cardinality(Guessing(v)) + cuts
        BY <2>5 DEF Tally, Counted
      <4>3. account[v].attempts \in Nat
        BY DEF Shape, AccountsOK
      <4> QED BY <1>2, <1>4, <2>1, <4>1, <4>2, <4>3, GuessingIsFinite
    <3> QED BY <3>1, <3>2
  <2>6. Counted'
    BY <1>2, <2>5 DEF Counted
  <2>7. ASSUME NEW d \in Code PROVE guesses'[d] < MaxAttempts + Cardinality(Request) + cuts
    <3>1. CASE d = k
      BY <1>2, <1>3, <2>1, <2>3, <2>4, <3>1, GuessingIsFinite, ConstantsAssumption
    <3>2. CASE d # k
      BY <2>1, <3>2 DEF Tally, GuessesBounded
    <3> QED BY <3>1, <3>2
  <2>8. GuessesBounded'
    BY <1>2, <2>7 DEF GuessesBounded
  <2>9. \A d \in Code : d > codes => guesses'[d] = 0
    BY <1>3, <2>1 DEF Tally, Code
  <2> QED BY <1>2, <2>1, <2>6, <2>8, <2>9 DEF Tally
<1> QED BY <1>5, <1>6

LEMMA TallyStep == ASSUME IInv, Next PROVE Tally'
BY OtherSteps, NumbersStay, TallyOther, TallyIssued, TallyBumped, TallyReset, TallyRedeemed DEF IInv

(* The bound on wrong guesses is part of an inductive invariant.           *)
THEOREM WrongGuessesAreBounded == Spec => []GuessesBounded
<1>1. Init => IInv
  BY ShapeInit, CodesInit, TallyInit DEF IInv
<1>2. IInv /\ [Next]_vars => IInv'
  <2>1. ASSUME IInv, Next PROVE IInv'
    BY <2>1, ShapeStep, CodesStep, TallyStep DEF IInv
  <2>2. ASSUME IInv, UNCHANGED vars PROVE IInv'
    <3>1. Tally'
      BY <2>2 DEF vars, history, IInv, Tally, Counted, Guessing, GuessesBounded
    <3> QED BY <2>2, <3>1, CodesStutter DEF IInv
  <2> QED BY <2>1, <2>2
<1>3. IInv => GuessesBounded
  BY DEF IInv, Tally
<1> QED BY <1>1, <1>2, <1>3, PTL DEF Spec

----------------------------------------------------------------------------
(* Passwords: a session or a request on its way to one is of the present   *)
(* password, or was overtaken or missed by a signing out everywhere, or one *)
(* is about to run.                                                        *)
Signing == {"issue", "purge", "reload"}
Purging(u, q) == job[q].pc = "purge" /\ u \in job[q].user
StillPurging(u, q) == job'[q].pc = "purge" /\ u \in job'[q].user
RequestsOfThePassword ==
  \A q \in Request : job[q].pc \in Signing =>
    \A u \in job[q].user :
      job[q].password < account[u].password => job[q].late \/ \E r \in Request \ {q} : Purging(u, r)
Passwords == SessionsOfThePassword /\ RequestsOfThePassword

\* A session that stays, as it was; one just made by a request; and a request
\* on its way as before, or begun now.
Stays(t) ==
  /\ t \in DOMAIN sessions
  /\ sessions'[t].user = sessions[t].user /\ sessions'[t].password = sessions[t].password
  /\ (sessions[t].late => sessions'[t].late) /\ (sessions[t].kept => sessions'[t].kept)
MadeBy(t, q) ==
  /\ job[q].pc = "issue" /\ sessions'[t].user \in job[q].user
  /\ sessions'[t].password = job[q].password /\ sessions'[t].late = job[q].late
GoesOn(q) ==
  /\ job[q].pc \in Signing /\ job'[q].user = job[q].user
  /\ job'[q].password = job[q].password /\ (job[q].late => job'[q].late)
Begins(q) == \A u \in job'[q].user : job'[q].password = account[u].password

SamePasswords == \A u \in Member : account'[u].password = account[u].password

(* Nobody is signed out and no password is set.                            *)
Peaceful ==
  /\ SamePasswords
  /\ \A t \in DOMAIN sessions' : Stays(t) \/ \E q \in Request : MadeBy(t, q)
  /\ \A q \in Request : job'[q].pc \in Signing => GoesOn(q) \/ Begins(q)
  /\ \A q \in Request : job[q].pc = "purge" => SameClaim(q)

LEMMA PeacefulKeeps == ASSUME Shape, Shape', Passwords, Peaceful PROVE Passwords'
<1>1. \A q \in Request, u \in Member : Purging(u, q) => StillPurging(u, q)
  BY DEF Peaceful, Purging, StillPurging, SameClaim
<1>2. \A u \in Member : account'[u].password = account[u].password /\ account[u].password \in Nat
  BY DEF Peaceful, SamePasswords, Shape, AccountsOK
<1>3. \A q \in Request : job[q].user \subseteq Member /\ job'[q].user \subseteq Member
  BY DEF Shape, JobsOK, JobOK
<1>4. SessionsOfThePassword'
  <2>1. SUFFICES ASSUME NEW t \in DOMAIN sessions', sessions'[t].password < account'[sessions'[t].user].password
                 PROVE  \/ sessions'[t].late \/ sessions'[t].kept
                        \/ \E r \in Request : StillPurging(sessions'[t].user, r)
    BY DEF SessionsOfThePassword, Purging, StillPurging
  <2>2. sessions'[t].user \in Member
    BY DEF Shape, SessionsOK, SessionOK
  <2>3. CASE Stays(t)
    BY <1>1, <1>2, <2>1, <2>2, <2>3 DEF Stays, Passwords, SessionsOfThePassword, Purging, StillPurging
  <2>4. ASSUME NEW q \in Request, MadeBy(t, q)
        PROVE  sessions'[t].late \/ \E r \in Request : StillPurging(sessions'[t].user, r)
    <3>1. job[q].late \/ \E r \in Request : Purging(sessions'[t].user, r)
      BY <1>2, <2>1, <2>2, <2>4 DEF MadeBy, Passwords, RequestsOfThePassword, Signing
    <3> QED BY <1>1, <2>2, <2>4, <3>1 DEF MadeBy
  <2> QED BY <2>3, <2>4 DEF Peaceful
<1>5. RequestsOfThePassword'
  <2>1. SUFFICES ASSUME NEW q \in Request, job'[q].pc \in Signing, NEW u \in job'[q].user,
                        job'[q].password < account'[u].password
                 PROVE  job'[q].late \/ \E r \in Request \ {q} : StillPurging(u, r)
    BY DEF RequestsOfThePassword, Purging, StillPurging
  <2>2. u \in Member /\ ~Begins(q)
    BY <1>2, <1>3, <2>1 DEF Begins
  <2>3. GoesOn(q)
    BY <2>1, <2>2 DEF Peaceful
  <2>4. job[q].late \/ \E r \in Request \ {q} : Purging(u, r)
    BY <1>2, <2>1, <2>2, <2>3 DEF GoesOn, Passwords, RequestsOfThePassword
  <2> QED BY <1>1, <2>2, <2>3, <2>4 DEF GoesOn
<1> QED BY <1>4, <1>5 DEF Passwords

(* A member is signed out everywhere by r, or was to be: sessions there are *)
(* now are of other members or were missed, and other requests were        *)
(* overtaken.                                                              *)
SignsOut(r, u) ==
  /\ job[r].user = {u} /\ SamePasswords
  /\ \A t \in DOMAIN sessions' : Stays(t) /\ (sessions[t].user = u => sessions'[t].kept)
  /\ \A q \in Request \ {r} :
       SameClaim(q) /\ (job[q].pc \in Signing /\ u \in job[q].user => job'[q].late)
  /\ job'[r].pc \in Signing => GoesOn(r)

LEMMA SigningOutKeeps ==
  ASSUME Shape, Shape', Passwords, NEW r \in Request, NEW u \in Member, SignsOut(r, u) PROVE Passwords'
<1>1. \A q \in Request, v \in Member \ {u} : Purging(v, q) => StillPurging(v, q)
  BY DEF SignsOut, Purging, StillPurging, SameClaim
<1>2. \A v \in Member : account'[v].password = account[v].password /\ account[v].password \in Nat
  BY DEF SignsOut, SamePasswords, Shape, AccountsOK
<1>3. \A q \in Request : job[q].user \subseteq Member /\ job'[q].user \subseteq Member
  BY DEF Shape, JobsOK, JobOK
<1>4. SessionsOfThePassword'
  <2>1. SUFFICES ASSUME NEW t \in DOMAIN sessions', sessions'[t].password < account'[sessions'[t].user].password,
                        ~sessions'[t].kept
                 PROVE  sessions'[t].late \/ \E q \in Request : StillPurging(sessions'[t].user, q)
    BY DEF SessionsOfThePassword, Purging, StillPurging
  <2>2. Stays(t) /\ sessions'[t].user \in Member \ {u}
    BY <2>1 DEF SignsOut, Stays, Shape, SessionsOK, SessionOK
  <2> QED BY <1>1, <1>2, <2>1, <2>2 DEF Stays, Passwords, SessionsOfThePassword, Purging, StillPurging
<1>5. RequestsOfThePassword'
  <2>1. SUFFICES ASSUME NEW q \in Request, job'[q].pc \in Signing, NEW v \in job'[q].user,
                        job'[q].password < account'[v].password
                 PROVE  job'[q].late \/ \E p \in Request \ {q} : StillPurging(v, p)
    BY DEF RequestsOfThePassword, Purging, StillPurging
  <2>2. v \in Member
    BY <1>3
  <2>3. GoesOn(q)
    BY <2>1 DEF SignsOut, SameClaim, GoesOn
  <2>4. job[q].late \/ \E p \in Request \ {q} : Purging(v, p)
    BY <1>2, <2>1, <2>2, <2>3 DEF GoesOn, Passwords, RequestsOfThePassword
  <2>5. CASE job[q].late
    BY <2>3, <2>5 DEF GoesOn
  <2>6. CASE q = r
    <3>1. ASSUME NEW p \in Request \ {q}, Purging(v, p) PROVE StillPurging(v, p)
      BY <2>6, <3>1 DEF SignsOut, Purging, StillPurging, SameClaim
    <3> QED BY <2>4, <2>5, <3>1
  <2>7. CASE q # r /\ v = u
    BY <2>3, <2>7 DEF SignsOut, GoesOn
  <2>8. CASE q # r /\ v # u
    BY <1>1, <2>2, <2>4, <2>5, <2>8
  <2> QED BY <2>6, <2>7, <2>8
<1> QED BY <1>4, <1>5 DEF Passwords

(* A password is set: whatever is of an earlier one awaits the purge.      *)
LEMMA SettingKeeps ==
  ASSUME Shape, Shape', Passwords, NEW r \in Request, SetPasswordAndClearReset(r) PROVE Passwords'
<1>1. PICK u \in Member : job[r].user = {u} /\ job[r].pc = "set"
  BY DEF SetPasswordAndClearReset, Shape, JobsOK, JobOK
<1>2. /\ account'[u].password = account[u].password + 1
      /\ \A v \in Member \ {u} : account'[v] = account[v]
  BY <1>1, Resetting, ResetRow DEF Rows, SameRow, Shape, AccountsOK
<1>3. /\ job'[r].pc = "purge" /\ job'[r].user = {u} /\ job'[r].password = account[u].password + 1
      /\ \A q \in Request \ {r} : SameClaim(q)
  BY <1>1, PasswordSet DEF Leaves, Becomes
<1>4. StillPurging(u, r) /\ \A q \in Request, v \in Member : Purging(v, q) => StillPurging(v, q)
  BY <1>1, <1>3 DEF Purging, StillPurging, SameClaim
<1>5. sessions' = sessions
  BY DEF SetPasswordAndClearReset
<1>6. SessionsOfThePassword'
  <2>1. SUFFICES ASSUME NEW t \in DOMAIN sessions, sessions[t].password < account'[sessions[t].user].password
                 PROVE  \/ sessions[t].late \/ sessions[t].kept
                        \/ \E q \in Request : StillPurging(sessions[t].user, q)
    BY <1>5 DEF SessionsOfThePassword, Purging, StillPurging
  <2>2. sessions[t].user \in Member
    BY DEF Shape, SessionsOK, SessionOK
  <2>3. CASE sessions[t].user = u
    BY <1>4, <2>3
  <2>4. CASE sessions[t].user # u
    BY <1>2, <1>4, <2>1, <2>2, <2>4 DEF Passwords, SessionsOfThePassword, Purging, StillPurging
  <2> QED BY <2>3, <2>4
<1>7. RequestsOfThePassword'
  <2>1. SUFFICES ASSUME NEW q \in Request, job'[q].pc \in Signing, NEW v \in job'[q].user,
                        job'[q].password < account'[v].password
                 PROVE  job'[q].late \/ \E p \in Request \ {q} : StillPurging(v, p)
    BY DEF RequestsOfThePassword, Purging, StillPurging
  <2>2. v \in Member /\ account[u].password \in Nat
    BY DEF Shape, JobsOK, JobOK, AccountsOK
  <2>3. q # r
    BY <1>2, <1>3, <2>1, <2>2
  <2>4. CASE v = u
    BY <1>4, <2>3, <2>4
  <2>5. CASE v # u
    <3>1. /\ job[q].pc \in Signing /\ v \in job[q].user /\ job[q].password < account[v].password
          /\ job[q].late => job'[q].late
      BY <1>2, <1>3, <2>1, <2>2, <2>3, <2>5 DEF SameClaim
    <3>2. job[q].late \/ \E p \in Request \ {q} : Purging(v, p)
      BY <3>1 DEF Passwords, RequestsOfThePassword
    <3> QED BY <1>4, <2>2, <3>1, <3>2
  <2> QED BY <2>4, <2>5
<1> QED BY <1>6, <1>7 DEF Passwords

----------------------------------------------------------------------------
(* What each step does to them.                                            *)
LEMMA SomeStay ==
  ASSUME NEW T, T \subseteq DOMAIN sessions, sessions' = [t \in T |-> sessions[t]]
  PROVE  DOMAIN sessions' = T /\ \A t \in DOMAIN sessions' : Stays(t)
BY DEF Stays

LEMMA AllStay == ASSUME UNCHANGED sessions PROVE \A t \in DOMAIN sessions' : Stays(t)
BY DEF Stays

LEMMA OneMoves ==
  ASSUME NEW r \in Request, \A q \in Request \ {r} : SameClaim(q), job[r].pc # "purge", SamePasswords,
         \A t \in DOMAIN sessions' : Stays(t) \/ MadeBy(t, r),
         job'[r].pc \in Signing => GoesOn(r) \/ Begins(r)
  PROVE  Peaceful
<1>1. \A q \in Request : job'[q].pc \in Signing => GoesOn(q) \/ Begins(q)
  BY DEF SameClaim, GoesOn
<1> QED BY <1>1 DEF Peaceful

LEMMA LeavesOthers ==
  ASSUME NEW r \in Request, Leaves(r) PROVE \A q \in Request \ {r} : SameClaim(q)
BY DEF Leaves, Becomes

LEMMA PeacefulMaking == ASSUME Shape, NEW r \in Request, CreateSession(r) PROVE Peaceful
<1> DEFINE n == tokens + 1
<1>1. /\ job[r].pc = "issue" /\ SamePasswords
      /\ Leaves(r) /\ job'[r].pc = "idle"
  BY Ending DEF CreateSession, SamePasswords, Shape
<1>2. PICK u \in job[r].user :
        sessions' = [s \in DOMAIN sessions \cup {n} |->
                       IF s = n
                       THEN [user |-> u, expires |-> now + TTL, created |-> now,
                             password |-> job[r].password, late |-> job[r].late, kept |-> FALSE]
                       ELSE sessions[s]]
  BY DEF CreateSession
<1>3. sessions'[n] = [user |-> u, expires |-> now + TTL, created |-> now,
                      password |-> job[r].password, late |-> job[r].late, kept |-> FALSE]
  BY <1>2
<1>4. MadeBy(n, r)
  BY <1>1, <1>3 DEF MadeBy
<1>5. ASSUME NEW t \in DOMAIN sessions', t # n PROVE Stays(t)
  BY <1>2, <1>5 DEF Stays
<1> QED BY <1>1, <1>4, <1>5, OneMoves, LeavesOthers DEF Signing

LEMMA PeacefulRows ==
  ASSUME Shape, NEW r \in Request, SetResetCode(r) \/ BumpResetAttempt(r) PROVE Peaceful
<1>1. /\ job[r].pc \in {"store", "bump"} /\ UNCHANGED sessions
      /\ Leaves(r) /\ job'[r].pc = "idle"
  BY Ending DEF SetResetCode, BumpResetAttempt, Shape
<1>2. SamePasswords
  <2>1. PICK u \in Member : Rows(u, Issued(account[u])) \/ Rows(u, Bumped(account[u]))
    BY Issuing, Bumping
  <2> QED BY <2>1, IssuedRow, BumpedRow DEF Rows, SameRow, SamePasswords, Shape, AccountsOK
<1> QED BY <1>1, <1>2, AllStay, OneMoves, LeavesOthers DEF Signing

LEMMA PeacefulReload == ASSUME Shape, NEW r \in Request, Reload(r) PROVE Peaceful
<1>1. job[r].pc = "reload" /\ UNCHANGED sessions /\ SamePasswords
  BY DEF Reload, SamePasswords
<1>2. Leaves(r) /\ (job'[r].pc = "idle" \/ GoesOn(r))
  BY <1>1, Ending, Going DEF Reload, Shape, GoesOn, Signing
<1> QED BY <1>1, <1>2, AllStay, OneMoves, LeavesOthers DEF Signing

LEMMA PeacefulSlide == ASSUME Shape, NEW r \in Request, ExtendSession(r) PROVE Peaceful
<1>1. job[r].pc = "slide" /\ SamePasswords
  BY DEF ExtendSession, SamePasswords
<1>2. \/ UNCHANGED sessions
      \/ /\ job[r].token \in DOMAIN sessions
         /\ sessions' = [sessions EXCEPT ![job[r].token].expires = Slid(sessions[job[r].token], job[r].at)]
  BY DEF ExtendSession, Unexpired
<1>3. ASSUME NEW s \in DOMAIN sessions, NEW e, sessions' = [sessions EXCEPT ![s].expires = e]
      PROVE  \A t \in DOMAIN sessions' : Stays(t)
  BY <1>3 DEF Stays, Shape, SessionsOK, SessionOK, SessionColumns
<1>4. \A t \in DOMAIN sessions' : Stays(t)
  BY <1>2, <1>3, AllStay
<1> QED BY <1>1, <1>4, Extending, OneMoves, LeavesOthers DEF Signing

LEMMA PeacefulLogout == ASSUME Shape, NEW r \in Request, Logout(r) PROVE Peaceful
<1> DEFINE T == DOMAIN sessions \ {job[r].token}
<1>1. job[r].pc = "logout" /\ SamePasswords /\ Leaves(r) /\ job'[r].pc = "idle"
  BY Ending DEF Logout, SamePasswords, Shape
<1>2. T \subseteq DOMAIN sessions /\ sessions' = [t \in T |-> sessions[t]]
  BY DEF Logout
<1> HIDE DEF T
<1> QED BY <1>1, <1>2, SomeStay, OneMoves, LeavesOthers DEF Signing

LEMMA PeacefulStart ==
  ASSUME Shape, NEW r \in Request, NEW u \in Member, Login(r, u) \/ IssueCode(r, u) \/ Revoke(r, u)
  PROVE  Peaceful
<1>1. job[r].pc = "idle" /\ UNCHANGED sessions
  BY DEF Login, IssueCode, Revoke
<1>2. SamePasswords
  BY DEF Login, IssueCode, Revoke, SamePasswords, Shape, AccountsOK, Columns
<1>3. Leaves(r) /\ (job'[r].pc \in Signing => Begins(r))
  BY LoggingIn, Ordering DEF Begins, Signing
<1> QED BY <1>1, <1>2, <1>3, AllStay, OneMoves, LeavesOthers

LEMMA PeacefulUse ==
  ASSUME Shape, NEW r \in Request, NEW t \in DOMAIN sessions, Authenticate(r, t) PROVE Peaceful
<1>1. job[r].pc = "idle" /\ UNCHANGED sessions /\ SamePasswords
  BY DEF Authenticate, SamePasswords
<1> QED BY <1>1, Authenticating, AllStay, OneMoves, LeavesOthers DEF Signing

LEMMA PeacefulRedemption ==
  ASSUME Shape, NEW r \in Request, NEW u \in Member, NEW c, Redeem(r, u, c) PROVE Peaceful
<1>1. job[r].pc = "idle" /\ UNCHANGED sessions /\ SamePasswords
  BY DEF Redeem, SamePasswords
<1>2. job'[r].pc \notin Signing /\ \A q \in Request \ {r} : SameClaim(q)
  BY Redeeming DEF Becomes, Signing
<1> QED BY <1>1, <1>2, AllStay, OneMoves

LEMMA PeacefulTime == ASSUME Shape, Cleanup \/ Pass PROVE Peaceful
<1>1. UNCHANGED <<job, account>>
  BY DEF Cleanup, Pass
<1>2. \A t \in DOMAIN sessions' : Stays(t)
  <2> DEFINE T == {s \in DOMAIN sessions : ~Stale(sessions[s])}
  <2>1. CASE Cleanup
    <3>1. T \subseteq DOMAIN sessions /\ sessions' = [t \in T |-> sessions[t]]
      BY <2>1 DEF Cleanup
    <3> HIDE DEF T
    <3> QED BY <3>1, SomeStay
  <2>2. CASE Pass
    BY <2>2, AllStay DEF Pass
  <2> QED BY <2>1, <2>2
<1> QED BY <1>1, <1>2 DEF Peaceful, SamePasswords, SameClaim, GoesOn

(* Signing out everywhere, done, failed or given up.                       *)
LEMMA SignedOutStay ==
  ASSUME Shape, NEW r \in Request, NEW u \in Member, job[r].user = {u},
         \/ sessions' = [t \in DOMAIN sessions \ SignedOut(u) |-> sessions[t]]
         \/ Missed(r)
  PROVE  \A t \in DOMAIN sessions' : Stays(t) /\ (sessions[t].user = u => sessions'[t].kept)
<1> DEFINE T == DOMAIN sessions \ SignedOut(u)
<1>1. CASE sessions' = [t \in T |-> sessions[t]]
  <2>1. \A t \in T : sessions[t].user # u
    BY DEF SignedOut, TokensOf
  <2>2. T \subseteq DOMAIN sessions
    OBVIOUS
  <2> HIDE DEF T
  <2> QED BY <1>1, <2>1, <2>2, SomeStay
<1>2. CASE Missed(r)
  <2>1. sessions' = [t \in DOMAIN sessions |->
                       IF t \in TokensOf(u) THEN [sessions[t] EXCEPT !.kept = TRUE] ELSE sessions[t]]
    BY <1>2 DEF Missed
  <2>2. DOMAIN sessions' = DOMAIN sessions
    BY <2>1
  <2>3. ASSUME NEW t \in DOMAIN sessions, sessions[t].user = u PROVE Stays(t) /\ sessions'[t].kept
    <3>1. sessions'[t] = [sessions[t] EXCEPT !.kept = TRUE] /\ DOMAIN sessions[t] = SessionColumns
      BY <2>1, <2>3 DEF TokensOf, Shape, SessionsOK, SessionOK
    <3> QED BY <3>1 DEF Stays, SessionColumns
  <2>4. ASSUME NEW t \in DOMAIN sessions, sessions[t].user # u PROVE Stays(t)
    BY <2>1, <2>4 DEF TokensOf, Stays
  <2> QED BY <2>2, <2>3, <2>4
<1> QED BY <1>1, <1>2

LEMMA OvertakenOthers ==
  ASSUME Shape, NEW r \in Request, NEW u, NEW j, job' = [Overtaken(u) EXCEPT ![r] = j]
  PROVE  \A q \in Request \ {r} :
           SameClaim(q) /\ (job[q].pc \in Signing /\ u \in job[q].user => job'[q].late)
<1>1. DOMAIN Overtaken(u) = Request
  BY DEF Overtaken
<1>2. \A q \in Request \ {r} : job'[q] = Overtaken(u)[q]
  BY <1>1
<1> QED BY <1>2, OvertakenJobs DEF SameClaim, Signing, Shape

LEMMA SigningOut ==
  ASSUME Shape, NEW r \in Request, Purge(r) \/ Kick(r) \/ (Cut(r) /\ job[r].pc \in {"purge", "kick"})
  PROVE  \E u \in Member : SignsOut(r, u)
<1>1. SamePasswords /\ job[r].pc \in {"purge", "kick"}
  BY DEF Purge, Kick, Cut, SamePasswords
<1>2. PICK u \in Member : job[r].user = {u}
  BY <1>1 DEF Shape, JobsOK, JobOK
<1>3. \/ sessions' = [t \in DOMAIN sessions \ SignedOut(u) |-> sessions[t]]
      \/ Missed(r)
  BY <1>2 DEF Purge, Kick, Cut, DeleteUserSessions
<1>4. \E j : job' = [Overtaken(u) EXCEPT ![r] = j]
  BY <1>2 DEF Purge, Kick, Cut, DeleteUserSessions
<1>5. job'[r].pc \in Signing => GoesOn(r)
  <2>1. ASSUME Kick(r) PROVE job'[r].pc = "idle"
    <3>1. job' = [Overtaken(u) EXCEPT ![r] = Idle]
      BY <1>2, <2>1 DEF Kick, DeleteUserSessions
    <3> QED BY <3>1, OvertakenBecomes, IdleIsAJob DEF Becomes, Shape
  <2>2. CASE Purge(r)
    BY <2>2, SignedOutEverywhere DEF Purge, GoesOn, Signing
  <2> QED BY <2>1, <2>2, BeingCut DEF Signing
<1> QED BY <1>1, <1>2, <1>3, <1>4, <1>5, SignedOutStay, OvertakenOthers DEF SignsOut

LEMMA PeacefulCut ==
  ASSUME Shape, NEW r \in Request, Cut(r), job[r].pc \notin {"purge", "kick"} PROVE Peaceful
<1>1. SamePasswords /\ UNCHANGED sessions
  BY DEF Cut, SamePasswords
<1> QED BY <1>1, BeingCut, AllStay, OneMoves, LeavesOthers DEF Signing

LEMMA PasswordsInit == Init => Passwords
BY DEF Init, Passwords, SessionsOfThePassword, RequestsOfThePassword, Idle, Signing

LEMMA PasswordsStep == ASSUME Shape, Passwords, Next PROVE Passwords'
<1>1. Shape'
  BY ShapeStep
<1>2. \/ Peaceful
      \/ \E r \in Request : SetPasswordAndClearReset(r) \/ \E u \in Member : SignsOut(r, u)
  <2>1. ASSUME NEW r \in Request, Step(r)
        PROVE  Peaceful \/ SetPasswordAndClearReset(r) \/ \E u \in Member : SignsOut(r, u)
    BY <2>1, PeacefulMaking, PeacefulRows, PeacefulReload, PeacefulSlide, PeacefulLogout,
       SigningOut, PeacefulCut DEF Step
  <2> QED BY <2>1, PeacefulStart, PeacefulUse, PeacefulRedemption, PeacefulTime DEF Next
<1> QED BY <1>1, <1>2, PeacefulKeeps, SigningOutKeeps, SettingKeeps

(* After a reset nobody is signed in with an earlier password, but for     *)
(* what overtook its signing out or was missed by it.                      *)
THEOREM ResetSignsOut == Spec => []SessionsOfThePassword
<1>1. Init => Shape /\ Passwords
  BY ShapeInit, PasswordsInit
<1>2. (Shape /\ Passwords) /\ [Next]_vars => (Shape /\ Passwords)'
  <2>1. ASSUME Shape, Passwords, Next PROVE (Shape /\ Passwords)'
    BY <2>1, ShapeStep, PasswordsStep
  <2>2. ASSUME Shape, Passwords, UNCHANGED vars PROVE (Shape /\ Passwords)'
    <3>1. Passwords'
      BY <2>2 DEF vars, history, Passwords, SessionsOfThePassword, RequestsOfThePassword, Purging
    <3>2. Shape'
      BY <2>2 DEF vars, Shape, NumbersOK, AccountsOK, JobsOK, JobOK, SessionsOK, SessionOK
    <3> QED BY <3>1, <3>2
  <2> QED BY <2>1, <2>2
<1>3. Shape /\ Passwords => SessionsOfThePassword
  BY DEF Passwords
<1> QED BY <1>1, <1>2, <1>3, PTL DEF Spec
=============================================================================
