---------------------------- MODULE JournalProofs ----------------------------
EXTENDS Journal, FiniteSetTheorems, TLAPS

(* What Journal's properties say for every scene, proved.  The machine's    *)
(* own invariant is small (Rows, Answers): the properties are about what    *)
(* the derived views compute from any rows, and so are the lemmas.  They    *)
(* rest on three things: a smallest counterexample, for induction over a    *)
(* finite set; listings, the sequences that hold a set in an order, which   *)
(* are unique; and the orders the code sorts by, which are strict and total *)
(* on the rows.                                                             *)

----------------------------------------------------------------------------
(* Finite sets.  Induction over a finite set is by a smallest counter-      *)
(* example, since strict inclusion is well-founded on its subsets.          *)
LEMMA SmallestIn ==
  ASSUME NEW S, IsFiniteSet(S), NEW B, B \subseteq SUBSET S, B # {}
  PROVE  \E T \in B : \A U \in B : U \subseteq T => U = T
<1> DEFINE R == StrictSubsetOrdering(S)
<1>1. IsWellFoundedOn(R, SUBSET S)
  BY FS_StrictSubsetOrderingWellFounded, FS_FiniteSubsetsOfFinite
<1>2. \E T \in B : \A U \in B : <<U, T>> \notin R
  BY <1>1, WFMin
<1> QED BY <1>2 DEF StrictSubsetOrdering

(* R puts any two elements of S in an order, and no element before itself.  *)
Orders(R, S) ==
  /\ \A x \in S : <<x, x>> \notin R
  /\ \A x, y \in S : x # y => <<x, y>> \in R \/ <<y, x>> \in R
  /\ \A x, y, z \in S : <<x, y>> \in R /\ <<y, z>> \in R => <<x, z>> \in R

LEMMA FirstOne ==
  ASSUME NEW S, IsFiniteSet(S), S # {}, NEW R, Orders(R, S)
  PROVE  \E x \in S : \A y \in S \ {x} : <<x, y>> \in R
<1> DEFINE top(T) == \E x \in T : \A y \in T \ {x} : <<x, y>> \in R
           B == {T \in SUBSET S : T # {} /\ ~top(T)}
<1>1. SUFFICES ASSUME B # {} PROVE FALSE
  OBVIOUS
<1>2. B \subseteq SUBSET S
  OBVIOUS
<1> HIDE DEF B
<1>3. PICK T \in B : \A U \in B : U \subseteq T => U = T
  BY <1>1, <1>2, SmallestIn
<1> USE DEF B
<1>4. PICK x \in T : TRUE
  OBVIOUS
<1>5. CASE T \ {x} = {}
  BY <1>4, <1>5
<1>6. CASE T \ {x} # {}
  <2>1. T \ {x} \in SUBSET S /\ T \ {x} \subseteq T /\ T \ {x} # T
    BY <1>4
  <2>2. top(T \ {x})
    BY <1>3, <1>6, <2>1
  <2>3. PICK y \in T \ {x} : \A z \in (T \ {x}) \ {y} : <<y, z>> \in R
    BY <2>2
  <2>4. CASE <<x, y>> \in R
    BY <2>3, <2>4, <1>4 DEF Orders
  <2>5. CASE <<y, x>> \in R
    BY <2>3, <2>5, <1>4
  <2> QED BY <2>3, <2>4, <2>5, <1>4 DEF Orders
<1> QED BY <1>5, <1>6

LEMMA MaxIs ==
  ASSUME NEW S, IsFiniteSet(S), \A x \in S : x \in Int, S # {}
  PROVE  Max(S) \in S /\ \A x \in S : x <= Max(S)
<1> DEFINE R == {p \in S \X S : p[1] > p[2]}
<1>1. Orders(R, S)
  BY DEF Orders
<1>2. PICK x \in S : \A y \in S \ {x} : <<x, y>> \in R
  <2> HIDE DEF R
  <2> QED BY <1>1, FirstOne
<1>3. \A y \in S : x >= y
  <2> TAKE y \in S
  <2>1. x \in Int /\ y \in Int
    OBVIOUS
  <2>2. y # x => <<x, y>>[1] > <<x, y>>[2]
    BY <1>2
  <2> QED BY <2>1, <2>2
<1> QED BY <1>3 DEF Max

LEMMA MinIs ==
  ASSUME NEW S, IsFiniteSet(S), \A x \in S : x \in Int, S # {}
  PROVE  Min(S) \in S /\ \A x \in S : Min(S) <= x
<1> DEFINE R == {p \in S \X S : p[1] < p[2]}
<1>1. Orders(R, S)
  BY DEF Orders
<1>2. PICK x \in S : \A y \in S \ {x} : <<x, y>> \in R
  <2> HIDE DEF R
  <2> QED BY <1>1, FirstOne
<1>3. \A y \in S : x <= y
  <2> TAKE y \in S
  <2>1. x \in Int /\ y \in Int
    OBVIOUS
  <2>2. y # x => <<x, y>>[1] < <<x, y>>[2]
    BY <1>2
  <2> QED BY <2>1, <2>2
<1> QED BY <1>3 DEF Min

LEMMA MostCommon ==
  ASSUME NEW count, IsFiniteSet(DOMAIN count), DOMAIN count # {},
         \A k \in DOMAIN count : k \in Int /\ count[k] \in Int
  PROVE  LET key == mostCommonKey(count)
         IN /\ key \in DOMAIN count
            /\ \A k \in DOMAIN count : /\ count[k] <= count[key]
                                       /\ count[k] = count[key] => key <= k
<1> DEFINE keys == DOMAIN count
           counts == {count[k] : k \in keys}
           most == Max(counts)
           common == {k \in keys : count[k] = most}
           g == [k \in keys |-> count[k]]
<1>1. g \in Surjection(keys, counts)
  BY DEF Surjection
<1>2. IsFiniteSet(counts)
  <2> HIDE DEF g, counts
  <2> QED BY <1>1, FS_Surjection
<1>3. counts # {} /\ \A x \in counts : x \in Int
  OBVIOUS
<1>4. most \in counts /\ \A x \in counts : x <= most
  <2> HIDE DEF counts
  <2> QED BY <1>2, <1>3, MaxIs
<1>5. common # {} /\ common \subseteq keys
  BY <1>4
<1>6. IsFiniteSet(common) /\ \A k \in common : k \in Int
  BY <1>5, FS_Subset
<1>7. Min(common) \in common /\ \A k \in common : Min(common) <= k
  <2> HIDE DEF common
  <2> QED BY <1>5, <1>6, MinIs
<1>8. mostCommonKey(count) = Min(common)
  BY DEF mostCommonKey
<1>9. \A k \in keys : count[k] \in counts
  OBVIOUS
<1> HIDE DEF counts, most
<1> QED BY <1>4, <1>7, <1>8, <1>9

----------------------------------------------------------------------------
(* Ranked lists.                                                            *)
Before(R, S, x) == {y \in S : <<y, x>> \in R}
Listing(R, S) == [i \in 1..Cardinality(S) |-> CHOOSE x \in S : Cardinality(Before(R, S, x)) = i - 1]

LEMMA BeforeCounts ==
  ASSUME NEW S, IsFiniteSet(S), NEW R, Orders(R, S), NEW x \in S
  PROVE  /\ Cardinality(Before(R, S, x)) \in 0..(Cardinality(S) - 1)
         /\ \A y \in S : <<x, y>> \in R => Cardinality(Before(R, S, x)) < Cardinality(Before(R, S, y))
<1>1. \A T \in SUBSET S : /\ IsFiniteSet(T) /\ Cardinality(T) \in Nat
                          /\ Cardinality(T) <= Cardinality(S)
                          /\ Cardinality(T) = Cardinality(S) => T = S
  BY FS_Subset, FS_CardinalityType
<1>2. Cardinality(Before(R, S, x)) \in 0..(Cardinality(S) - 1)
  <2>1. Before(R, S, x) \in SUBSET S /\ Before(R, S, x) # S
    BY DEF Before, Orders
  <2> QED BY <1>1, <2>1, FS_CardinalityType
<1>3. ASSUME NEW y \in S, <<x, y>> \in R
      PROVE  Cardinality(Before(R, S, x)) < Cardinality(Before(R, S, y))
  <2> DEFINE T == Before(R, S, x)
             U == Before(R, S, y)
  <2>1. T \subseteq U /\ x \in U /\ x \notin T /\ U \in SUBSET S
    BY <1>3 DEF Before, Orders
  <2>2. IsFiniteSet(U) /\ Cardinality(U) \in Nat /\ IsFiniteSet(T) /\ Cardinality(T) \in Nat
    BY <1>1, <2>1
  <2>3. Cardinality(T) <= Cardinality(U) /\ Cardinality(T) # Cardinality(U)
    BY <2>1, <2>2, FS_Subset
  <2> QED BY <2>2, <2>3
<1> QED BY <1>2, <1>3

LEMMA ListingIs ==
  ASSUME NEW S, IsFiniteSet(S), NEW R, Orders(R, S)
  PROVE  LET n == Cardinality(S)
             list == Listing(R, S)
         IN /\ n \in Nat /\ list \in [1..n -> S]
            /\ \A x \in S : \E i \in 1..n : list[i] = x
            /\ \A i, j \in 1..n : i < j => <<list[i], list[j]>> \in R
<1> DEFINE n == Cardinality(S)
           list == Listing(R, S)
           count(x) == Cardinality(Before(R, S, x))
           f == [x \in S |-> count(x)]
<1>1. n \in Nat
  BY FS_CardinalityType
<1>2. \A x \in S : count(x) \in 0..(n - 1)
  BY BeforeCounts
<1>3. \A x, y \in S : <<x, y>> \in R => count(x) < count(y)
  BY BeforeCounts
<1> HIDE DEF n, count
<1>4. \A x, y \in S : count(x) = count(y) => x = y
  <2> SUFFICES ASSUME NEW x \in S, NEW y \in S, count(x) = count(y), x # y PROVE FALSE
    OBVIOUS
  <2>1. count(x) < count(y) \/ count(y) < count(x)
    BY <1>3 DEF Orders
  <2>2. count(x) \in Int
    BY <1>1, <1>2
  <2> QED BY <2>1, <2>2
<1>5. f \in Injection(S, 0..(n - 1))
  BY <1>2, <1>4 DEF Injection, IsInjective
<1>6. IsFiniteSet(0..(n - 1)) /\ Cardinality(0..(n - 1)) = n
  BY <1>1, FS_Interval
<1>7. f \in Surjection(S, 0..(n - 1))
  <2> HIDE DEF f
  <2> QED BY <1>5, <1>6, FS_Injection DEF n
<1>8. \A i \in 1..n : \E x \in S : count(x) = i - 1
  <2> TAKE i \in 1..n
  <2>1. i - 1 \in 0..(n - 1)
    BY <1>1
  <2>2. \E x \in S : f[x] = i - 1
    BY <1>7, <2>1 DEF Surjection
  <2> QED BY <2>2
<1>9. \A i \in 1..n : list[i] \in S /\ count(list[i]) = i - 1
  BY <1>8 DEF Listing, n, count
<1>10. list \in [1..n -> S]
  BY <1>9 DEF Listing, n
<1>11. \A x \in S : \E i \in 1..n : list[i] = x
  <2> TAKE x \in S
  <2>1. count(x) + 1 \in 1..n
    BY <1>1, <1>2
  <2> QED BY <2>1, <1>2, <1>9, <1>4
<1>12. \A i, j \in 1..n : i < j => <<list[i], list[j]>> \in R
  <2> TAKE i, j \in 1..n
  <2> HAVE i < j
  <2>1. count(list[i]) < count(list[j])
    BY <1>1, <1>9
  <2>2. list[i] \in S /\ list[j] \in S
    BY <1>9
  <2> HIDE DEF list
  <2>3. ~(<<list[j], list[i]>> \in R) /\ list[i] # list[j]
    BY <1>1, <1>2, <1>3, <2>1, <2>2
  <2> QED BY <2>2, <2>3 DEF Orders
<1> QED BY <1>1, <1>10, <1>11, <1>12 DEF n

----------------------------------------------------------------------------
(* The tables.                                                              *)
Rows ==
  /\ posts \subseteq Post /\ IsFiniteSet(posts)
  /\ \A p \in posts : p.id < nextId /\ IsFiniteSet(p.likes) /\ IsFiniteSet(p.comments)
  /\ \A p, q \in posts : p.id = q.id => p = q
  /\ nextId \in Nat /\ now \in Nat /\ plan \subseteq CheckInPlan
  /\ active \subseteq Member /\ blocked \subseteq Member
Answers ==
  /\ \A p \in DOMAIN cache : cache[p] \in {<<>>, candidates(p)}
  /\ lookup = [r \in Reader |-> lookup[r]]
  /\ \A r \in Reader : lookup[r].answer \in {<<>>, candidates(lookup[r].place)}
JournalInv == Rows /\ Answers

LEMMA RowsInit == Init => Rows
<1> SUFFICES ASSUME Init PROVE Rows
  OBVIOUS
<1>1. scene \in Scenes /\ posts = scene.past /\ plan = scene.plan /\ now = scene.start
      /\ nextId = Cardinality(posts) + 1 /\ active = Member /\ blocked = {}
  BY DEF Init
<1>2. posts \subseteq Post /\ IsFiniteSet(posts) /\ now \in Nat /\ plan \subseteq CheckInPlan
  BY <1>1, ScenesAssumption
<1>3. Cardinality(posts) \in Nat
  BY <1>2, FS_CardinalityType
<1>4. \A p \in posts : p.id \in 1..Cardinality(posts) /\ IsFiniteSet(p.likes) /\ IsFiniteSet(p.comments)
  BY <1>1, ScenesAssumption
<1>5. \A p, q \in posts : p.id = q.id => p = q
  BY <1>1, ScenesAssumption
<1>6. \A p \in posts : p.id < nextId
  BY <1>1, <1>3, <1>4
<1> QED BY <1>1, <1>2, <1>3, <1>4, <1>5, <1>6 DEF Rows

LEMMA RowsInserted ==
  ASSUME Rows, NEW c \in plan, CheckIn(c)
  PROVE  Rows'
<1> DEFINE p == [id |-> nextId, by |-> c.by, kind |-> "post", loc |-> c.loc, at |-> now,
                 photos |-> c.photos, clips |-> 0, pos |-> c.pos, tags |-> {},
                 likes |-> {}, comments |-> {}]
<1>1. c \in CheckInPlan /\ nextId \in Nat /\ now \in Nat
  BY DEF Rows
<1>2. p \in Post
  BY <1>1, SMTT(20) DEF Post, CheckInPlan
<1>3. p.id = nextId /\ p.likes = {} /\ p.comments = {}
  OBVIOUS
<1>4. posts' = posts \cup {p} /\ nextId' = nextId + 1 /\ plan' \subseteq plan
      /\ UNCHANGED <<now, active, blocked>>
  BY DEF CheckIn
<1> HIDE DEF p
<1>5. IsFiniteSet(posts')
  BY <1>4, FS_AddElement DEF Rows
<1>6. IsFiniteSet(p.likes) /\ IsFiniteSet(p.comments)
  BY <1>3, FS_EmptySet
<1>7. \A q \in posts : q \in Post /\ q.id \in Nat /\ q.id < nextId
  BY DEF Rows, Post
<1>8. \A q \in posts' : q \in Post /\ q.id < nextId' /\ IsFiniteSet(q.likes) /\ IsFiniteSet(q.comments)
  <2> TAKE q \in posts'
  <2>1. CASE q = p
    <3>1. q.id = nextId /\ nextId < nextId'
      BY <1>1, <1>3, <1>4, <2>1
    <3> QED BY <1>2, <1>6, <2>1, <3>1
  <2>2. CASE q \in posts
    BY <1>1, <1>4, <1>7, <2>2 DEF Rows
  <2> QED BY <1>4, <2>1, <2>2
<1>9. \A q, r \in posts' : q.id = r.id => q = r
  BY <1>1, <1>3, <1>4, <1>7 DEF Rows
<1> QED BY <1>1, <1>4, <1>5, <1>8, <1>9 DEF Rows

LEMMA RowsChanged ==
  ASSUME Rows, NEW p \in posts, NEW q \in Post, q.id = p.id, Change(p, q),
         IsFiniteSet(q.likes), IsFiniteSet(q.comments),
         UNCHANGED <<now, plan, nextId, active, blocked>>
  PROVE  Rows'
<1>1. IsFiniteSet(posts')
  BY FS_RemoveElement, FS_AddElement DEF Rows, Change
<1> QED BY <1>1 DEF Rows, Change

LEMMA RowsEngaged ==
  ASSUME Rows, NEW m \in Member, NEW p \in posts, Like(m, p) \/ Comment(m, p)
  PROVE  Rows'
<1> DEFINE d == [by |-> m, at |-> now]
           q == IF Like(m, p) THEN [p EXCEPT !.likes = @ \cup {d}]
                ELSE [p EXCEPT !.comments = @ \cup {d}]
<1>1. d \in Deed /\ p \in Post
  BY DEF Rows, Deed
<1>2. q \in Post /\ q.id = p.id /\ q.likes \in {p.likes, p.likes \cup {d}}
      /\ q.comments \in {p.comments, p.comments \cup {d}}
  <2> HIDE DEF d
  <2> QED BY <1>1, SMTT(20) DEF Post
<1>3. IsFiniteSet(q.likes) /\ IsFiniteSet(q.comments)
  <2>1. \A T : IsFiniteSet(T) => IsFiniteSet(T \cup {d})
    BY FS_AddElement
  <2> HIDE DEF d, q
  <2> QED BY <1>2, <2>1 DEF Rows
<1>4. Change(p, q) /\ UNCHANGED <<now, plan, nextId, active, blocked>>
  BY DEF Like, Comment
<1> HIDE DEF q
<1> QED BY <1>2, <1>3, <1>4, RowsChanged

LEMMA RowsStep == ASSUME Rows, [Next]_vars PROVE Rows'
<1>1. CASE \E c \in plan : CheckIn(c)
  BY <1>1, RowsInserted
<1>2. CASE \E p \in posts : DeletePost(p)
  <2>1. posts' \subseteq posts /\ UNCHANGED <<now, plan, nextId, active, blocked>>
    BY <1>2 DEF DeletePost
  <2>2. IsFiniteSet(posts')
    BY <2>1, FS_Subset DEF Rows
  <2> QED BY <2>1, <2>2 DEF Rows
<1>3. CASE \E m \in Member, p \in posts : Like(m, p) \/ Comment(m, p)
  BY <1>3, RowsEngaged
<1>4. CASE \E m \in Member : Block(m) \/ Revoke(m)
  BY <1>4 DEF Rows, Block, Revoke, rowsVars
<1>5. CASE Wait
  BY <1>5 DEF Rows, Wait, rowsVars
<1>6. CASE \/ BestowTitles \/ \E r \in Reader, p \in placesOf(Located) : Miss(r, p)
           \/ \E r \in Reader : Store(r)
           \/ Restart
  <2>1. UNCHANGED <<now, rowsVars, active, blocked>>
    BY <1>6 DEF BestowTitles, Miss, Store, Restart
  <2> QED BY <2>1 DEF Rows, rowsVars
<1>7. CASE UNCHANGED vars
  BY <1>7 DEF Rows, vars, rowsVars
<1> QED BY <1>1, <1>2, <1>3, <1>4, <1>5, <1>6, <1>7 DEF Next

LEMMA AnswersStep == ASSUME Answers, [Next]_vars PROVE Answers'
<1>1. CASE \E r \in Reader, p \in placesOf(Located) : Miss(r, p)
  <2>1. PICK r \in Reader, p \in placesOf(Located) : Miss(r, p)
    BY <1>1
  <2>2. PICK a \in Candidates(p) : lookup' = [lookup EXCEPT ![r] = [place |-> p, answer |-> a]]
    BY <2>1 DEF Miss
  <2>3. a \in {<<>>, candidates(p)} /\ cache' = cache
    BY <2>1, <2>2 DEF Candidates, Miss
  <2>4. lookup' = [q \in Reader |-> IF q = r THEN [place |-> p, answer |-> a] ELSE lookup[q]]
    BY <2>2 DEF Answers
  <2> QED BY <2>3, <2>4 DEF Answers
<1>2. CASE \E r \in Reader : Store(r)
  <2>1. PICK r \in Reader : Store(r)
    BY <1>2
  <2>2. lookup' = [q \in Reader |-> IF q = r THEN NoLookup ELSE lookup[q]]
    BY <2>1 DEF Answers, Store
  <2>3. \A p \in DOMAIN cache' : cache'[p] \in {<<>>, candidates(p)}
    BY <2>1 DEF Answers, Store, Inserted
  <2> QED BY <2>2, <2>3 DEF Answers, NoLookup
<1>3. CASE Restart
  BY <1>3 DEF Answers, Restart, NoLookup
<1>4. CASE \/ Wait
           \/ \E c \in plan : CheckIn(c)
           \/ \E p \in posts : DeletePost(p)
           \/ \E m \in Member, p \in posts : Like(m, p) \/ Comment(m, p)
           \/ \E m \in Member : Block(m) \/ Revoke(m)
           \/ BestowTitles
           \/ UNCHANGED vars
  <2>1. UNCHANGED <<cache, lookup>>
    BY <1>4 DEF Wait, CheckIn, DeletePost, Like, Comment, Block, Revoke, BestowTitles, vars, cacheVars
  <2> QED BY <2>1 DEF Answers
<1> QED BY <1>1, <1>2, <1>3, <1>4 DEF Next

(* Keys are given out once, rows have their types, and what is cached or    *)
(* about to be is nothing or what the gazetteer holds.                      *)
THEOREM JournalInductive == Spec => []JournalInv
<1>1. Init => JournalInv
  <2> SUFFICES ASSUME Init PROVE Answers
    BY RowsInit DEF JournalInv
  <2> QED BY DEF Init, Answers, NoLookup
<1>2. JournalInv /\ [Next]_vars => JournalInv'
  BY RowsStep, AnswersStep DEF JournalInv
<1> QED BY <1>1, <1>2, PTL DEF Spec

(* ResolvedStaysResolved: neither a second reader, nor a failed read, nor a *)
(* restart takes back what the cache says of a place                        *)
(* (INSERT ... ON CONFLICT DO NOTHING in candidatesCached).                 *)
THEOREM CacheKeepsAnswers == Spec => ResolvedStaysResolved
<1>1. ASSUME Answers, [Next]_vars, NEW p \in DOMAIN cache, cache[p] # <<>>
      PROVE  cache'[p] = candidates(p)
  <2>1. cache'[p] = cache[p]
    <3>1. CASE \E r \in Reader : Store(r)
      BY <1>1, <3>1 DEF Store, Inserted
    <3>2. CASE ~ \E r \in Reader : Store(r)
      BY <1>1, <3>2 DEF Next, Wait, CheckIn, DeletePost, Like, Comment, Block, Revoke, BestowTitles,
                       Miss, Restart, vars, cacheVars
    <3> QED BY <3>1, <3>2
  <2> QED BY <1>1, <2>1 DEF Answers
<1>2. JournalInv /\ [Next]_vars => [\A p \in DOMAIN cache : cache[p] # <<>> => cache'[p] = candidates(p)]_vars
  BY <1>1 DEF JournalInv
<1> QED BY <1>2, JournalInductive, PTL DEF Spec, ResolvedStaysResolved

(* GuessedOnlyAlone: a name is settled by itself only when no place has a   *)
(* position to settle it by (resolvePlacesPassThree).                       *)
LEMMA GuessedAlone == GuessedOnlyAlone
<1> SUFFICES ASSUME NEW x \in PlacesTold, x.coordsGuessed, NEW y \in PlacesTold, y.pos # NoPos
             PROVE  y.coordsGuessed
  BY DEF GuessedOnlyAlone
<1> DEFINE rows == Located
           pos == passThree(rows, Found)
           built(p) == [stats |-> buildPlaceStats(at(rows, p)), place |-> p,
                        pos |-> IF p \in DOMAIN pos THEN pos[p] ELSE NoPos,
                        coordsGuessed |-> p \in guessed(rows, Found),
                        homeArea |-> p \in computeHomeArea(rows, now)]
<1>0. PlacesTold = {built(p) : p \in placesOf(rows)}
  BY DEF PlacesTold, buildPlaces
<1>1. PICK p \in placesOf(rows) : x = built(p)
  BY <1>0
<1>2. PICK q \in placesOf(rows) : y = built(q)
  BY <1>0
<1> HIDE DEF rows, pos
<1>3. DOMAIN anchors(rows, Found) = {} /\ guessed(rows, Found) = unsettled(rows, Found)
  BY <1>1 DEF guessed
<1>4. q \in DOMAIN pos
  BY <1>2
<1>5. DOMAIN pos = DOMAIN anchors(rows, Found) \cup unsettled(rows, Found)
  BY DEF passThree, pos
<1> QED BY <1>2, <1>3, <1>4, <1>5

(* GuessedOnlyAlone: a place is marked as guessed only when no place of the *)
(* group is measured, unambiguous or dominant (resolvePlacesPassThree).     *)
THEOREM GuessesAreAlone == Spec => []GuessedOnlyAlone
BY GuessedAlone, PTL

----------------------------------------------------------------------------
(* Runs of days.  The function runStarts defines by recursion exists, for   *)
(* a day's value depends on the day before it.                              *)
Earlier(ds, d) == {e \in ds : e < d}
Opened(ds, f, d) ==
  IF Earlier(ds, d) = {} THEN d
  ELSE IF d - Max(Earlier(ds, d)) > TripWindow \/ d - f[Max(Earlier(ds, d))] > TripMaxSpan THEN d
  ELSE f[Max(Earlier(ds, d))]

LEMMA DayBefore ==
  ASSUME NEW ds, IsFiniteSet(ds), \A d \in ds : d \in Int, NEW d, Earlier(ds, d) # {}
  PROVE  /\ Max(Earlier(ds, d)) \in ds /\ Max(Earlier(ds, d)) < d
         /\ \A e \in ds : e < d => e <= Max(Earlier(ds, d))
<1>1. Earlier(ds, d) \in SUBSET ds
  BY DEF Earlier
<1>2. Earlier(ds, d) \in SUBSET Int /\ IsFiniteSet(Earlier(ds, d))
  BY <1>1, FS_Subset
<1>3. Max(Earlier(ds, d)) \in Earlier(ds, d) /\ \A e \in Earlier(ds, d) : e <= Max(Earlier(ds, d))
  BY <1>2, MaxIs
<1> QED BY <1>3 DEF Earlier

LEMMA RunStartsDef ==
  ASSUME NEW ds, IsFiniteSet(ds), \A d \in ds : d \in Int
  PROVE  runStarts(ds) = [d \in ds |-> Opened(ds, runStarts(ds), d)]
<1> DEFINE solved(T) == \E f : f = [d \in T |-> Opened(ds, f, d)]
           prefix(T) == \A d \in T, e \in ds : e < d => e \in T
           B == {T \in SUBSET ds : prefix(T) /\ ~solved(T)}
<1>1. runStarts(ds) = CHOOSE f : f = [d \in ds |-> Opened(ds, f, d)]
  BY DEF runStarts, Opened, Earlier
<1>2. SUFFICES solved(ds)
  BY <1>1
<1>3. SUFFICES ASSUME ~solved(ds) PROVE FALSE
  OBVIOUS
<1>4. B \subseteq SUBSET ds /\ ds \in B /\ B # {}
  BY <1>3
<1> HIDE DEF B
<1>5. PICK T \in B : \A U \in B : U \subseteq T => U = T
  BY <1>4, SmallestIn
<1>6. T \in SUBSET ds /\ T \in SUBSET Int /\ prefix(T) /\ ~solved(T) /\ IsFiniteSet(T)
  BY <1>5, FS_Subset DEF B
<1>7. T # {}
  <2>1. LET f == [d \in {} |-> 0] IN f = [d \in {} |-> Opened(ds, f, d)]
    OBVIOUS
  <2>2. solved({})
    BY <2>1
  <2> QED BY <1>6, <2>2
<1> DEFINE m == Max(T)
           U == T \ {m}
<1>8. m \in T /\ \A d \in T : d <= m
  BY <1>6, <1>7, MaxIs
<1> HIDE DEF m
<1>9. U \in SUBSET ds /\ prefix(U)
  BY <1>6, <1>8
<1>10. PICK g : g = [d \in U |-> Opened(ds, g, d)]
  BY <1>5, <1>8, <1>9 DEF B
<1> DEFINE f == [d \in T |-> IF d = m THEN Opened(ds, g, d) ELSE g[d]]
<1>11. ASSUME NEW d \in T PROVE Opened(ds, f, d) = Opened(ds, g, d)
  <2>1. CASE Earlier(ds, d) = {}
    BY <2>1 DEF Opened
  <2>2. CASE Earlier(ds, d) # {}
    <3> DEFINE l == Max(Earlier(ds, d))
    <3>1. l \in ds /\ l < d /\ l \in Int /\ d \in Int /\ m \in Int
      BY <1>6, <1>8, <2>2, DayBefore
    <3>2. l \in T /\ l # m
      <4> HIDE DEF l
      <4> QED BY <1>6, <1>8, <3>1
    <3>3. f[l] = g[l]
      BY <3>2
    <3> QED BY <3>3, <2>2 DEF Opened
  <2> QED BY <2>1, <2>2
<1>12. ASSUME NEW d \in T PROVE f[d] = Opened(ds, g, d)
  <2>1. CASE d = m
    BY <2>1
  <2>2. CASE d # m
    <3>1. d \in U /\ f[d] = g[d]
      BY <2>2
    <3>2. g[d] = Opened(ds, g, d)
      BY <1>10, <3>1
    <3> QED BY <3>1, <3>2
  <2> QED BY <2>1, <2>2
<1> DEFINE h == [d \in T |-> Opened(ds, f, d)]
<1>13. DOMAIN f = T /\ f = [d \in T |-> f[d]]
  OBVIOUS
<1> HIDE DEF f
<1>14. \A d \in T : f[d] = Opened(ds, f, d)
  BY <1>11, <1>12
<1>15. f = [d \in T |-> Opened(ds, f, d)]
  BY <1>13, <1>14
<1> QED BY <1>6, <1>15

(* A run is named by a day of its own, days of a run are told in order, and *)
(* a run that opens after others is far from its last day or its first.     *)
LEMMA RunsOfDays ==
  ASSUME NEW ds, IsFiniteSet(ds), \A d \in ds : d \in Int
  PROVE  LET start == runStarts(ds)
         IN /\ DOMAIN start = ds
            /\ \A d \in ds : start[d] \in ds /\ start[d] <= d /\ start[start[d]] = start[d]
            /\ \A d, e \in ds : d <= e => start[d] <= start[e]
            /\ \A d, e \in ds : d < e /\ start[e] = e =>
                 \E m \in ds : d <= m /\ m < e /\ (e - m > TripWindow \/ e - start[m] > TripMaxSpan)
<1> DEFINE start == runStarts(ds)
           last(d) == Max(Earlier(ds, d))
<1>1. start = [d \in ds |-> Opened(ds, start, d)]
  BY RunStartsDef
<1> HIDE DEF start
<1>2. DOMAIN start = ds /\ \A d \in ds : start[d] = Opened(ds, start, d)
  BY <1>1
<1>3. ASSUME NEW d \in ds, start[d] # d
      PROVE  /\ last(d) \in ds /\ last(d) < d /\ start[d] = start[last(d)]
             /\ \A e \in ds : e < d => e <= last(d)
  <2>1. Earlier(ds, d) # {} /\ start[d] = start[last(d)]
    BY <1>2, <1>3 DEF Opened
  <2> QED BY <2>1, DayBefore
<1>4. ASSUME NEW d \in ds, NEW e \in ds, d < e, start[e] = e
      PROVE  last(e) \in ds /\ d <= last(e) /\ last(e) < e
             /\ (e - last(e) > TripWindow \/ e - start[last(e)] > TripMaxSpan \/ start[last(e)] = e)
  <2>1. Earlier(ds, e) # {}
    BY <1>4 DEF Earlier
  <2>2. last(e) \in ds /\ last(e) < e /\ d <= last(e)
    BY <1>4, <2>1, DayBefore
  <2>3. start[e] = Opened(ds, start, e)
    BY <1>2
  <2>4. (e - last(e) > TripWindow \/ e - start[last(e)] > TripMaxSpan) \/ start[e] = start[last(e)]
    BY <2>1, <2>3 DEF Opened
  <2> QED BY <1>4, <2>2, <2>4
<1> HIDE DEF last
<1> DEFINE fine(d) == start[d] \in ds /\ start[d] <= d /\ start[start[d]] = start[d]
           Bad == {d \in ds : ~fine(d)}
<1>5. \A d \in ds : fine(d)
  <2> SUFFICES ASSUME Bad # {} PROVE FALSE
    OBVIOUS
  <2>1. IsFiniteSet(Bad) /\ \A d \in Bad : d \in Int
    BY FS_Subset
  <2>2. Min(Bad) \in Bad /\ \A d \in Bad : Min(Bad) <= d
    <3> HIDE DEF Bad
    <3> QED BY <2>1, MinIs
  <2>3. PICK d \in Bad : \A e \in Bad : d <= e
    BY <2>2
  <2>4. start[d] # d
    BY <2>3
  <2>5. last(d) \in ds /\ last(d) < d /\ start[d] = start[last(d)]
    BY <1>3, <2>4
  <2>6. fine(last(d))
    BY <2>3, <2>5
  <2> QED BY <2>5, <2>6, <2>3
<1> DEFINE Wrong == {e \in ds : \E d \in ds : d <= e /\ ~(start[d] <= start[e])}
<1>6. Wrong = {}
  <2> SUFFICES ASSUME Wrong # {} PROVE FALSE
    OBVIOUS
  <2>1. IsFiniteSet(Wrong) /\ \A d \in Wrong : d \in Int
    BY FS_Subset
  <2>2. Min(Wrong) \in Wrong /\ \A d \in Wrong : Min(Wrong) <= d
    <3> HIDE DEF Wrong
    <3> QED BY <2>1, MinIs
  <2>3. PICK e \in Wrong : \A d \in Wrong : e <= d
    BY <2>2
  <2>4. PICK d \in ds : d <= e /\ ~(start[d] <= start[e])
    BY <2>3
  <2>5. start[d] \in Int /\ start[e] \in Int /\ start[d] <= d /\ d \in Int /\ e \in Int /\ d # e
    BY <1>5, <2>3, <2>4
  <2>6. start[e] # e
    BY <2>4, <2>5
  <2>7. last(e) \in ds /\ last(e) < e /\ start[e] = start[last(e)] /\ d <= last(e)
    BY <1>3, <2>4, <2>5, <2>6
  <2>8. last(e) \in Wrong
    BY <2>4, <2>7
  <2>9. last(e) \in Int /\ e <= last(e)
    BY <2>3, <2>7, <2>8
  <2> QED BY <2>5, <2>7, <2>9
<1>7. ASSUME NEW d \in ds, NEW e \in ds, d < e, start[e] = e
      PROVE  \E m \in ds : d <= m /\ m < e /\ (e - m > TripWindow \/ e - start[m] > TripMaxSpan)
  <2>1. last(e) \in ds /\ d <= last(e) /\ last(e) < e
        /\ (e - last(e) > TripWindow \/ e - start[last(e)] > TripMaxSpan \/ start[last(e)] = e)
    BY <1>4, <1>7
  <2>2. start[last(e)] <= last(e) /\ start[last(e)] \in Int /\ last(e) \in Int /\ e \in Int
    BY <1>5, <2>1
  <2> QED BY <2>1, <2>2
<1> QED BY <1>2, <1>5, <1>6, <1>7 DEF start

----------------------------------------------------------------------------
(* Rows as the pages' queries fetch them.                                   *)
Row == [id : Nat, by : Member, loc : Label, at : Nat, pos : Int, photos : Nat, clips : Nat,
        likes : Nat, comments : Nat]
Keyed(rows) ==
  /\ IsFiniteSet(rows) /\ rows \subseteq Row
  /\ \A q, r \in rows : q.id = r.id => q = r

rowOf(p) ==
  [id |-> p.id, by |-> p.by, loc |-> p.loc, at |-> p.at, pos |-> p.pos,
   photos |-> p.photos, clips |-> p.clips, likes |-> Cardinality(p.likes),
   comments |-> Cardinality({c \in p.comments : c.by \notin blocked})]

LEMMA SubKeyed ==
  ASSUME NEW rows, Keyed(rows), NEW some, some \subseteq rows
  PROVE  Keyed(some)
BY FS_Subset DEF Keyed

LEMMA ViewKeyed == ASSUME Rows PROVE Keyed(View) /\ Keyed(Located)
<1> DEFINE f == [p \in Eligible |-> rowOf(p)]
<1>1. View = {rowOf(p) : p \in Eligible}
  BY DEF View, rowOf
<1>2. Eligible \subseteq posts /\ IsFiniteSet(Eligible)
  BY FS_Subset DEF Eligible, Rows
<1>3. f \in Surjection(Eligible, View)
  BY <1>1 DEF Surjection
<1>4. IsFiniteSet(View)
  <2> HIDE DEF f
  <2> QED BY <1>2, <1>3, FS_Surjection
<1>5. ASSUME NEW p \in Eligible PROVE rowOf(p) \in Row /\ rowOf(p).id = p.id
  <2> DEFINE heard == {c \in p.comments : c.by \notin blocked}
  <2>1. IsFiniteSet(p.likes) /\ IsFiniteSet(heard)
    BY <1>2, FS_Subset DEF Rows
  <2>2. Cardinality(p.likes) \in Nat /\ Cardinality(heard) \in Nat
    BY <2>1, FS_CardinalityType
  <2>3. p \in Post
    BY <1>2 DEF Rows
  <2> QED BY <2>2, <2>3, SMTT(30) DEF rowOf, Row, Post
<1>6. View \subseteq Row
  BY <1>1, <1>5
<1>7. \A q, r \in View : q.id = r.id => q = r
  BY <1>1, <1>2, <1>5 DEF Rows
<1>8. Keyed(View)
  BY <1>4, <1>6, <1>7 DEF Keyed
<1>9. Located \subseteq View
  BY DEF Located
<1> QED BY <1>8, <1>9, SubKeyed

LEMMA DivisionGrows ==
  ASSUME NEW a \in Nat, NEW b \in Nat, a <= b, NEW n \in Nat \ {0}
  PROVE  a \div n <= b \div n /\ a \div n \in Nat /\ b \div n \in Nat
<1> DEFINE q == a \div n
           p == b \div n
<1>1. q \in Nat /\ p \in Nat
  BY Z3
<1>2. a = n * q + (a % n) /\ b = n * p + (b % n) /\ a % n \in 0..(n - 1) /\ b % n \in 0..(n - 1)
  BY Z3
<1>3. ASSUME q > p PROVE FALSE
  <2> HIDE DEF q, p
  <2>1. q >= p + 1
    BY <1>1, <1>3
  <2>2. n * q >= n * (p + 1)
    BY <1>1, <2>1, Z3
  <2>3. n * (p + 1) = n * p + n
    BY <1>1, Z3
  <2> QED BY <1>1, <1>2, <2>2, <2>3, Z3
<1> QED BY <1>1, <1>3

LEMMA DaysOf ==
  ASSUME NEW rows, Keyed(rows)
  PROVE  /\ \A r \in rows : dayOf(r.at) \in Nat /\ r.at \in Nat /\ r.id \in Nat
         /\ \A q, r \in rows : q.at <= r.at => dayOf(q.at) <= dayOf(r.at)
         /\ IsFiniteSet(days(rows)) /\ \A d \in days(rows) : d \in Int
<1>1. \A r \in rows : r.at \in Nat /\ r.id \in Nat
  BY DEF Keyed, Row
<1>2. ASSUME NEW q \in rows, NEW r \in rows, q.at <= r.at
      PROVE  dayOf(q.at) <= dayOf(r.at) /\ dayOf(q.at) \in Nat
  BY <1>1, <1>2, DivisionGrows, EventsAssumption DEF dayOf
<1>3. \A r \in rows : dayOf(r.at) \in Nat
  BY <1>1, <1>2
<1> DEFINE f == [r \in rows |-> dayOf(r.at)]
<1>4. f \in Surjection(rows, days(rows))
  BY DEF Surjection, days
<1>5. IsFiniteSet(days(rows))
  <2> HIDE DEF f
  <2> QED BY <1>4, FS_Surjection DEF Keyed
<1>6. \A d \in days(rows) : d \in Int
  BY <1>3 DEF days
<1> QED BY <1>1, <1>2, <1>3, <1>5, <1>6

----------------------------------------------------------------------------
(* What an event tells.                                                     *)
ByTime(rows) == {p \in rows \X rows : earlier(p[1], p[2])}

LEMMA ByTimeOrders ==
  ASSUME NEW rows, Keyed(rows)
  PROVE  Orders(ByTime(rows), rows) /\ ranked(rows, earlier) = Listing(ByTime(rows), rows)
<1>1. \A r \in rows : r.at \in Nat /\ r.id \in Nat
  BY DaysOf
<1>2. \A p, q \in rows : <<p, q>> \in ByTime(rows) <=> earlier(p, q)
  BY DEF ByTime
<1>3. Orders(ByTime(rows), rows)
  BY <1>1, <1>2 DEF Orders, Keyed, earlier
<1>4. \A x \in rows : {y \in rows : earlier(y, x)} = Before(ByTime(rows), rows, x)
  BY <1>2 DEF Before
<1> QED BY <1>3, <1>4 DEF ranked, Listing

LEMMA EventTells ==
  ASSUME NEW rows, Keyed(rows), rows # {}, NEW kind
  PROVE  LET e == buildEvent(kind, rows)
         IN /\ e.kind = kind /\ membersOf(e.posts) = idsOf(rows)
            /\ \E r \in rows : e.place = r.loc
            /\ \E r \in rows : e.start = dayOf(r.at)
            /\ \A r \in rows : e.start <= dayOf(r.at)
            /\ \E r \in rows : e.end = dayOf(r.at)
            /\ \A r \in rows : dayOf(r.at) <= e.end
<1> DEFINE n == Cardinality(rows)
           sorted == ranked(rows, earlier)
           R == ByTime(rows)
           e == buildEvent(kind, rows)
<1>1. IsFiniteSet(rows) /\ n \in Nat \ {0}
  BY FS_CardinalityType, FS_EmptySet DEF Keyed
<1>2. /\ sorted \in [1..n -> rows]
      /\ \A r \in rows : \E i \in 1..n : sorted[i] = r
      /\ \A i, j \in 1..n : i < j => earlier(sorted[i], sorted[j])
  <2>1. Orders(R, rows) /\ sorted = Listing(R, rows)
    BY ByTimeOrders
  <2>2. /\ sorted \in [1..n -> rows]
        /\ \A r \in rows : \E i \in 1..n : sorted[i] = r
        /\ \A i, j \in 1..n : i < j => <<sorted[i], sorted[j]>> \in R
    BY <1>1, <2>1, ListingIs
  <2> QED BY <2>2 DEF ByTime
<1>3. /\ e.kind = kind /\ e.place = displayLocation(rows)
      /\ e.start = dayOf(sorted[1].at) /\ e.end = dayOf(sorted[Len(sorted)].at)
      /\ e.posts = [i \in DOMAIN sorted |-> sorted[i].id]
  BY DEF buildEvent
<1> HIDE DEF sorted, e, n
<1>4. Len(sorted) = n
  BY <1>1, <1>2
<1>5. membersOf(e.posts) = idsOf(rows)
  BY <1>2, <1>3 DEF membersOf, idsOf
<1>6. \A r \in rows : r.at \in Nat
  BY DaysOf
<1>7. \A r \in rows : sorted[1].at <= r.at /\ r.at <= sorted[n].at
  <2> TAKE r \in rows
  <2>1. PICK i \in 1..n : sorted[i] = r
    BY <1>2
  <2>2. 1 \in 1..n /\ n \in 1..n
    BY <1>1
  <2>3. i # 1 => earlier(sorted[1], r)
    BY <1>1, <1>2, <2>1, <2>2
  <2>4. i # n => earlier(r, sorted[n])
    BY <1>1, <1>2, <2>1, <2>2
  <2>5. sorted[1] \in rows /\ sorted[n] \in rows
    BY <1>2, <2>2
  <2> QED BY <1>6, <2>1, <2>3, <2>4, <2>5 DEF earlier
<1>8. sorted[1] \in rows /\ sorted[n] \in rows
  BY <1>1, <1>2
<1>9. \A r \in rows : e.start <= dayOf(r.at) /\ dayOf(r.at) <= e.end
  BY <1>3, <1>4, <1>7, <1>8, DaysOf
<1>10. \E r \in rows : e.place = r.loc
  <2> DEFINE labels == {r.loc : r \in rows}
             count == [l \in labels |-> Cardinality({r \in rows : r.loc = l})]
             f == [r \in rows |-> r.loc]
  <2>1. f \in Surjection(rows, labels)
    BY DEF Surjection
  <2>2. IsFiniteSet(labels)
    <3> HIDE DEF f
    <3> QED BY <1>1, <2>1, FS_Surjection
  <2>3. \A l \in labels : count[l] \in Nat
    <3> TAKE l \in labels
    <3>1. IsFiniteSet({r \in rows : r.loc = l})
      BY <1>1, FS_Subset
    <3> QED BY <3>1, FS_CardinalityType
  <2>4. DOMAIN count = labels /\ labels # {} /\ \A l \in labels : l \in Int
    BY DEF Keyed, Row, Label
  <2>5. displayLocation(rows) = mostCommonKey(count)
    BY DEF displayLocation
  <2> HIDE DEF count, labels
  <2>6. mostCommonKey(count) \in labels
    BY <2>2, <2>3, <2>4, MostCommon
  <2> QED BY <1>3, <2>5, <2>6 DEF labels
<1> QED BY <1>3, <1>4, <1>5, <1>8, <1>9, <1>10 DEF e

----------------------------------------------------------------------------
(* Trips and gatherings, as sets of rows.                                   *)
StartOf(rows, r) == runStarts(days(rows))[dayOf(r.at)]
RunFrom(rows, s) == {r \in rows : StartOf(rows, r) = s}

LEMMA RunsAre ==
  ASSUME NEW rows, Keyed(rows)
  PROVE  /\ \A run \in tripRuns(rows) :
              \E r \in rows : run = RunFrom(rows, dayOf(r.at)) /\ r \in run
         /\ \A r \in rows : RunFrom(rows, StartOf(rows, r)) \in tripRuns(rows)
<1> DEFINE start == runStarts(days(rows))
<1>1. /\ DOMAIN start = days(rows)
      /\ \A d \in days(rows) : start[d] \in days(rows) /\ start[start[d]] = start[d]
  BY DaysOf, RunsOfDays
<1>2. tripRuns(rows) = {RunFrom(rows, s) : s \in {start[d] : d \in DOMAIN start}}
  BY DEF tripRuns, RunFrom, StartOf
<1>3. ASSUME NEW run \in tripRuns(rows)
      PROVE  \E r \in rows : run = RunFrom(rows, dayOf(r.at)) /\ r \in run
  <2>1. PICK d \in days(rows) : run = RunFrom(rows, start[d])
    BY <1>1, <1>2
  <2>2. PICK r \in rows : start[d] = dayOf(r.at)
    BY <1>1 DEF days
  <2>3. start[dayOf(r.at)] = dayOf(r.at)
    BY <1>1, <2>2
  <2> QED BY <2>1, <2>2, <2>3 DEF RunFrom, StartOf
<1>4. ASSUME NEW r \in rows PROVE RunFrom(rows, StartOf(rows, r)) \in tripRuns(rows)
  <2>1. dayOf(r.at) \in DOMAIN start
    BY <1>1 DEF days
  <2> QED BY <1>2, <2>1 DEF StartOf
<1> QED BY <1>3, <1>4

Trips == detectTrips(Located, computeHomeBases(Located, now), computeHomeArea(Located, now))
Left == Located \ UNION Trips
Gatherings == detectGatherings(Left)
TripRows(p) == {t \in tripRuns(at(Located, p)) : isTrip(p, t, computeHomeBases(Located, now))}

LEMMA ToldAre ==
  Told = {buildEvent("trip", t) : t \in Trips} \cup {buildEvent("gathering", g) : g \in Gatherings}
BY DEF Told, detectEvents, Trips, Left, Gatherings

LEMMA PlaceKeyed == ASSUME Rows, NEW p PROVE Keyed(at(Located, p)) /\ at(Located, p) \subseteq Located
<1>1. at(Located, p) \subseteq Located
  BY DEF at
<1> QED BY <1>1, ViewKeyed, SubKeyed

LEMMA TripsAre ==
  ASSUME Rows, NEW t \in Trips
  PROVE  /\ t \subseteq Located /\ t # {} /\ Keyed(t)
         /\ \E p \in placesOf(Located) \ computeHomeArea(Located, now) :
              t \in TripRows(p) /\ t \subseteq at(Located, p)
<1>1. PICK p \in placesOf(Located) \ computeHomeArea(Located, now) : t \in TripRows(p)
  BY DEF Trips, detectTrips, tripsAt, TripRows
<1>2. PICK r \in at(Located, p) : t = RunFrom(at(Located, p), dayOf(r.at)) /\ r \in t
  BY <1>1, RunsAre, PlaceKeyed DEF TripRows
<1>3. t \subseteq at(Located, p) /\ t # {}
  BY <1>2 DEF RunFrom
<1> QED BY <1>1, <1>3, PlaceKeyed, SubKeyed

LEMMA TripsApartFromEachOther ==
  ASSUME Rows, NEW t \in Trips, NEW u \in Trips, NEW r \in t, r \in u
  PROVE  t = u
<1>1. PICK p : t \in TripRows(p) /\ t \subseteq at(Located, p)
  BY TripsAre
<1>2. PICK q : u \in TripRows(q) /\ u \subseteq at(Located, q)
  BY TripsAre
<1>3. p = q
  BY <1>1, <1>2 DEF at
<1>4. PICK a : t = RunFrom(at(Located, p), a)
  BY <1>1, RunsAre, PlaceKeyed DEF TripRows
<1>5. PICK b : u = RunFrom(at(Located, p), b)
  BY <1>2, <1>3, RunsAre, PlaceKeyed DEF TripRows
<1>6. a = b
  BY <1>4, <1>5 DEF RunFrom
<1> QED BY <1>4, <1>5, <1>6

LEMMA GatheringsAre ==
  ASSUME Rows, NEW g \in Gatherings
  PROVE  /\ g \subseteq Left /\ g \subseteq Located /\ g # {} /\ Keyed(g)
         /\ \E p, d : g = {r \in at(Left, p) : dayOf(r.at) = d}
<1> DEFINE part(p, d) == {r \in at(Left, p) : dayOf(r.at) = d}
<1>1. g \in {part(p, d) : p \in placesOf(Left), d \in days(Left)}
  BY DEF Gatherings, detectGatherings
<1>2. \E p, d : g = part(p, d)
  <2> HIDE DEF part
  <2> QED BY <1>1
<1>3. Cardinality(g) >= GatheringMinPosts
  BY DEF Gatherings, detectGatherings, isGathering
<1>4. g \subseteq Left /\ g \subseteq Located
  BY <1>2 DEF at, Left
<1>5. Keyed(g)
  BY <1>4, ViewKeyed, SubKeyed
<1>6. g # {}
  BY <1>3, FS_EmptySet, EventsAssumption
<1> QED BY <1>4, <1>5, <1>6, <1>2

(* Whatever is told is told of rows, and no row is told of twice.           *)
LEMMA ToldRows ==
  ASSUME Rows, NEW e \in Told
  PROVE  \E k, rows : /\ e = buildEvent(k, rows) /\ rows \subseteq Located
                      /\ membersOf(e.posts) = idsOf(rows) /\ e.kind = k
                      /\ \/ k = "trip" /\ rows \in Trips
                         \/ k = "gathering" /\ rows \in Gatherings
<1>1. PICK k, rows : /\ e = buildEvent(k, rows)
                     /\ \/ k = "trip" /\ rows \in Trips
                        \/ k = "gathering" /\ rows \in Gatherings
  BY ToldAre
<1>2. Keyed(rows) /\ rows # {} /\ rows \subseteq Located
  BY <1>1, TripsAre, GatheringsAre
<1> QED BY <1>1, <1>2, EventTells

LEMMA ToldOnce ==
  ASSUME Rows, NEW e \in Told, NEW f \in Told, e # f
  PROVE  membersOf(e.posts) \cap membersOf(f.posts) = {}
<1>1. PICK k, t : /\ e = buildEvent(k, t) /\ t \subseteq Located /\ membersOf(e.posts) = idsOf(t)
                  /\ \/ k = "trip" /\ t \in Trips
                     \/ k = "gathering" /\ t \in Gatherings
  BY ToldRows
<1>2. PICK l, u : /\ f = buildEvent(l, u) /\ u \subseteq Located /\ membersOf(f.posts) = idsOf(u)
                  /\ \/ l = "trip" /\ u \in Trips
                     \/ l = "gathering" /\ u \in Gatherings
  BY ToldRows
<1>3. SUFFICES ASSUME NEW r \in t, r \in u PROVE FALSE
  BY <1>1, <1>2, ViewKeyed DEF idsOf, Keyed
<1>4. k # l \/ t # u
  BY <1>1, <1>2
<1>5. \A a \in Trips, b \in Gatherings : a \cap b = {}
  BY GatheringsAre DEF Left
<1>6. k = l
  BY <1>1, <1>2, <1>3, <1>5
<1>7. CASE t \in Trips /\ u \in Trips
  BY <1>3, <1>4, <1>6, <1>7, TripsApartFromEachOther
<1>8. CASE t \in Gatherings /\ u \in Gatherings
  <2>1. PICK p, d : t = {x \in at(Left, p) : dayOf(x.at) = d}
    BY <1>8, GatheringsAre
  <2>2. PICK q, c : u = {x \in at(Left, q) : dayOf(x.at) = c}
    BY <1>8, GatheringsAre
  <2>3. p = q /\ d = c
    BY <1>3, <2>1, <2>2 DEF at
  <2> QED BY <1>4, <1>6, <2>1, <2>2, <2>3
<1> QED BY <1>1, <1>2, <1>6, <1>7, <1>8

(* BigDaysAreTold: detectTrips claims whole days, and what it leaves of a   *)
(* day is the whole of it.                                                  *)
LEMMA BigDayIsTold ==
  ASSUME Rows, NEW p \in placesOf(Located), NEW d \in days(Located),
         BigDay({r \in at(Located, p) : dayOf(r.at) = d})
  PROVE  \E e \in Told : idsOf({r \in at(Located, p) : dayOf(r.at) = d}) \subseteq membersOf(e.posts)
<1> DEFINE here == at(Located, p)
           b == {r \in here : dayOf(r.at) = d}
           run == RunFrom(here, runStarts(days(here))[d])
<1>1. Keyed(here) /\ here \subseteq Located
  BY PlaceKeyed
<1>2. b # {}
  BY FS_EmptySet, EventsAssumption DEF BigDay
<1>3. PICK r \in here : dayOf(r.at) = d
  BY <1>2
<1>4. run \in tripRuns(here) /\ b \subseteq run
  BY <1>1, <1>3, RunsAre DEF StartOf, RunFrom
<1>5. CASE run \in Trips
  <2>1. buildEvent("trip", run) \in Told
    BY <1>5, ToldAre
  <2>2. membersOf(buildEvent("trip", run).posts) = idsOf(run)
    BY <1>5, TripsAre, EventTells
  <2> QED BY <1>4, <2>1, <2>2 DEF idsOf
<1>6. CASE run \notin Trips
  <2>1. \A t \in Trips : b \cap t = {}
    <3> SUFFICES ASSUME NEW t \in Trips, NEW x \in b, x \in t PROVE FALSE
      OBVIOUS
    <3>1. PICK q : t \in TripRows(q) /\ t \subseteq at(Located, q)
      BY TripsAre
    <3>2. q = p
      BY <3>1 DEF at
    <3>3. PICK a : t = RunFrom(here, a)
      BY <3>1, <3>2, <1>1, RunsAre DEF TripRows
    <3>4. a = runStarts(days(here))[d]
      BY <3>3 DEF RunFrom, StartOf
    <3> QED BY <3>3, <3>4, <1>6
  <2>2. b \subseteq Left /\ b = {x \in at(Left, p) : dayOf(x.at) = d}
    BY <2>1 DEF Left, at
  <2>3. p \in placesOf(Left) /\ d \in days(Left)
    BY <1>2, <2>2 DEF placesOf, days, at
  <2>4. b \in Gatherings
    BY <2>2, <2>3 DEF Gatherings, detectGatherings, isGathering, BigDay
  <2>5. buildEvent("gathering", b) \in Told
    BY <2>4, ToldAre
  <2>6. membersOf(buildEvent("gathering", b).posts) = idsOf(b)
    BY <2>4, GatheringsAre, EventTells
  <2> QED BY <2>5, <2>6
<1> QED BY <1>5, <1>6

LEMMA BigDays == ASSUME Rows PROVE BigDaysAreTold
<1> DEFINE day(p, d) == {r \in at(Located, p) : dayOf(r.at) = d}
<1>1. ASSUME NEW p \in placesOf(Located), NEW d \in days(Located), BigDay(day(p, d))
      PROVE  Cardinality({e \in Told : idsOf(day(p, d)) \subseteq membersOf(e.posts)}) = 1
  <2> DEFINE E == {e \in Told : idsOf(day(p, d)) \subseteq membersOf(e.posts)}
  <2>1. PICK e \in Told : e \in E
    BY <1>1, BigDayIsTold
  <2>2. idsOf(day(p, d)) # {}
    BY <1>1, FS_EmptySet, EventsAssumption DEF BigDay, idsOf
  <2>3. \A f \in E : f = e
    BY <2>1, <2>2, ToldOnce
  <2>4. E = {e}
    BY <2>1, <2>3
  <2> QED BY <2>4, FS_Singleton
<1>2. \A e, f \in Told : e # f => membersOf(e.posts) \cap membersOf(f.posts) = {}
  BY ToldOnce
<1> DEFINE bigDays == {b \in {day(p, d) : p \in placesOf(Located), d \in days(Located)} : BigDay(b)}
<1>3. ASSUME NEW b \in bigDays
      PROVE  Cardinality({e \in Told : idsOf(b) \subseteq membersOf(e.posts)}) = 1
  <2>1. PICK p \in placesOf(Located), d \in days(Located) : b = day(p, d)
    OBVIOUS
  <2> QED BY <1>1, <2>1
<1> QED BY <1>2, <1>3 DEF BigDaysAreTold

(* BigDaysAreTold: a day on which enough members posted enough from a place *)
(* is told whole by exactly one event, and no check-in is told twice        *)
(* (detectTrips, detectGatherings).                                         *)
THEOREM EveryBigDayIsTold == Spec => []BigDaysAreTold
<1>1. JournalInv => BigDaysAreTold
  BY BigDays DEF JournalInv
<1> QED BY <1>1, JournalInductive, PTL

(* A told trip is a whole run of its place, and its dates are the run's.    *)
LEMMA TripDates ==
  ASSUME Rows, NEW e \in Told, e.kind = "trip"
  PROVE  LET here == at(Located, normalizeLocation(e.place))
             start == runStarts(days(here))
         IN /\ Keyed(here)
            /\ \E t \in Trips : e = buildEvent("trip", t) /\ t \in TripRows(normalizeLocation(e.place))
                                /\ t = RunFrom(here, e.start)
            /\ e.start \in days(here) /\ start[e.start] = e.start
            /\ e.end \in days(here) /\ start[e.end] = e.start
<1>1. PICK t \in Trips : e = buildEvent("trip", t)
  BY ToldRows
<1>2. t \subseteq Located /\ t # {} /\ Keyed(t)
  BY TripsAre
<1>3. PICK p : t \in TripRows(p) /\ t \subseteq at(Located, p)
  BY TripsAre
<1> DEFINE here == at(Located, p)
           start == runStarts(days(here))
<1>4. Keyed(here)
  BY PlaceKeyed
<1>5. /\ DOMAIN start = days(here)
      /\ \A d \in days(here) : start[d] \in days(here) /\ start[d] <= d /\ start[start[d]] = start[d]
  BY <1>4, DaysOf, RunsOfDays
<1>6. PICK r \in here : t = RunFrom(here, dayOf(r.at)) /\ r \in t
  BY <1>3, <1>4, RunsAre DEF TripRows
<1>7. PICK x \in t, y \in t, z \in t : /\ e.place = x.loc /\ e.start = dayOf(y.at) /\ e.end = dayOf(z.at)
                                       /\ e.start <= dayOf(r.at)
  BY <1>1, <1>2, <1>6, EventTells
<1>8. normalizeLocation(e.place) = p
  BY <1>3, <1>7 DEF at
<1>9. /\ dayOf(r.at) \in days(here) /\ e.start \in days(here) /\ e.end \in days(here)
      /\ start[dayOf(r.at)] = dayOf(r.at) /\ start[e.start] = dayOf(r.at) /\ start[e.end] = dayOf(r.at)
  BY <1>3, <1>6, <1>7 DEF RunFrom, StartOf, days
<1>10. \A d \in days(here) : d \in Int
  BY <1>4, DaysOf
<1> HIDE DEF start, here
<1>11. e.start = dayOf(r.at)
  BY <1>5, <1>7, <1>9, <1>10
<1> QED BY <1>1, <1>3, <1>4, <1>6, <1>8, <1>9, <1>11 DEF here, start

(* TripsApart: a trip ends where the next run of its place is too far off   *)
(* to be part of it (tripRuns).                                         *)
LEMMA TripsAreApart == ASSUME Rows PROVE TripsApart
<1> SUFFICES ASSUME NEW e \in Told, e.kind = "trip", NEW f \in Told, f.kind = "trip",
                    e.start < f.start, normalizeLocation(f.place) = normalizeLocation(e.place)
             PROVE  /\ e.end < f.start
                    /\ f.start - e.end > TripWindow \/ f.start - e.start > TripMaxSpan
  BY DEF TripsApart
<1> DEFINE here == at(Located, normalizeLocation(e.place))
           ds == days(here)
           start == runStarts(ds)
<1>1. /\ Keyed(here)
      /\ e.start \in ds /\ start[e.start] = e.start /\ e.end \in ds /\ start[e.end] = e.start
      /\ f.start \in ds /\ start[f.start] = f.start
  BY TripDates
<1>2. /\ \A d \in ds : d \in Int
      /\ \A d, x \in ds : d <= x => start[d] <= start[x]
      /\ \A d, x \in ds : d < x /\ start[x] = x =>
           \E m \in ds : d <= m /\ m < x /\ (x - m > TripWindow \/ x - start[m] > TripMaxSpan)
      /\ \A d \in ds : start[d] \in ds
  <2>1. IsFiniteSet(ds) /\ \A d \in ds : d \in Int
    BY <1>1, DaysOf
  <2> HIDE DEF ds
  <2> QED BY <2>1, RunsOfDays
<1> HIDE DEF start, ds
<1>3. e.start \in Int /\ f.start \in Int /\ e.end \in Int
  BY <1>1, <1>2
<1>4. e.end < f.start
  <2> SUFFICES ASSUME f.start <= e.end PROVE FALSE
    BY <1>3
  <2>1. start[f.start] <= start[e.end]
    BY <1>1, <1>2
  <2> QED BY <1>1, <1>3, <2>1
<1>5. PICK m \in ds : /\ e.end <= m /\ m < f.start
                      /\ (f.start - m > TripWindow \/ f.start - start[m] > TripMaxSpan)
  BY <1>1, <1>2, <1>4
<1>6. m \in Int /\ start[m] \in Int /\ start[e.end] <= start[m]
  BY <1>1, <1>2, <1>5
<1>7. TripWindow \in Int /\ TripMaxSpan \in Int
  BY EventsAssumption
<1> QED BY <1>1, <1>3, <1>4, <1>5, <1>6, <1>7

(* TripsApart: two trips to one place do not overlap, and the second begins *)
(* too late, or too long after the first began, to be part of it            *)
(* (tripRuns).                                                              *)
THEOREM ToldTripsAreApart == Spec => []TripsApart
<1>1. JournalInv => TripsApart
  BY TripsAreApart DEF JournalInv
<1> QED BY <1>1, JournalInductive, PTL

----------------------------------------------------------------------------
(* Check-ins elsewhere.                                                     *)
Placed(rows) == Keyed(rows) /\ \A r \in rows : normalizeLocation(r.loc) \in Nat \ {NoPlace}

LEMMA LocatedPlaced == Rows => Placed(Located)
<1> SUFFICES ASSUME Rows, NEW r \in Located PROVE normalizeLocation(r.loc) \in Nat \ {NoPlace}
  BY ViewKeyed DEF Placed
<1>1. r.loc \in Label /\ r.loc # 0
  BY ViewKeyed DEF Located, Keyed, Row
<1>2. r.loc \in Nat /\ normalizeLocation(r.loc) # NoPlace
  BY <1>1 DEF Label
<1> QED BY <1>2, DivisionGrows, EventsAssumption DEF normalizeLocation

TallyOf(rows, now0, a) == tallyDays(rows, now0 - Lookback, a)
LEMMA TallyIs ==
  ASSUME NEW rows, Placed(rows), NEW now0, NEW a
  PROVE  LET own == {r \in since(rows, now0 - Lookback) : r.by = a}
             tally == TallyOf(rows, now0, a)
         IN /\ IsFiniteSet(DOMAIN tally) /\ DOMAIN tally = placesOf(own)
            /\ \A p \in DOMAIN tally : /\ p \in Nat \ {NoPlace} /\ tally[p] \in Nat
                                       /\ tally[p] = Cardinality(days(at(own, p)))
                                       /\ IsFiniteSet(days(at(own, p)))
<1> DEFINE own == {r \in since(rows, now0 - Lookback) : r.by = a}
           tally == TallyOf(rows, now0, a)
           f == [r \in own |-> normalizeLocation(r.loc)]
<1>1. own \subseteq rows
  BY DEF since
<1>2. tally = [p \in placesOf(own) |-> Cardinality(days(at(own, p)))]
  BY DEF TallyOf, tallyDays
<1>3. IsFiniteSet(own) /\ \A r \in own : normalizeLocation(r.loc) \in Nat \ {NoPlace}
  BY <1>1, FS_Subset DEF Placed, Keyed
<1>4. f \in Surjection(own, placesOf(own))
  BY DEF Surjection, placesOf
<1>5. IsFiniteSet(placesOf(own))
  <2> HIDE DEF f, own
  <2> QED BY <1>3, <1>4, FS_Surjection
<1>6. \A p \in placesOf(own) : p \in Nat \ {NoPlace}
  BY <1>3 DEF placesOf
<1>7. ASSUME NEW p PROVE IsFiniteSet(days(at(own, p))) /\ Cardinality(days(at(own, p))) \in Nat
  <2>1. at(own, p) \subseteq rows
    BY <1>1 DEF at
  <2>2. Keyed(at(own, p))
    BY <2>1, SubKeyed DEF Placed
  <2> QED BY <2>2, DaysOf, FS_CardinalityType
<1> HIDE DEF own, tally
<1> QED BY <1>2, <1>5, <1>6, <1>7 DEF own, tally

LEMMA HomeIs ==
  ASSUME NEW tally, IsFiniteSet(DOMAIN tally),
         \A p \in DOMAIN tally : p \in Nat \ {NoPlace} /\ tally[p] \in Nat
  PROVE  LET home == bestHomeLocation(tally)
             clears == {p \in DOMAIN tally : tally[p] >= HomeBaseMinDays}
         IN /\ home = NoPlace <=> clears = {}
            /\ home # NoPlace => /\ home \in clears
                                 /\ \A p \in clears : /\ tally[p] <= tally[home]
                                                      /\ tally[p] = tally[home] => home <= p
<1> DEFINE clears == {p \in DOMAIN tally : tally[p] >= HomeBaseMinDays}
           count == [p \in clears |-> tally[p]]
<1>1. CASE clears = {}
  BY <1>1 DEF bestHomeLocation
<1>2. CASE clears # {}
  <2>1. IsFiniteSet(clears) /\ \A p \in clears : p \in Int /\ p # NoPlace /\ tally[p] \in Int
    BY FS_Subset
  <2>2. bestHomeLocation(tally) = mostCommonKey(count)
    BY <1>2 DEF bestHomeLocation
  <2>3. DOMAIN count = clears /\ \A p \in clears : count[p] = tally[p]
    OBVIOUS
  <2> HIDE DEF count, clears
  <2>4. /\ mostCommonKey(count) \in clears
        /\ \A p \in clears : /\ count[p] <= count[mostCommonKey(count)]
                             /\ count[p] = count[mostCommonKey(count)] => mostCommonKey(count) <= p
    BY <1>2, <2>1, <2>3, MostCommon
  <2>5. bestHomeLocation(tally) # NoPlace /\ bestHomeLocation(tally) \in clears
    BY <2>1, <2>2, <2>4
  <2>6. \A p \in clears : /\ tally[p] <= tally[bestHomeLocation(tally)]
                          /\ tally[p] = tally[bestHomeLocation(tally)] => bestHomeLocation(tally) <= p
    BY <2>2, <2>3, <2>4
  <2> QED BY <1>2, <2>5, <2>6 DEF clears
<1> QED BY <1>1, <1>2

(* What a member does elsewhere makes no place their home that was not, and *)
(* leaves them with a home if they had one.                                 *)
LEMMA HomeStays ==
  ASSUME NEW rows, Placed(rows), NEW more, Placed(more), rows \subseteq more,
         NEW p, at(more, p) = at(rows, p), NEW now0, NEW a
  PROVE  LET old == bestHomeLocation(TallyOf(rows, now0, a))
             new == bestHomeLocation(TallyOf(more, now0, a))
         IN /\ old # NoPlace => new # NoPlace
            /\ new = p /\ new # NoPlace => old = p
<1> DEFINE own(rs) == {r \in since(rs, now0 - Lookback) : r.by = a}
           T == TallyOf(rows, now0, a)
           U == TallyOf(more, now0, a)
           clears(t) == {q \in DOMAIN t : t[q] >= HomeBaseMinDays}
<1>1. own(rows) \subseteq own(more) /\ at(own(more), p) = at(own(rows), p)
  BY DEF since, at
<1>2. /\ IsFiniteSet(DOMAIN T) /\ DOMAIN T = placesOf(own(rows))
      /\ \A q \in DOMAIN T : q \in Nat \ {NoPlace} /\ T[q] \in Nat /\ T[q] = Cardinality(days(at(own(rows), q)))
  BY TallyIs
<1>3. /\ IsFiniteSet(DOMAIN U) /\ DOMAIN U = placesOf(own(more))
      /\ \A q \in DOMAIN U : /\ q \in Nat \ {NoPlace} /\ U[q] \in Nat /\ U[q] = Cardinality(days(at(own(more), q)))
                             /\ IsFiniteSet(days(at(own(more), q)))
  BY TallyIs
<1>4. DOMAIN T \subseteq DOMAIN U
  BY <1>1, <1>2, <1>3 DEF placesOf
<1>5. ASSUME NEW q \in DOMAIN T PROVE T[q] <= U[q]
  <2>1. days(at(own(rows), q)) \subseteq days(at(own(more), q))
    BY <1>1 DEF days, at
  <2>2. IsFiniteSet(days(at(own(more), q)))
    BY <1>3, <1>4, <1>5
  <2>3. Cardinality(days(at(own(rows), q))) <= Cardinality(days(at(own(more), q)))
    BY <2>1, <2>2, FS_Subset
  <2> QED BY <2>3, <1>2, <1>3, <1>4, <1>5
<1>6. p \in DOMAIN U => p \in DOMAIN T /\ T[p] = U[p]
  <2> SUFFICES ASSUME p \in DOMAIN U PROVE p \in DOMAIN T /\ T[p] = U[p]
    OBVIOUS
  <2>1. PICK r \in own(more) : normalizeLocation(r.loc) = p
    BY <1>3 DEF placesOf
  <2>2. r \in at(own(rows), p)
    BY <1>1, <2>1 DEF at
  <2>3. p \in DOMAIN T
    BY <1>2, <2>2 DEF placesOf, at
  <2> QED BY <1>1, <1>2, <1>3, <2>3
<1> HIDE DEF T, U
<1> DEFINE old == bestHomeLocation(T)
           new == bestHomeLocation(U)
<1>7. /\ old = NoPlace <=> clears(T) = {}
      /\ old # NoPlace => old \in clears(T) /\ \A q \in clears(T) : T[q] <= T[old] /\ (T[q] = T[old] => old <= q)
  BY <1>2, HomeIs
<1>8. /\ new = NoPlace <=> clears(U) = {}
      /\ new # NoPlace => new \in clears(U) /\ \A q \in clears(U) : U[q] <= U[new] /\ (U[q] = U[new] => new <= q)
  BY <1>3, HomeIs
<1> HIDE DEF old, new
<1>9. clears(T) \subseteq clears(U)
  BY <1>2, <1>3, <1>4, <1>5, EventsAssumption
<1>10. ASSUME new = p, new # NoPlace PROVE old = p
  <2>1. p \in clears(T) /\ T[p] = U[p] /\ old # NoPlace
    BY <1>6, <1>7, <1>8, <1>10
  <2>2. old \in clears(T) /\ T[p] <= T[old] /\ (T[p] = T[old] => old <= p)
    BY <1>7, <2>1
  <2>3. old \in clears(U) /\ U[old] <= U[p] /\ (U[old] = U[p] => p <= old) /\ T[old] <= U[old]
    BY <1>5, <1>8, <1>9, <1>10, <2>2
  <2>4. {old, p, T[p], T[old], U[old]} \subseteq Int
    BY <1>2, <1>3, <2>1, <2>2, <2>3
  <2> QED BY <2>1, <2>2, <2>3, <2>4
<1> QED BY <1>7, <1>8, <1>9, <1>10 DEF T, U, old, new

TripsOf(rows, now0) == detectTrips(rows, computeHomeBases(rows, now0), computeHomeArea(rows, now0))

LEMMA TripStays ==
  ASSUME NEW rows, Placed(rows), NEW more, Placed(more), rows \subseteq more,
         NEW p, at(more, p) = at(rows, p), NEW now0,
         p \in placesOf(rows) \ computeHomeArea(rows, now0),
         NEW t \in tripsAt(rows, p, computeHomeBases(rows, now0))
  PROVE  t \in TripsOf(more, now0)
<1> DEFINE old == computeHomeBases(rows, now0)
           new == computeHomeBases(more, now0)
           recent(rs) == since(rs, now0 - Lookback)
<1>1. p \in placesOf(more)
  BY DEF placesOf
<1>2. p \notin computeHomeArea(more, now0)
  <2>1. at(recent(more), p) = at(recent(rows), p)
    BY DEF at, since
  <2>2. p \in placesOf(recent(more)) => p \in placesOf(recent(rows))
    BY <2>1 DEF placesOf, at
  <2> HIDE DEF recent
  <2> QED BY <2>1, <2>2 DEF computeHomeArea, recent
<1>3. t \in tripRuns(at(more, p)) /\ isTrip(p, t, old)
  BY DEF tripsAt
<1>4. t \subseteq rows /\ Keyed(t)
  <2>1. Keyed(at(rows, p))
    BY SubKeyed DEF at, Placed
  <2>2. t \subseteq at(rows, p)
    BY <2>1, <1>3, RunsAre DEF RunFrom
  <2> QED BY <2>2, SubKeyed DEF at, Placed
<1>5. \A a \in authors(t) : /\ a \in authors(rows) /\ a \in authors(more)
                            /\ old[a] = bestHomeLocation(TallyOf(rows, now0, a))
                            /\ new[a] = bestHomeLocation(TallyOf(more, now0, a))
  BY <1>4 DEF authors, computeHomeBases, TallyOf
<1>6. \A a \in authors(t) : /\ old[a] # NoPlace => new[a] # NoPlace
                            /\ new[a] = p /\ new[a] # NoPlace => old[a] = p
  BY <1>5, HomeStays
<1> HIDE DEF old, new
<1>7. away(p, t, old) \subseteq away(p, t, new)
  BY <1>6 DEF away
<1>8. IsFiniteSet(away(p, t, new))
  <2> DEFINE f == [r \in t |-> r.by]
  <2>1. f \in Surjection(t, authors(t))
    BY DEF Surjection, authors
  <2>2. IsFiniteSet(authors(t))
    <3> HIDE DEF f
    <3> QED BY <1>4, <2>1, FS_Surjection DEF Keyed
  <2>3. away(p, t, new) \subseteq authors(t)
    BY DEF away
  <2> QED BY <2>2, <2>3, FS_Subset
<1>9. isTrip(p, t, new)
  <2>1. /\ Cardinality(away(p, t, old)) <= Cardinality(away(p, t, new))
        /\ IsFiniteSet(away(p, t, old))
    BY <1>7, <1>8, FS_Subset
  <2>2. Cardinality(away(p, t, old)) \in Nat /\ Cardinality(away(p, t, new)) \in Nat
    BY <1>8, <2>1, FS_CardinalityType
  <2> QED BY <1>3, <2>1, <2>2, EventsAssumption DEF isTrip
<1> QED BY <1>1, <1>2, <1>3, <1>9 DEF TripsOf, detectTrips, tripsAt, new

LEMMA ElsewhereKeeps ==
  ASSUME Rows, NEW e \in Told, Elsewhere(e)
  PROVE  LET p == normalizeLocation(e.place)
         IN /\ Located \subseteq Located'
            /\ at(Located', p) = at(Located, p)
<1> DEFINE p == normalizeLocation(e.place)
<1>1. posts \subseteq posts' /\ UNCHANGED <<now, active, blocked>>
      /\ \A q \in posts' \ posts : normalizeLocation(q.loc) # p
  BY DEF Elsewhere
<1>2. /\ Eligible = {q \in posts : q.kind # "recap" /\ q.by \in active /\ q.by \notin blocked}
      /\ Eligible' = {q \in posts' : q.kind # "recap" /\ q.by \in active /\ q.by \notin blocked}
  BY <1>1 DEF Eligible
<1>3. View = {rowOf(q) : q \in Eligible} /\ View' = {rowOf(q) : q \in Eligible'}
  BY <1>1 DEF View, rowOf
<1>4. Located = {r \in View : r.loc # 0} /\ Located' = {r \in View' : r.loc # 0}
  BY DEF Located
<1>5. \A q : rowOf(q).loc = q.loc
  BY DEF rowOf
<1>6. Located \subseteq Located'
  BY <1>1, <1>2, <1>3, <1>4
<1>7. ASSUME NEW r \in Located', normalizeLocation(r.loc) = p PROVE r \in Located
  <2>1. PICK q \in Eligible' : r = rowOf(q)
    BY <1>3, <1>4
  <2>2. q \in posts
    BY <1>1, <1>2, <1>5, <1>7, <2>1
  <2> QED BY <1>2, <1>3, <1>4, <1>7, <2>1, <2>2
<1> QED BY <1>6, <1>7 DEF at

(* TripsSurviveElsewhere: a check-in somewhere else leaves the runs of a    *)
(* place, its members' homes and the home area as they were for that place  *)
(* (buildTripIfQualifies, computeHomeBases, computeHomeArea).               *)
LEMMA TripSurvives ==
  ASSUME Rows, Placed(Located), Placed(Located'), NEW e \in Told, e.kind = "trip", Elsewhere(e)
  PROVE  \E f \in Told' : f.kind = "trip" /\ f.posts = e.posts
<1> DEFINE p == normalizeLocation(e.place)
<1>1. PICK t \in Trips : e = buildEvent("trip", t) /\ t \in TripRows(p)
  BY TripDates
<1>2. PICK q \in placesOf(Located) \ computeHomeArea(Located, now) : t \in TripRows(q) /\ t \subseteq at(Located, q)
  BY TripsAre
<1>3. p = q
  <2>1. PICK r \in t : e.place = r.loc
    BY <1>1, TripsAre, EventTells
  <2> QED BY <1>2, <2>1 DEF at
<1>4. Located \subseteq Located' /\ at(Located', p) = at(Located, p) /\ now' = now
  BY ElsewhereKeeps DEF Elsewhere
<1>5. t \in tripsAt(Located, p, computeHomeBases(Located, now))
  BY <1>1 DEF TripRows, tripsAt
<1>6. t \in TripsOf(Located', now)
  BY <1>2, <1>3, <1>4, <1>5, TripStays
<1>7. Told' = detectEvents(Located', now)
  BY <1>4 DEF Told
<1>8. buildEvent("trip", t) \in Told'
  BY <1>6, <1>7 DEF detectEvents, TripsOf
<1> QED BY <1>1, <1>8

(* TripsSurviveElsewhere: a check-in at another place takes no told trip    *)
(* away (computeHomeBases, computeHomeArea, buildTripIfQualifies).          *)
THEOREM TripsOutliveElsewhere == Spec => TripsSurviveElsewhere
<1>1. Rows /\ Rows' /\ [Next]_vars =>
        [\A e \in Told : (e.kind = "trip" /\ Elsewhere(e)) =>
           \E f \in Told' : f.kind = "trip" /\ f.posts = e.posts]_vars
  <2>1. (Rows => Placed(Located))'
    BY LocatedPlaced, PTL
  <2> QED BY <2>1, LocatedPlaced, TripSurvives
<1>2. JournalInv => Rows
  BY DEF JournalInv
<1> QED BY <1>1, <1>2, JournalInductive, PTL DEF Spec, TripsSurviveElsewhere

----------------------------------------------------------------------------
(* The first k in an order, and small sets of numbers.                      *)
TopOf(R, S, k) == {x \in S : Cardinality(Before(R, S, x)) < k}

LEMMA TopCounts ==
  ASSUME NEW S, IsFiniteSet(S), NEW R, Orders(R, S), NEW k \in Nat
  PROVE  LET top == TopOf(R, S, k)
         IN /\ IsFiniteSet(top) /\ Cardinality(top) \in Nat /\ Cardinality(top) <= k
            /\ top # S => Cardinality(top) = k
            /\ \A x \in top, y \in S \ top : <<x, y>> \in R
<1> DEFINE top == TopOf(R, S, k)
           n == Cardinality(S)
           f == [x \in S |-> Cardinality(Before(R, S, x))]
           g == [x \in top |-> Cardinality(Before(R, S, x))]
<1>1. n \in Nat /\ IsFiniteSet(top) /\ Cardinality(top) \in Nat /\ top \subseteq S
  BY FS_Subset, FS_CardinalityType DEF TopOf
<1>2. \A x \in S : f[x] \in 0..(n - 1) /\ \A y \in S : <<x, y>> \in R => f[x] < f[y]
  BY BeforeCounts
<1>3. \A x \in top : g[x] = f[x] /\ f[x] < k
  BY <1>1 DEF TopOf
<1>4. \A x \in S \ top : ~(f[x] < k)
  BY DEF TopOf
<1> HIDE DEF n
<1>5. \A x, y \in S : f[x] = f[y] => x = y
  <2> SUFFICES ASSUME NEW x \in S, NEW y \in S, f[x] = f[y], x # y PROVE FALSE
    OBVIOUS
  <2>1. f[x] < f[y] \/ f[y] < f[x]
    BY <1>2 DEF Orders
  <2>2. f[x] \in Int
    BY <1>1, <1>2
  <2> QED BY <2>1, <2>2
<1> HIDE DEF f
<1>6. \A x \in top : g[x] \in 0..(k - 1)
  BY <1>1, <1>2, <1>3
<1>7. g \in Injection(top, 0..(k - 1))
  BY <1>1, <1>3, <1>5, <1>6 DEF Injection, IsInjective
<1>8. IsFiniteSet(0..(k - 1)) /\ Cardinality(0..(k - 1)) = k
  BY FS_Interval
<1> HIDE DEF g, top
<1>9. Cardinality(top) <= k
  BY <1>7, <1>8, FS_Injection
<1>10. ASSUME top # S PROVE Cardinality(top) = k
  <2>1. PICK z \in S : z \notin top
    BY <1>1, <1>10
  <2>2. k <= f[z] /\ f[z] \in 0..(n - 1)
    BY <1>1, <1>2, <1>4, <2>1
  <2>3. f \in Injection(S, 0..(n - 1))
    BY <1>2, <1>5 DEF Injection, IsInjective, f
  <2>4. IsFiniteSet(0..(n - 1)) /\ Cardinality(0..(n - 1)) = n
    <3>1. n \in Nat /\ 0 \in Int /\ n - 1 \in Int
      BY <1>1
    <3> QED BY <3>1, FS_Interval
  <2>5. f \in Surjection(S, 0..(n - 1))
    BY <2>3, <2>4, FS_Injection DEF n
  <2>6. \A i \in 0..(k - 1) : \E x \in top : g[x] = i
    <3> TAKE i \in 0..(k - 1)
    <3>1. i \in 0..(n - 1) /\ i < k
      BY <1>1, <2>2
    <3>2. PICK x \in S : f[x] = i
      BY <2>5, <3>1 DEF Surjection
    <3>3. x \in top
      BY <1>4, <3>1, <3>2
    <3> QED BY <1>3, <3>2, <3>3
  <2>7. g \in Surjection(top, 0..(k - 1))
    BY <1>7, <2>6 DEF Surjection, Injection
  <2> QED BY <1>7, <1>8, <2>7, FS_Injection
<1>11. ASSUME NEW x \in top, NEW y \in S \ top PROVE <<x, y>> \in R
  <2>1. x \in S /\ f[x] < k /\ ~(f[y] < k) /\ f[x] \in Int /\ f[y] \in Int
    BY <1>1, <1>2, <1>3, <1>4, <1>11
  <2>2. ~(f[y] < f[x]) /\ x # y
    BY <2>1
  <2> QED BY <1>2, <2>1, <2>2 DEF Orders
<1> QED BY <1>1, <1>9, <1>10, <1>11 DEF top

LEMMA PairIsFinite == ASSUME NEW a, NEW b PROVE IsFiniteSet({a, b})
<1>1. {a, b} = {a} \cup {b}
  OBVIOUS
<1>2. IsFiniteSet({a})
  BY FS_Singleton
<1> QED BY <1>1, <1>2, FS_AddElement

LEMMA OfTwo ==
  ASSUME NEW a \in Int, NEW b \in Int
  PROVE  /\ Max({a, b}) = IF a >= b THEN a ELSE b
         /\ Min({a, b}) = IF a <= b THEN a ELSE b
<1>1. IsFiniteSet({a, b}) /\ {a, b} # {} /\ \A x \in {a, b} : x \in Int
  BY PairIsFinite
<1>2. Max({a, b}) \in {a, b} /\ Max({a, b}) >= a /\ Max({a, b}) >= b
  BY <1>1, MaxIs
<1>3. Min({a, b}) \in {a, b} /\ Min({a, b}) <= a /\ Min({a, b}) <= b
  BY <1>1, MinIs
<1> QED BY <1>2, <1>3

----------------------------------------------------------------------------
(* The wall.                                                                *)
Cards(cands) ==
  /\ IsFiniteSet(cands)
  /\ \A c \in cands : /\ c.id \in Nat /\ c.by \in Nat /\ c.at \in Nat
                       /\ c.likes \in Nat /\ c.comments \in Nat
  /\ \A c, d \in cands : c.id = d.id => c = d
ByMerit(cands) == {p \in cands \X cands : candidateOutranks(p[1], p[2])}

LEMMA SubCards ==
  ASSUME NEW cands, Cards(cands), NEW some, some \subseteq cands
  PROVE  Cards(some)
BY FS_Subset DEF Cards

LEMMA MeritOrders ==
  ASSUME NEW cands, Cards(cands)
  PROVE  /\ Orders(ByMerit(cands), cands)
         /\ ranked(cands, candidateOutranks) = Listing(ByMerit(cands), cands)
         /\ \A c \in cands : ahead(cands, c) = Before(ByMerit(cands), cands, c)
<1>1. \A c, d \in cands : <<c, d>> \in ByMerit(cands) <=> candidateOutranks(c, d)
  BY DEF ByMerit
<1>2. Orders(ByMerit(cands), cands)
  <2>1. \A c \in cands : ~candidateOutranks(c, c)
    BY DEF candidateOutranks, Cards
  <2>2. \A c, d \in cands : c # d => candidateOutranks(c, d) \/ candidateOutranks(d, c)
    BY DEF candidateOutranks, Cards
  <2>3. \A b, c, d \in cands : candidateOutranks(b, c) /\ candidateOutranks(c, d) => candidateOutranks(b, d)
    BY SMTT(30) DEF candidateOutranks, Cards
  <2> QED BY <1>1, <2>1, <2>2, <2>3 DEF Orders
<1>3. \A x \in cands : {y \in cands : candidateOutranks(y, x)} = Before(ByMerit(cands), cands, x)
  BY <1>1 DEF Before
<1>4. ranked(cands, candidateOutranks) = Listing(ByMerit(cands), cands)
  <2>1. \A i \in 1..Cardinality(cands) :
          (CHOOSE x \in cands : Cardinality({y \in cands : candidateOutranks(y, x)}) = i - 1)
            = CHOOSE x \in cands : Cardinality(Before(ByMerit(cands), cands, x)) = i - 1
    BY <1>3
  <2>2. ranked(cands, candidateOutranks) =
          [i \in 1..Cardinality(cands) |->
             CHOOSE x \in cands : Cardinality({y \in cands : candidateOutranks(y, x)}) = i - 1]
    BY DEF ranked
  <2>3. Listing(ByMerit(cands), cands) =
          [i \in 1..Cardinality(cands) |->
             CHOOSE x \in cands : Cardinality(Before(ByMerit(cands), cands, x)) = i - 1]
    BY DEF Listing
  <2> QED BY <2>1, <2>2, <2>3
<1>5. \A c \in cands : ahead(cands, c) = Before(ByMerit(cands), cands, c)
  BY <1>3 DEF ahead
<1> QED BY <1>2, <1>4, <1>5

(* An author's posts by merit: the first is sure of a place, and the share  *)
(* of an author is the first of them.                                       *)
Share == 1 + FillPerAuthor
Own(cands, c) == ownOf(cands, c.by)
Worth(cands, c) == Cardinality(ahead(Own(cands, c), c))
NextPosts(cands) == {c \in cands : Worth(cands, c) \in 1..FillPerAuthor}

LEMMA Worths ==
  ASSUME NEW cands, Cards(cands), NEW c \in cands
  PROVE  /\ Worth(cands, c) \in Nat
         /\ c \in guaranteedPosts(cands) <=> Worth(cands, c) = 0
         /\ Cards(Own(cands, c)) /\ c \in Own(cands, c)
         /\ \A k \in Nat : LET top == {d \in Own(cands, c) : Worth(cands, d) < k}
                           IN /\ IsFiniteSet(top) /\ Cardinality(top) \in Nat /\ Cardinality(top) <= k
                              /\ top # Own(cands, c) => Cardinality(top) = k
                              /\ \A x \in top, y \in Own(cands, c) \ top : candidateOutranks(x, y)
<1> DEFINE own == Own(cands, c)
           R == ByMerit(own)
<1>1. own \subseteq cands /\ c \in own /\ \A d \in own : Own(cands, d) = own
  BY DEF Own, ownOf
<1>2. Cards(own)
  BY <1>1, SubCards
<1>3. Orders(R, own) /\ \A d \in own : ahead(own, d) = Before(R, own, d)
  BY <1>2, MeritOrders
<1>4. \A d \in own : Worth(cands, d) = Cardinality(Before(R, own, d))
  BY <1>1, <1>3 DEF Worth
<1>5. IsFiniteSet(own) /\ IsFiniteSet(Before(R, own, c))
  BY <1>2, FS_Subset DEF Cards, Before
<1>6. Worth(cands, c) \in Nat
  BY <1>1, <1>4, <1>5, FS_CardinalityType
<1>7. c \in guaranteedPosts(cands) <=> Worth(cands, c) = 0
  BY <1>1, <1>3, <1>5, FS_EmptySet DEF guaranteedPosts, Worth, Own
<1>8. ASSUME NEW k \in Nat
      PROVE  LET top == {d \in own : Worth(cands, d) < k}
             IN /\ IsFiniteSet(top) /\ Cardinality(top) \in Nat /\ Cardinality(top) <= k
                /\ top # own => Cardinality(top) = k
                /\ \A x \in top, y \in own \ top : candidateOutranks(x, y)
  <2> DEFINE top == {d \in own : Worth(cands, d) < k}
  <2>1. top = TopOf(R, own, k)
    BY <1>4 DEF TopOf
  <2>2. /\ IsFiniteSet(top) /\ Cardinality(top) \in Nat /\ Cardinality(top) <= k
        /\ top # own => Cardinality(top) = k
        /\ \A x \in top, y \in own \ top : <<x, y>> \in R
    <3> HIDE DEF top, own, R
    <3> QED BY <1>3, <1>5, <2>1, TopCounts
  <2> QED BY <2>2 DEF ByMerit
<1> QED BY <1>1, <1>2, <1>6, <1>7, <1>8

LEMMA Fill ==
  ASSUME NEW cands, Cards(cands), NEW room \in Int
  PROVE  LET fill == fillPosts(cands, room)
         IN /\ fill \subseteq NextPosts(cands) /\ IsFiniteSet(fill) /\ Cardinality(fill) \in Nat
            /\ room >= 0 => Cardinality(fill) <= room
            /\ room <= 0 => fill = {}
            /\ room >= 0 /\ fill # NextPosts(cands) => Cardinality(fill) = room
            /\ \A d \in fill, c \in NextPosts(cands) \ fill : candidateOutranks(d, c)
<1> DEFINE next == NextPosts(cands)
           R == ByMerit(next)
           fill == fillPosts(cands, room)
<1>1. next = {c \in cands : Cardinality(ahead(ownOf(cands, c.by), c)) \in 1..FillPerAuthor}
  BY DEF NextPosts, Worth, Own
<1>2. fill = {c \in next : Cardinality(ahead(next, c)) < room}
  BY <1>1 DEF fillPosts
<1>3. Cards(next)
  BY <1>1, SubCards
<1>4. Orders(R, next) /\ \A c \in next : ahead(next, c) = Before(R, next, c)
  BY <1>3, MeritOrders
<1>5. fill = TopOf(R, next, room)
  BY <1>2, <1>4 DEF TopOf
<1>6. IsFiniteSet(next)
  BY <1>3 DEF Cards
<1> HIDE DEF next, fill
<1>7. CASE room >= 0
  <2>1. room \in Nat
    BY <1>7
  <2>2. /\ IsFiniteSet(fill) /\ Cardinality(fill) \in Nat /\ Cardinality(fill) <= room
        /\ fill # next => Cardinality(fill) = room
        /\ \A d \in fill, c \in next \ fill : <<d, c>> \in R
    BY <1>4, <1>5, <1>6, <2>1, TopCounts
  <2>3. room <= 0 => fill = {}
    BY <2>1, <2>2, FS_EmptySet
  <2> QED BY <1>2, <1>7, <2>2, <2>3 DEF ByMerit, fill, next
<1>8. CASE room < 0
  <2>1. \A c \in next : Cardinality(ahead(next, c)) \in Nat
    BY <1>6, FS_Subset, FS_CardinalityType DEF ahead
  <2>2. fill = {}
    BY <1>2, <1>8, <2>1
  <2> QED BY <1>8, <2>2, FS_EmptySet DEF fill, next
<1> QED BY <1>7, <1>8

LEMMA FirstOf ==
  ASSUME NEW S, IsFiniteSet(S), NEW R, Orders(R, S), NEW limit \in Nat
  PROVE  LET list == Listing(R, S)
             n == Min({Len(list), limit})
             on == {list[i] : i \in 1..n}
         IN /\ Len(list) = Cardinality(S) /\ n \in Nat /\ 1..n \subseteq DOMAIN list
            /\ on \subseteq S /\ Cardinality(on) = n /\ IsFiniteSet(on)
            /\ n <= limit /\ (n # limit => on = S) /\ (Cardinality(S) <= limit => on = S)
            /\ Cardinality(S) >= limit => n = limit
<1> DEFINE list == Listing(R, S)
           k == Cardinality(S)
           n == Min({Len(list), limit})
           on == {list[i] : i \in 1..n}
           f == [i \in 1..n |-> list[i]]
<1>1. /\ k \in Nat /\ list \in [1..k -> S]
      /\ \A x \in S : \E i \in 1..k : list[i] = x
      /\ \A i, j \in 1..k : i < j => <<list[i], list[j]>> \in R
  BY ListingIs
<1> HIDE DEF list, k
<1>2. Len(list) = k /\ DOMAIN list = 1..k
  BY <1>1
<1>3. n = IF k <= limit THEN k ELSE limit
  <2>1. n = Min({k, limit}) /\ k \in Int /\ limit \in Int
    BY <1>1, <1>2
  <2> HIDE DEF n
  <2> QED BY <2>1, OfTwo
<1> HIDE DEF n
<1>4. n \in Nat /\ n <= k /\ 1..n \subseteq 1..k
  BY <1>1, <1>3
<1>5. on \subseteq S
  BY <1>1, <1>4
<1>6. \A i, j \in 1..n : list[i] = list[j] => i = j
  <2> SUFFICES ASSUME NEW i \in 1..n, NEW j \in 1..n, list[i] = list[j], i # j PROVE FALSE
    OBVIOUS
  <2>1. <<list[i], list[j]>> \in R \/ <<list[j], list[i]>> \in R
    <3>1. i \in 1..k /\ j \in 1..k /\ (i < j \/ j < i)
      BY <1>4
    <3> QED BY <1>1, <3>1
  <2>2. list[i] \in S
    BY <1>5
  <2> QED BY <2>1, <2>2 DEF Orders
<1>7. f \in Injection(1..n, on) /\ f \in Surjection(1..n, on)
  BY <1>6 DEF Injection, IsInjective, Surjection
<1>8. IsFiniteSet(1..n) /\ Cardinality(1..n) = n
  BY <1>4, FS_Interval
<1>9. n = k => on = S
  BY <1>1, <1>5
<1> HIDE DEF f, on
<1>10. IsFiniteSet(on) /\ Cardinality(on) = n
  BY <1>7, <1>8, FS_Surjection
<1>11. /\ Len(list) = k /\ n \in Nat /\ 1..n \subseteq DOMAIN list
       /\ on \subseteq S /\ Cardinality(on) = n /\ IsFiniteSet(on)
       /\ n <= limit /\ (n # limit => on = S) /\ (k <= limit => on = S)
       /\ k >= limit => n = limit
  BY <1>1, <1>2, <1>3, <1>4, <1>5, <1>9, <1>10
<1> QED BY <1>11 DEF list, k, n, on

(* Everyone who posted is sure of one place.                                *)
LEMMA SureOfOne ==
  ASSUME NEW cands, Cards(cands)
  PROVE  LET sure == guaranteedPosts(cands)
         IN /\ sure \subseteq cands /\ IsFiniteSet(sure) /\ Cardinality(sure) \in Nat
            /\ authorsOf(sure) = authorsOf(cands)
            /\ Cardinality(sure) = Cardinality(authorsOf(cands))
<1> DEFINE sure == guaranteedPosts(cands)
           f == [c \in sure |-> c.by]
<1>1. sure \subseteq cands /\ IsFiniteSet(sure) /\ Cardinality(sure) \in Nat
  BY FS_Subset, FS_CardinalityType DEF guaranteedPosts, Cards
<1>2. ASSUME NEW m \in authorsOf(cands) PROVE \E c \in sure : c.by = m
  <2> DEFINE own == ownOf(cands, m)
             R == ByMerit(own)
  <2>1. own # {} /\ own \subseteq cands /\ \A c \in own : c.by = m
    BY DEF authorsOf, ownOf
  <2>2. Cards(own)
    BY <2>1, SubCards
  <2>3. Orders(R, own) /\ IsFiniteSet(own)
    BY <2>2, MeritOrders DEF Cards
  <2>4. PICK c \in own : \A d \in own \ {c} : <<c, d>> \in R
    <3> HIDE DEF own, R
    <3> QED BY <2>1, <2>3, FirstOne
  <2>5. \A d \in own : ~candidateOutranks(d, c)
    <3> TAKE d \in own
    <3>1. CASE d = c
      BY <2>1, <3>1 DEF candidateOutranks, Cards
    <3>2. CASE d # c
      BY <2>3, <2>4, <3>2 DEF Orders, ByMerit
    <3> QED BY <3>1, <3>2
  <2>6. ahead(ownOf(cands, c.by), c) = {}
    BY <2>1, <2>5 DEF ahead
  <2> QED BY <2>1, <2>6 DEF guaranteedPosts
<1>3. \A c, d \in sure : c.by = d.by => c = d
  <2> SUFFICES ASSUME NEW c \in sure, NEW d \in sure, c.by = d.by, c # d PROVE FALSE
    OBVIOUS
  <2>1. c \in ownOf(cands, c.by) /\ d \in ownOf(cands, c.by)
    BY <1>1 DEF ownOf
  <2>2. candidateOutranks(c, d) \/ candidateOutranks(d, c)
    BY <1>1, MeritOrders DEF Orders, ByMerit
  <2> QED BY <2>1, <2>2 DEF guaranteedPosts, ahead
<1>4. authorsOf(sure) = authorsOf(cands)
  BY <1>1, <1>2 DEF authorsOf
<1>5. f \in Injection(sure, authorsOf(sure)) /\ f \in Surjection(sure, authorsOf(sure))
  <2> HIDE DEF sure
  <2> QED BY <1>3 DEF Injection, Surjection, IsInjective, authorsOf
<1>6. Cardinality(sure) = Cardinality(authorsOf(cands))
  <2> HIDE DEF f, sure
  <2> QED BY <1>1, <1>4, <1>5, FS_Surjection
<1> QED BY <1>1, <1>4, <1>6

card(p) ==
  [id |-> p.id, by |-> p.by, at |-> p.at, loc |-> p.loc,
   likes |-> Cardinality(p.likes), comments |-> Cardinality(p.comments),
   media |-> IF p.photos > 0 THEN "photo" ELSE IF p.clips > 0 THEN "clip" ELSE "none"]

LEMMA CandidatesAre ==
  ASSUME Rows
  PROVE  /\ Cards(recapCandidates) /\ Cardinality(active) \in Nat
         /\ authorsOf(recapCandidates) \subseteq active
         /\ IsFiniteSet(active) /\ IsFiniteSet(authorsOf(recapCandidates))
         /\ Cardinality(authorsOf(recapCandidates)) \in Nat
         /\ Cardinality(authorsOf(recapCandidates)) <= Cardinality(active)
<1> DEFINE chosen == {q \in posts : q.kind # "recap" /\ q.by \in active /\ InPeriod(q.at)}
           cards == {card(p) : p \in chosen}
           f == [p \in chosen |-> card(p)]
<1>1. recapCandidates = cards
  BY DEF recapCandidates, card
<1>2. chosen \subseteq posts /\ IsFiniteSet(chosen)
  BY FS_Subset DEF Rows
<1>3. \A p \in chosen : /\ card(p).id = p.id /\ card(p).by = p.by /\ card(p).at = p.at
                        /\ card(p).likes = Cardinality(p.likes)
                        /\ card(p).comments = Cardinality(p.comments)
  BY DEF card
<1>4. \A p \in chosen : /\ p.id \in Nat /\ p.at \in Nat /\ p.by \in active /\ p.by \in Nat
                        /\ Cardinality(p.likes) \in Nat /\ Cardinality(p.comments) \in Nat
  BY <1>2, FS_CardinalityType, ScenesAssumption DEF Rows, Post
<1>5. \A p, q \in chosen : p.id = q.id => p = q
  BY <1>2 DEF Rows
<1> HIDE DEF chosen
<1>6. f \in Surjection(chosen, cards)
  BY DEF Surjection
<1>7. IsFiniteSet(cards)
  <2> HIDE DEF f, cards
  <2> QED BY <1>2, <1>6, FS_Surjection
<1>8. Cards(cards)
  BY <1>3, <1>4, <1>5, <1>7 DEF Cards
<1>9. authorsOf(cards) \subseteq active
  BY <1>3, <1>4 DEF authorsOf
<1>10. IsFiniteSet(active)
  BY FS_Subset, ScenesAssumption DEF Rows
<1> HIDE DEF cards
<1>11. IsFiniteSet(authorsOf(cards)) /\ Cardinality(authorsOf(cards)) <= Cardinality(active)
  BY <1>9, <1>10, FS_Subset
<1>12. Cardinality(active) \in Nat /\ Cardinality(authorsOf(cards)) \in Nat
  BY <1>10, <1>11, FS_CardinalityType
<1> QED BY <1>1, <1>8, <1>9, <1>10, <1>11, <1>12

LEMMA CapIs ==
  ASSUME NEW count \in Nat
  PROVE  LET limit == collageCardCap(count)
         IN limit \in Nat /\ (limit >= count \/ limit = MaxCards)
<1> DEFINE larger == Max({BaseCards, count})
<1>1. larger \in Nat /\ larger >= count
  BY CardsAssumption, OfTwo
<1>2. collageCardCap(count) = Min({larger, MaxCards})
  BY DEF collageCardCap
<1> HIDE DEF larger
<1>3. Min({larger, MaxCards}) = IF larger <= MaxCards THEN larger ELSE MaxCards
  BY <1>1, CardsAssumption, OfTwo
<1> QED BY <1>1, <1>2, <1>3, CardsAssumption

(* The cards the wall takes: the first of the chosen.                       *)
Chosen(cands, limit) ==
  guaranteedPosts(cands) \cup fillPosts(cands, limit - Cardinality(guaranteedPosts(cands)))
Takes(cands, count) ==
  {c \in cands : \E i \in DOMAIN selectCollageCards(cands, count) :
                    selectCollageCards(cands, count)[i].post = c.id}

LEMMA WallTakes ==
  ASSUME NEW cands, Cards(cands), NEW count \in Nat
  PROVE  LET limit == collageCardCap(count)
             size == Len(selectCollageCards(cands, count))
             on == Takes(cands, count)
             both == Chosen(cands, limit)
         IN /\ limit \in Nat /\ on \subseteq both /\ IsFiniteSet(on)
            /\ size = Cardinality(on) /\ size \in Nat /\ size <= limit
            /\ (Cardinality(both) <= limit => on = both)
            /\ (Cardinality(both) >= limit => size = limit)
<1> DEFINE limit == collageCardCap(count)
           wall == selectCollageCards(cands, count)
           on == {c \in cands : \E i \in DOMAIN wall : wall[i].post = c.id}
           sure == guaranteedPosts(cands)
           both == sure \cup fillPosts(cands, limit - Cardinality(sure))
           chosen == ranked(both, candidateOutranks)
           n == Min({Len(chosen), limit})
           taken == {chosen[i] : i \in 1..n}
<1>1. limit \in Nat
  BY CapIs
<1> HIDE DEF limit
<1>2. sure \subseteq cands /\ Cardinality(sure) \in Nat /\ both \subseteq cands
  <2>1. sure \subseteq cands /\ Cardinality(sure) \in Nat
    BY SureOfOne
  <2> DEFINE room == limit - Cardinality(sure)
  <2>2. room \in Int
    BY <1>1, <2>1
  <2> HIDE DEF room, sure
  <2>3. fillPosts(cands, room) \subseteq cands
    BY <2>2, Fill DEF NextPosts
  <2> QED BY <2>1, <2>3 DEF room
<1> HIDE DEF both
<1>3. Cards(both)
  BY <1>2, SubCards
<1>4. Orders(ByMerit(both), both) /\ chosen = Listing(ByMerit(both), both) /\ IsFiniteSet(both)
  BY <1>3, MeritOrders DEF Cards
<1>5. /\ Len(chosen) = Cardinality(both) /\ n \in Nat /\ 1..n \subseteq DOMAIN chosen
      /\ taken \subseteq both /\ Cardinality(taken) = n /\ IsFiniteSet(taken)
      /\ n <= limit /\ (n # limit => taken = both) /\ (Cardinality(both) <= limit => taken = both)
      /\ Cardinality(both) >= limit => n = limit
  <2> DEFINE list == Listing(ByMerit(both), both)
             k == Min({Len(list), limit})
             on2 == {list[i] : i \in 1..k}
  <2>1. /\ Len(list) = Cardinality(both) /\ k \in Nat /\ 1..k \subseteq DOMAIN list
        /\ on2 \subseteq both /\ Cardinality(on2) = k /\ IsFiniteSet(on2)
        /\ k <= limit /\ (k # limit => on2 = both) /\ (Cardinality(both) <= limit => on2 = both)
        /\ Cardinality(both) >= limit => k = limit
    <3> HIDE DEF list, chosen, n, taken
    <3> QED BY <1>1, <1>4, FirstOf DEF list
  <2>2. list = chosen
    BY <1>4
  <2> HIDE DEF list, chosen
  <2> QED BY <2>1, <2>2
<1>6. wall = [i \in 1..n |->
                [post |-> chosen[i].id, by |-> chosen[i].by, guaranteed |-> chosen[i] \in sure,
                 kind |-> IF chosen[i].media = "none" THEN "quote" ELSE chosen[i].media]]
  BY DEF selectCollageCards, both, limit
<1> HIDE DEF n, chosen, wall, sure
<1>7. DOMAIN wall = 1..n /\ Len(wall) = n /\ \A i \in 1..n : wall[i].post = chosen[i].id
  BY <1>5, <1>6
<1>8. on = taken
  <2>1. \A c \in cands : c \in taken <=> \E i \in 1..n : chosen[i].id = c.id
    <3> TAKE c \in cands
    <3>1. \A i \in 1..n : chosen[i] \in cands
      BY <1>2, <1>5
    <3> QED BY <3>1 DEF Cards
  <2>2. \A c \in cands : c \in on <=> \E i \in 1..n : chosen[i].id = c.id
    BY <1>7
  <2>3. on \subseteq cands /\ taken \subseteq cands
    BY <1>2, <1>5
  <2> QED BY <2>1, <2>2, <2>3
<1> HIDE DEF on
<1>9. /\ limit \in Nat /\ on \subseteq both /\ IsFiniteSet(on)
      /\ Len(wall) = Cardinality(on) /\ Len(wall) \in Nat /\ Len(wall) <= limit
      /\ (Cardinality(both) <= limit => on = both)
      /\ (Cardinality(both) >= limit => Len(wall) = limit)
  <2> HIDE DEF taken
  <2> QED BY <1>1, <1>5, <1>7, <1>8
<1> QED BY <1>9 DEF on, wall, both, sure, limit, Takes, Chosen

(* What WallIsFair says of one set of candidates and one size of group.     *)
LEMMA WallFair ==
  ASSUME NEW cands, Cards(cands), NEW count \in Nat,
         Cardinality(authorsOf(cands)) \in Nat, Cardinality(authorsOf(cands)) <= count
  PROVE  LET wall == selectCollageCards(cands, count)
             limit == collageCardCap(count)
             on == Takes(cands, count)
         IN /\ Len(wall) = Cardinality(on) /\ Len(wall) <= limit
            /\ Cardinality(authorsOf(cands)) <= MaxCards => authorsOf(on) = authorsOf(cands)
            /\ \A m : postCount(on, m) <= Share
            /\ \A c \in cands \ on :
                 \/ postCount(on, c.by) = Share
                 \/ Len(wall) = limit /\ \A d \in on :
                      candidateOutranks(d, c) \/ ahead(ownOf(cands, d.by), d) = {}
<1> DEFINE limit == collageCardCap(count)
           size == Len(selectCollageCards(cands, count))
           on == Takes(cands, count)
           sure == guaranteedPosts(cands)
           room == limit - Cardinality(sure)
           fill == fillPosts(cands, room)
           next == NextPosts(cands)
           both == sure \cup fill
<1>1. limit \in Nat /\ (limit >= count \/ limit = MaxCards)
  BY CapIs
<1>2. /\ on \subseteq both /\ IsFiniteSet(on)
      /\ size = Cardinality(on) /\ size \in Nat /\ size <= limit
      /\ (Cardinality(both) <= limit => on = both)
      /\ (Cardinality(both) >= limit => size = limit)
  <2>1. both = Chosen(cands, limit)
    BY DEF Chosen
  <2> HIDE DEF both
  <2> QED BY <2>1, WallTakes
<1>3. /\ sure \subseteq cands /\ IsFiniteSet(sure) /\ Cardinality(sure) \in Nat
      /\ authorsOf(sure) = authorsOf(cands)
      /\ Cardinality(sure) = Cardinality(authorsOf(cands))
  BY SureOfOne
<1>4. room \in Int /\ room = limit - Cardinality(sure)
  BY <1>1, <1>3
<1>5. \A c \in cands : /\ Worth(cands, c) \in Nat
                       /\ c \in sure <=> Worth(cands, c) = 0
                       /\ c \in next <=> Worth(cands, c) \in 1..FillPerAuthor
  BY Worths DEF NextPosts
<1> HIDE DEF limit, size, on, sure, room, next
<1>6. /\ fill \subseteq next /\ IsFiniteSet(fill) /\ Cardinality(fill) \in Nat
      /\ room >= 0 => Cardinality(fill) <= room
      /\ room <= 0 => fill = {}
      /\ room >= 0 /\ fill # next => Cardinality(fill) = room
      /\ \A d \in fill, c \in next \ fill : candidateOutranks(d, c)
  BY <1>4, Fill DEF next
<1> HIDE DEF fill
<1>7. next \subseteq cands /\ sure \cap fill = {} /\ both \subseteq cands
  BY <1>3, <1>5, <1>6 DEF next, NextPosts
<1>8. IsFiniteSet(both) /\ Cardinality(both) = Cardinality(sure) + Cardinality(fill)
  <2>1. Cardinality(both) = Cardinality(sure) + Cardinality(fill) - Cardinality(sure \cap fill)
    BY <1>3, <1>6, FS_Union
  <2>2. Cardinality(sure \cap fill) = 0
    BY <1>7, FS_EmptySet
  <2> QED BY <1>3, <1>6, <2>1, <2>2, FS_Union
<1>9. Share \in Nat /\ FillPerAuthor \in Nat /\ Share = FillPerAuthor + 1
  BY CardsAssumption DEF Share
<1>10. Cardinality(authorsOf(cands)) <= MaxCards => authorsOf(on) = authorsOf(cands)
  <2> HAVE Cardinality(authorsOf(cands)) <= MaxCards
  <2>1. room >= 0
    BY <1>1, <1>3, <1>4, CardsAssumption
  <2>2. on = both
    BY <1>1, <1>2, <1>3, <1>4, <1>6, <1>8, <2>1
  <2> QED BY <1>3, <1>7, <2>2 DEF authorsOf
<1>11. ASSUME NEW m PROVE postCount(on, m) <= Share
  <2> DEFINE mine == ownOf(on, m)
  <2>1. CASE mine = {}
    BY <1>9, <2>1, FS_EmptySet DEF postCount
  <2>2. CASE mine # {}
    <3>1. PICK c \in mine : TRUE
      BY <2>2
    <3>2. c \in cands /\ c.by = m /\ mine \subseteq cands /\ \A d \in mine : d \in both /\ d.by = m
      BY <1>2, <1>7, <3>1 DEF ownOf
    <3> DEFINE top == {d \in Own(cands, c) : Worth(cands, d) < Share}
    <3>3. IsFiniteSet(top) /\ Cardinality(top) \in Nat /\ Cardinality(top) <= Share
      BY <1>9, <3>2, Worths
    <3>4. \A d \in both : Worth(cands, d) < Share
      BY <1>5, <1>6, <1>7, <1>9
    <3>5. mine \subseteq top
      BY <3>2, <3>4 DEF Own, ownOf
    <3> HIDE DEF top, mine
    <3>6. Cardinality(mine) \in Nat /\ Cardinality(mine) <= Cardinality(top)
      BY <3>3, <3>5, FS_Subset, FS_CardinalityType
    <3> QED BY <1>9, <3>3, <3>6 DEF postCount, mine
  <2> QED BY <2>1, <2>2
<1>12. ASSUME NEW c \in cands \ on
       PROVE  \/ postCount(on, c.by) = Share
              \/ size = limit /\ \A d \in on :
                   candidateOutranks(d, c) \/ ahead(ownOf(cands, d.by), d) = {}
  <2>1. \A d \in sure : ahead(ownOf(cands, d.by), d) = {}
    BY DEF sure, guaranteedPosts
  <2>2. CASE room <= 0
    <3>1. size = limit /\ on \subseteq sure
      BY <1>1, <1>2, <1>3, <1>4, <1>6, <1>8, <2>2, FS_EmptySet
    <3> QED BY <2>1, <3>1
  <2>3. CASE room > 0
    <3>1. on = both /\ (Cardinality(fill) = room => size = limit)
      BY <1>1, <1>2, <1>3, <1>4, <1>6, <1>8, <2>3
    <3>2. c \notin sure /\ c \notin fill
      BY <3>1
    <3>3. CASE c \in next
      <4>1. size = limit
        BY <1>4, <1>6, <2>3, <3>1, <3>2, <3>3
      <4>2. \A d \in fill : candidateOutranks(d, c)
        BY <1>6, <3>2, <3>3
      <4> QED BY <2>1, <3>1, <4>1, <4>2
    <3>4. CASE c \notin next
      <4> DEFINE top == {d \in Own(cands, c) : Worth(cands, d) < Share}
      <4>1. c \in Own(cands, c) /\ c \notin top
        BY <1>5, <1>9, <3>2, <3>4 DEF Own, ownOf
      <4>2. Cardinality(top) = Share /\ \A x \in top : candidateOutranks(x, c)
        BY <1>9, <4>1, Worths
      <4>3. CASE top \subseteq on
        <5>1. \A d \in on : Worth(cands, d) < Share
          BY <1>5, <1>6, <1>7, <1>9, <3>1
        <5>2. ownOf(on, c.by) = top
          BY <4>3, <5>1, <1>2, <1>7 DEF ownOf, Own
        <5> QED BY <4>2, <5>2 DEF postCount
      <4>4. CASE ~(top \subseteq on)
        <5>1. PICK x \in top : x \notin on
          BY <4>4
        <5>2. x \in cands /\ x \in next /\ x \notin fill
          BY <1>5, <1>9, <3>1, <5>1 DEF Own, ownOf
        <5>3. size = limit
          BY <1>4, <1>6, <2>3, <3>1, <5>2
        <5>4. ASSUME NEW d \in fill PROVE candidateOutranks(d, c)
          <6>1. candidateOutranks(d, x) /\ candidateOutranks(x, c) /\ d \in cands
            BY <1>6, <1>7, <4>2, <5>1, <5>2
          <6> QED BY <5>2, <6>1, MeritOrders DEF Orders, ByMerit
        <5> QED BY <2>1, <3>1, <5>3, <5>4
      <4> QED BY <4>3, <4>4
    <3> QED BY <3>3, <3>4
  <2>4. room <= 0 \/ room > 0
    BY <1>4
  <2> QED BY <2>2, <2>3, <2>4
<1> QED BY <1>2, <1>10, <1>11, <1>12 DEF size, limit, on

(* WallIsFair (selectCollageCards, fillPosts, collageCardCap): whatever the *)
(* posts and the group, the wall takes everyone it can, nobody beyond their *)
(* share, and leaves a post off only for one that outranks it, for want of  *)
(* room, or because its author is served.                                   *)
LEMMA FairWall == Rows => WallIsFair
<1> SUFFICES ASSUME Rows PROVE WallIsFair
  OBVIOUS
<1>1. /\ Cards(recapCandidates) /\ Cardinality(active) \in Nat
      /\ Cardinality(authorsOf(recapCandidates)) \in Nat
      /\ Cardinality(authorsOf(recapCandidates)) <= Cardinality(active)
  BY CandidatesAre
<1> QED BY <1>1, WallFair DEF WallIsFair, Wall, Takes, Share

(* WallIsFair: the wall has everyone who checked in, if they fit, nobody    *)
(* more than their share, and leaves a post off only for one that outranks  *)
(* it or is its author's best, for want of room, or because the author is   *)
(* served (selectCollageCards).                                             *)
THEOREM EveryWallIsFair == Spec => []WallIsFair
<1>1. JournalInv => WallIsFair
  BY FairWall DEF JournalInv
<1> QED BY <1>1, JournalInductive, PTL

----------------------------------------------------------------------------
(* Sums over a finite set: what sumOf's fold computes, step by step.        *)
AnyOf(s) == CHOOSE x \in s : TRUE
Summed(g, sum, s) == IF s = {} THEN 0 ELSE g[AnyOf(s)] + sum[s \ {AnyOf(s)}]
Sums(g, S) == CHOOSE sum : sum = [s \in SUBSET S |-> Summed(g, sum, s)]

LEMMA SumsDef ==
  ASSUME NEW S, IsFiniteSet(S), NEW g
  PROVE  Sums(g, S) = [s \in SUBSET S |-> Summed(g, Sums(g, S), s)]
<1> DEFINE n == Cardinality(S)
           upTo(k) == {s \in SUBSET S : Cardinality(s) <= k}
           solved(k) == \E sum : sum = [s \in upTo(k) |-> Summed(g, sum, s)]
           open == {k \in 0..n : ~solved(k)}
<1>1. \A s \in SUBSET S : IsFiniteSet(s) /\ Cardinality(s) \in Nat /\ Cardinality(s) <= n
  BY FS_Subset, FS_CardinalityType
<1>2. n \in Nat /\ upTo(n) = SUBSET S
  BY <1>1, FS_CardinalityType
<1>3. SUFFICES solved(n)
  BY <1>2 DEF Sums
<1>4. SUFFICES ASSUME ~solved(n) PROVE FALSE
  OBVIOUS
<1> HIDE DEF n, solved
<1>5. open # {} /\ IsFiniteSet(open) /\ \A k \in open : k \in Int
  <2>1. n \in open
    BY <1>2, <1>4
  <2>2. IsFiniteSet(0..n)
    BY <1>2, FS_Interval
  <2> QED BY <2>1, <2>2, FS_Subset
<1> DEFINE k == Min(open)
<1>6. k \in open /\ \A j \in open : k <= j
  <2> HIDE DEF open
  <2> QED BY <1>5, MinIs
<1> HIDE DEF k
<1>7. k \in 0..n /\ ~solved(k)
  BY <1>6
<1>8. k # 0
  <2>1. \A s \in upTo(0) : s = {}
    <3> TAKE s \in upTo(0)
    <3>1. IsFiniteSet(s) /\ Cardinality(s) = 0
      BY <1>1
    <3> QED BY <3>1, FS_EmptySet
  <2> DEFINE sum == [s \in upTo(0) |-> 0]
  <2>2. sum = [s \in upTo(0) |-> Summed(g, sum, s)]
    BY <2>1 DEF Summed
  <2>3. solved(0)
    BY <2>2 DEF solved
  <2> QED BY <1>7, <2>3
<1>9. PICK below : below = [s \in upTo(k - 1) |-> Summed(g, below, s)]
  <2>1. k - 1 \in 0..n /\ ~(k <= k - 1)
    BY <1>2, <1>7, <1>8
  <2>2. solved(k - 1)
    BY <1>6, <2>1
  <2> QED BY <2>2 DEF solved
<1> DEFINE sum == [s \in upTo(k) |-> Summed(g, below, s)]
<1>10. ASSUME NEW s \in upTo(k) PROVE Summed(g, sum, s) = Summed(g, below, s)
  <2>1. CASE s = {}
    BY <2>1 DEF Summed
  <2>2. CASE s # {}
    <3> DEFINE r == s \ {AnyOf(s)}
    <3>1. AnyOf(s) \in s /\ r \in SUBSET S
      BY <2>2 DEF AnyOf
    <3>2. IsFiniteSet(s) /\ Cardinality(s) \in Nat /\ Cardinality(s) <= k
      BY <1>1
    <3>3. Cardinality(r) = Cardinality(s) - 1
      BY <3>1, <3>2, FS_RemoveElement
    <3>4. r \in upTo(k - 1) /\ r \in upTo(k)
      BY <1>7, <3>1, <3>2, <3>3
    <3>5. sum[r] = below[r]
      <4>1. below[r] = Summed(g, below, r)
        BY <1>9, <3>4
      <4>2. sum[r] = Summed(g, below, r)
        BY <3>4
      <4> QED BY <4>1, <4>2
    <3> HIDE DEF sum
    <3> QED BY <2>2, <3>5 DEF Summed
  <2> QED BY <2>1, <2>2
<1>11. sum = [s \in upTo(k) |-> Summed(g, sum, s)]
  BY <1>10
<1> QED BY <1>7, <1>11 DEF solved

LEMMA SumsAre ==
  ASSUME NEW S, IsFiniteSet(S), NEW g
  PROVE  LET sum == Sums(g, S)
         IN /\ sum[{}] = 0
            /\ \A s \in SUBSET S : s # {} =>
                 AnyOf(s) \in s /\ sum[s] = g[AnyOf(s)] + sum[s \ {AnyOf(s)}]
<1> DEFINE sum == Sums(g, S)
<1>1. sum = [s \in SUBSET S |-> Summed(g, sum, s)]
  BY SumsDef
<1> HIDE DEF sum
<1>2. {} \in SUBSET S /\ \A s \in SUBSET S : sum[s] = Summed(g, sum, s)
  BY <1>1
<1>3. sum[{}] = 0
  BY <1>2 DEF Summed
<1>4. \A s \in SUBSET S : s # {} =>
        AnyOf(s) \in s /\ sum[s] = g[AnyOf(s)] + sum[s \ {AnyOf(s)}]
  BY <1>2 DEF Summed, AnyOf
<1> QED BY <1>3, <1>4 DEF sum

LEMMA SumsInt ==
  ASSUME NEW S, IsFiniteSet(S), NEW g, \A x \in S : g[x] \in Int
  PROVE  Sums(g, S)[S] \in Int
<1> DEFINE sum == Sums(g, S)
           odd == {s \in SUBSET S : sum[s] \notin Int}
<1>1. /\ sum[{}] = 0
      /\ \A s \in SUBSET S : s # {} =>
           AnyOf(s) \in s /\ sum[s] = g[AnyOf(s)] + sum[s \ {AnyOf(s)}]
  BY SumsAre
<1>2. SUFFICES ASSUME odd # {} PROVE FALSE
  OBVIOUS
<1>3. odd \subseteq SUBSET S
  OBVIOUS
<1> HIDE DEF odd, sum
<1>4. PICK s \in odd : \A r \in odd : r \subseteq s => r = s
  BY <1>2, <1>3, SmallestIn
<1>5. s \in SUBSET S /\ ~(sum[s] \in Int)
  BY <1>4 DEF odd
<1>6. s # {}
  <2>1. s = {} => sum[s] = 0
    BY <1>1
  <2> QED BY <1>5, <2>1
<1> DEFINE r == s \ {AnyOf(s)}
<1>7. AnyOf(s) \in s /\ sum[s] = g[AnyOf(s)] + sum[r]
  BY <1>1, <1>5, <1>6
<1>8. r \in SUBSET S /\ r # s /\ r \subseteq s
  BY <1>5, <1>7
<1>9. sum[r] \in Int
  BY <1>4, <1>8 DEF odd
<1>10. g[AnyOf(s)] \in Int
  BY <1>5, <1>7
<1> HIDE DEF r
<1> QED BY <1>5, <1>7, <1>9, <1>10

----------------------------------------------------------------------------
(* Titles.                                                                  *)
LEMMA BestIs ==
  ASSUME NEW T, IsFiniteSet(T), \A x \in T : x \in Int
  PROVE  Max(T \cup {0}) \in Int /\ \A x \in T : x <= Max(T \cup {0})
<1> DEFINE U == T \cup {0}
<1>1. IsFiniteSet(U) /\ U # {} /\ \A x \in U : x \in Int
  BY FS_AddElement
<1>2. T \subseteq U
  OBVIOUS
<1> HIDE DEF U
<1>3. Max(U) \in U /\ \A x \in U : x <= Max(U)
  BY <1>1, MaxIs
<1> QED BY <1>1, <1>2, <1>3 DEF U

LEMMA Awards ==
  /\ Award = {"most_liked", "night_owl", "early_bird", "most_travelled", "chatterbox",
              "biggest_fan", "quiet_achiever", "most_tagged", "longest_thread"}
  /\ IsFiniteSet(Award) /\ NoAward \notin Award
  /\ \A a \in Award : orderOf(a) \in 1..9
  /\ \A a, b \in Award : orderOf(a) = orderOf(b) => a = b
<1>1. DOMAIN awardOrder = 1..9
  BY DEF awardOrder
<1>2. /\ awardOrder[1] = "most_liked" /\ awardOrder[2] = "night_owl"
      /\ awardOrder[3] = "early_bird" /\ awardOrder[4] = "most_travelled"
      /\ awardOrder[5] = "chatterbox" /\ awardOrder[6] = "biggest_fan"
      /\ awardOrder[7] = "quiet_achiever" /\ awardOrder[8] = "most_tagged"
      /\ awardOrder[9] = "longest_thread"
  BY DEF awardOrder
<1>3. 1..9 = {1, 2, 3, 4, 5, 6, 7, 8, 9}
  OBVIOUS
<1>4. Award = {awardOrder[i] : i \in 1..9}
  BY <1>1 DEF Award
<1>5. Award = {"most_liked", "night_owl", "early_bird", "most_travelled", "chatterbox",
               "biggest_fan", "quiet_achiever", "most_tagged", "longest_thread"}
  BY <1>2, <1>3, <1>4
<1> DEFINE f == [i \in 1..9 |-> awardOrder[i]]
<1>6. f \in Surjection(1..9, Award)
  BY <1>4 DEF Surjection
<1>7. IsFiniteSet(Award)
  <2> HIDE DEF f
  <2>1. IsFiniteSet(1..9)
    <3>1. 1 \in Int /\ 9 \in Int
      OBVIOUS
    <3> QED BY <3>1, FS_Interval
  <2> QED BY <1>6, <2>1, FS_Surjection
<1>8. \A a \in Award : orderOf(a) \in 1..9 /\ awardOrder[orderOf(a)] = a
  BY <1>1, <1>4 DEF orderOf
<1> QED BY <1>5, <1>7, <1>8 DEF NoAward

LEMMA SumOfIs ==
  ASSUME NEW cands, IsFiniteSet(cands), \A c \in cands : c.likes \in Int
  PROVE  sumOf(LAMBDA c : c.likes, cands) \in Int
<1> DEFINE g == [c \in cands |-> c.likes]
           body(f) == [s \in SUBSET cands |->
                         IF s = {} THEN 0
                         ELSE (CHOOSE x \in s : TRUE).likes + f[s \ {CHOOSE x \in s : TRUE}]]
           body2(f) == [s \in SUBSET cands |-> Summed(g, f, s)]
<1>1. sumOf(LAMBDA c : c.likes, cands) = (CHOOSE f : f = body(f))[cands]
  BY DEF sumOf, MapThenSumSet, MapThenFoldSet
<1>2. ASSUME NEW f PROVE body(f) = body2(f)
  <2> SUFFICES ASSUME NEW s \in SUBSET cands
               PROVE  (IF s = {} THEN 0
                       ELSE (CHOOSE x \in s : TRUE).likes + f[s \ {CHOOSE x \in s : TRUE}])
                        = Summed(g, f, s)
    OBVIOUS
  <2>1. s # {} => g[AnyOf(s)] = (CHOOSE x \in s : TRUE).likes
    BY DEF AnyOf
  <2> HIDE DEF g
  <2> QED BY <2>1 DEF Summed, AnyOf
<1>3. Sums(g, cands) = CHOOSE f : f = body2(f)
  BY DEF Sums
<1> HIDE DEF body, body2
<1>4. (CHOOSE f : f = body(f)) = (CHOOSE f : f = body2(f))
  BY <1>2
<1>5. \A c \in cands : g[c] \in Int
  OBVIOUS
<1> HIDE DEF g
<1> QED BY <1>1, <1>3, <1>4, <1>5, SumsInt

LEMMA QuietInt ==
  ASSUME NEW cands, Cards(cands), NEW m
  PROVE  quietScore(cands, m) \in Int
<1> DEFINE own == ownOf(cands, m)
           n == Cardinality(own)
           liked == sumOf(LAMBDA c : c.likes, own)
<1>1. own \subseteq cands
  BY DEF ownOf
<1>2. IsFiniteSet(own) /\ \A c \in own : c.likes \in Int
  BY <1>1, FS_Subset DEF Cards
<1>3. n \in Nat
  BY <1>2, FS_CardinalityType
<1>4. liked \in Int
  <2> HIDE DEF own
  <2> QED BY <1>2, SumOfIs
<1>5. quietScore(cands, m) = IF n > 0 /\ n * Cardinality(authorsOf(cands)) <= Cardinality(cands)
                             THEN (200 * liked + n) \div (2 * n) + 1 ELSE 0
  BY DEF quietScore
<1> HIDE DEF n, liked
<1>6. n > 0 => (200 * liked + n) \div (2 * n) \in Int
  <2> DEFINE a == 200 * liked + n
             b == 2 * n
  <2>1. a \in Int /\ b \in Int
    BY <1>3, <1>4
  <2>2. n > 0 => b > 0
    BY <1>3
  <2> HIDE DEF a, b
  <2>3. n > 0 => a \div b \in Int
    BY <2>1, <2>2
  <2> QED BY <2>3 DEF a, b
<1> QED BY <1>5, <1>6

(* Whoever posted has a score in every award, and one above 0 in the award  *)
(* for the earliest post of a day.                                          *)
LEMMA ScoreInt ==
  ASSUME NEW cands, Cards(cands), NEW m, NEW counts, NEW a \in Award,
         counts.written[m] \in Int, counts.given[m] \in Int, counts.tagged[m] \in Int
  PROVE  /\ score(a, cands, m, counts) \in Int
         /\ m \in authorsOf(cands) => score("early_bird", cands, m, counts) > 0
<1> DEFINE own == ownOf(cands, m)
           liked == {c.likes : c \in own}
           late == {minuteOfDay(c.at) + 1 : c \in own}
           early == {MinutesPerDay - minuteOfDay(c.at) : c \in own}
           talked == {c.comments : c \in own}
           seen == {c.loc : c \in own}
<1>1. own \subseteq cands
  BY DEF ownOf
<1>2. IsFiniteSet(own) /\ \A c \in own : c.likes \in Nat /\ c.comments \in Nat /\ c.at \in Nat
  BY <1>1, FS_Subset DEF Cards
<1>3. \A c \in own : minuteOfDay(c.at) \in 0..(MinutesPerDay - 1)
  BY <1>2, CardsAssumption DEF minuteOfDay
<1> HIDE DEF own
<1>4. IsFiniteSet(liked) /\ \A x \in liked : x \in Int
  <2> DEFINE f == [c \in own |-> c.likes]
  <2>1. f \in Surjection(own, liked)
    BY DEF Surjection
  <2>2. \A x \in liked : x \in Int
    BY <1>2
  <2> HIDE DEF f, liked
  <2> QED BY <1>2, <2>1, <2>2, FS_Surjection
<1>5. IsFiniteSet(late) /\ \A x \in late : x \in Int
  <2> DEFINE f == [c \in own |-> minuteOfDay(c.at) + 1]
  <2>1. f \in Surjection(own, late)
    BY DEF Surjection
  <2>2. \A x \in late : x \in Int
    BY <1>3
  <2> HIDE DEF f, late
  <2> QED BY <1>2, <2>1, <2>2, FS_Surjection
<1>6. IsFiniteSet(early) /\ \A x \in early : x \in Int /\ x > 0
  <2> DEFINE f == [c \in own |-> MinutesPerDay - minuteOfDay(c.at)]
  <2>1. f \in Surjection(own, early)
    BY DEF Surjection
  <2>2. \A x \in early : x \in Int /\ x > 0
    BY <1>3, CardsAssumption
  <2> HIDE DEF f, early
  <2> QED BY <1>2, <2>1, <2>2, FS_Surjection
<1>7. IsFiniteSet(talked) /\ \A x \in talked : x \in Int
  <2> DEFINE f == [c \in own |-> c.comments]
  <2>1. f \in Surjection(own, talked)
    BY DEF Surjection
  <2>2. \A x \in talked : x \in Int
    BY <1>2
  <2> HIDE DEF f, talked
  <2> QED BY <1>2, <2>1, <2>2, FS_Surjection
<1>8. Cardinality(seen \ {0}) \in Nat
  <2> DEFINE f == [c \in own |-> c.loc]
  <2>1. f \in Surjection(own, seen)
    BY DEF Surjection
  <2>2. IsFiniteSet(seen)
    <3> HIDE DEF f, seen
    <3> QED BY <1>2, <2>1, FS_Surjection
  <2> HIDE DEF seen
  <2>3. IsFiniteSet(seen \ {0})
    BY <2>2, FS_Subset
  <2> QED BY <2>3, FS_CardinalityType
<1>9. quietScore(cands, m) \in Int
  BY QuietInt
<1>10. /\ score("most_liked", cands, m, counts) = Max(liked \cup {0})
       /\ score("night_owl", cands, m, counts) = Max(late \cup {0})
       /\ score("early_bird", cands, m, counts) = Max(early \cup {0})
       /\ score("longest_thread", cands, m, counts) = Max(talked \cup {0})
       /\ score("most_travelled", cands, m, counts) = Cardinality(seen \ {0})
       /\ score("chatterbox", cands, m, counts) = counts.written[m]
       /\ score("biggest_fan", cands, m, counts) = counts.given[m]
       /\ score("quiet_achiever", cands, m, counts) = quietScore(cands, m)
       /\ score("most_tagged", cands, m, counts) = counts.tagged[m]
  BY DEF score, best, own
<1>11. m \in authorsOf(cands) => early # {}
  BY DEF authorsOf, own, ownOf
<1> HIDE DEF liked, late, early, talked, seen
<1>12. score("early_bird", cands, m, counts) \in Int
       /\ (early # {} => score("early_bird", cands, m, counts) > 0)
  <2>1. Max(early \cup {0}) \in Int /\ \A x \in early : x <= Max(early \cup {0})
    BY <1>6, BestIs
  <2>2. early # {} => Max(early \cup {0}) > 0
    BY <1>6, <2>1
  <2> QED BY <1>10, <2>1, <2>2
<1>13. /\ Max(liked \cup {0}) \in Int /\ Max(late \cup {0}) \in Int /\ Max(talked \cup {0}) \in Int
  BY <1>4, <1>5, <1>7, BestIs
<1>14. score(a, cands, m, counts) \in Int
  <2>1. a \in {"most_liked", "night_owl", "early_bird", "most_travelled", "chatterbox",
               "biggest_fan", "quiet_achiever", "most_tagged", "longest_thread"}
    BY Awards
  <2> QED BY <1>8, <1>9, <1>10, <1>12, <1>13, <2>1
<1> QED BY <1>11, <1>12, <1>14

Scored(scores, some) ==
  \A a \in Award : DOMAIN scores[a] = some /\ \A m \in some : scores[a][m] \in Int

(* The award bestowed is one of the member's best ranks.                    *)
LEMMA BestAward ==
  ASSUME NEW some, IsFiniteSet(some), \A m \in some : m \in Int, NEW scores, Scored(scores, some),
         NEW m \in some
  PROVE  LET given == bestAwardPerMember(awardRankings(scores), m)
         IN /\ (\E a \in Award : scores[a][m] > 0) => given \in Award
            /\ (\E a \in Award : m \in leads(scores[a])) => m \in leads(scores[given])
<1> DEFINE over(a, k) == {n \in some : scores[a][n] > 0 /\
                            (scores[a][n] > scores[a][k] \/ (scores[a][n] = scores[a][k] /\ n < k))}
           rank == awardRankings(scores)
           ranks == {a \in Award : scores[a][m] > 0}
           given == bestAwardPerMember(rank, m)
           better(a, b) == \/ rank[a][m] < rank[b][m]
                           \/ (rank[a][m] = rank[b][m] /\ orderOf(a) < orderOf(b))
           R == {p \in ranks \X ranks : better(p[1], p[2])}
<1>1. ASSUME NEW a \in Award
      PROVE  /\ DOMAIN rank[a] = {k \in some : scores[a][k] > 0}
             /\ \A k \in some : scores[a][k] > 0 => rank[a][k] = Cardinality(over(a, k))
  <2> DEFINE v == scores[a]
             qualify == {k \in DOMAIN v : v[k] > 0}
  <2>1. rank[a] = [k \in qualify |->
                     Cardinality({n \in qualify : v[n] > v[k] \/ (v[n] = v[k] /\ n < k)})]
    BY DEF awardRankings
  <2>2. DOMAIN v = some
    BY DEF Scored
  <2>3. qualify = {k \in some : scores[a][k] > 0}
    BY <2>2
  <2>4. \A k \in some : {n \in qualify : v[n] > v[k] \/ (v[n] = v[k] /\ n < k)} = over(a, k)
    BY <2>3
  <2> HIDE DEF rank, v, over, qualify
  <2> QED BY <2>1, <2>3, <2>4
<1>2. \A a \in Award, k \in some : IsFiniteSet(over(a, k)) /\ Cardinality(over(a, k)) \in Nat
  BY FS_Subset, FS_CardinalityType
<1>3. ASSUME NEW a \in Award, NEW k \in some
      PROVE  k \in leads(scores[a]) <=> scores[a][k] > 0 /\ over(a, k) = {}
  <2>1. DOMAIN scores[a] = some /\ \A n \in some : scores[a][n] \in Int
    BY DEF Scored
  <2> QED BY <2>1 DEF leads
<1>4. {a \in Award : m \in DOMAIN rank[a]} = ranks
  BY <1>1
<1>5. \A a \in ranks : rank[a][m] = Cardinality(over(a, m)) /\ rank[a][m] \in Nat
  BY <1>1, <1>2
<1> HIDE DEF rank, over
<1>6. given = IF ranks = {} THEN NoAward
              ELSE CHOOSE a \in ranks : \A b \in ranks \ {a} : better(a, b)
  <2> DEFINE pick(A) == IF A = {} THEN NoAward
                        ELSE CHOOSE a \in A : \A b \in A \ {a} : better(a, b)
  <2>1. given = pick({a \in Award : m \in DOMAIN rank[a]})
    BY DEF bestAwardPerMember
  <2> HIDE DEF ranks, pick, given
  <2>2. given = pick(ranks)
    BY <1>4, <2>1
  <2> QED BY <2>2 DEF pick
<1>7. IsFiniteSet(ranks)
  BY Awards, FS_Subset
<1>8. \A a \in ranks : orderOf(a) \in Int
  BY Awards
<1>9. Orders(R, ranks)
  <2>1. \A a, b \in ranks : <<a, b>> \in R <=> better(a, b)
    OBVIOUS
  <2>2. \A a \in ranks : ~better(a, a)
    BY <1>5, <1>8
  <2>3. \A a, b \in ranks : a # b => better(a, b) \/ better(b, a)
    BY <1>5, <1>8, Awards
  <2>4. \A a, b, c \in ranks : better(a, b) /\ better(b, c) => better(a, c)
    BY <1>5, <1>8
  <2> HIDE DEF R, ranks, better
  <2> QED BY <2>1, <2>2, <2>3, <2>4 DEF Orders
<1>10. ASSUME ranks # {} PROVE given \in ranks /\ \A b \in ranks \ {given} : better(given, b)
  <2>1. \E a \in ranks : \A b \in ranks \ {a} : <<a, b>> \in R
    <3> HIDE DEF R, ranks
    <3> QED BY <1>7, <1>9, <1>10, FirstOne
  <2>2. \E a \in ranks : \A b \in ranks \ {a} : better(a, b)
    BY <2>1
  <2> HIDE DEF better, ranks, R
  <2> QED BY <1>6, <1>10, <2>2
<1>11. ASSUME NEW a \in Award, m \in leads(scores[a]) PROVE m \in leads(scores[given])
  <2>1. a \in ranks /\ over(a, m) = {}
    BY <1>3, <1>11
  <2>2. rank[a][m] = 0
    BY <1>5, <2>1, FS_EmptySet
  <2>3. given \in ranks /\ rank[given][m] = 0
    <3>1. given \in ranks /\ (given # a => better(given, a))
      BY <1>10, <2>1
    <3>2. rank[given][m] \in Nat
      BY <1>5, <3>1
    <3> QED BY <2>2, <3>1, <3>2
  <2>4. over(given, m) = {}
    BY <1>2, <1>5, <2>3, FS_EmptySet
  <2> QED BY <1>3, <2>3, <2>4
<1>12. (\E a \in Award : scores[a][m] > 0) => given \in Award
  <2> HIDE DEF given, better
  <2> QED BY <1>10
<1> HIDE DEF given
<1> QED BY <1>11, <1>12 DEF given, rank

Tagged(S, g) == UNION {{<<p.id, x>> : x \in g[p]} : p \in S}

LEMMA TaggedIsFinite ==
  ASSUME NEW S, IsFiniteSet(S), NEW g, \A p \in S : IsFiniteSet(g[p])
  PROVE  IsFiniteSet(Tagged(S, g))
<1> DEFINE part(p) == {<<p.id, x>> : x \in g[p]}
           parts == {part(p) : p \in S}
           f == [p \in S |-> part(p)]
<1>1. ASSUME NEW p \in S PROVE IsFiniteSet(part(p))
  <2> DEFINE h == [x \in g[p] |-> <<p.id, x>>]
  <2>1. h \in Surjection(g[p], part(p))
    BY DEF Surjection
  <2> HIDE DEF h, part
  <2> QED BY <2>1, FS_Surjection
<1>2. Tagged(S, g) = UNION parts
  BY DEF Tagged
<1> HIDE DEF part
<1>3. f \in Surjection(S, parts)
  BY DEF Surjection
<1>4. \A t \in parts : IsFiniteSet(t)
  BY <1>1
<1>5. IsFiniteSet(parts)
  <2> HIDE DEF f, parts
  <2> QED BY <1>3, FS_Surjection
<1> HIDE DEF parts
<1> QED BY <1>2, <1>4, <1>5, FS_UNION

LEMMA CountsAre ==
  ASSUME Rows, NEW m \in active
  PROVE  /\ recapActivityCounts.written[m] \in Int
         /\ recapActivityCounts.given[m] \in Int
         /\ recapActivityCounts.tagged[m] \in Int
<1> DEFINE written == UNION {{<<p.id, x>> : x \in p.comments} : p \in posts}
           given == UNION {{<<p.id, x>> : x \in p.likes} : p \in posts}
           mine(things) == {x \in things : x[2].by = m /\ InPeriod(x[2].at)}
           tagging == {p \in posts : InPeriod(p.at) /\ m \in p.tags /\ p.by # m}
<1>1. /\ recapActivityCounts.written[m] = Cardinality(mine(written))
      /\ recapActivityCounts.given[m] = Cardinality(mine(given))
      /\ recapActivityCounts.tagged[m] = Cardinality(tagging)
  BY DEF recapActivityCounts
<1>2. IsFiniteSet(posts) /\ \A p \in posts : IsFiniteSet(p.comments) /\ IsFiniteSet(p.likes)
  BY DEF Rows
<1>3. IsFiniteSet(written)
  <2> DEFINE g == [p \in posts |-> p.comments]
  <2>1. written = Tagged(posts, g) /\ \A p \in posts : IsFiniteSet(g[p])
    BY <1>2 DEF Tagged
  <2> HIDE DEF g, written
  <2> QED BY <1>2, <2>1, TaggedIsFinite
<1>4. IsFiniteSet(given)
  <2> DEFINE g == [p \in posts |-> p.likes]
  <2>1. given = Tagged(posts, g) /\ \A p \in posts : IsFiniteSet(g[p])
    BY <1>2 DEF Tagged
  <2> HIDE DEF g, given
  <2> QED BY <1>2, <2>1, TaggedIsFinite
<1> HIDE DEF written, given
<1>5. IsFiniteSet(mine(written)) /\ IsFiniteSet(mine(given)) /\ IsFiniteSet(tagging)
  BY <1>2, <1>3, <1>4, FS_Subset
<1> QED BY <1>1, <1>5, FS_CardinalityType

(* TitlesAreWins (computeRecapAwards, awardRankings, bestAwardPerMember):   *)
(* when titles are bestowed, everyone who posted in the period gets one,    *)
(* and whoever leads in some award gets one they lead in.                   *)
LEMMA TitlesWon ==
  ASSUME Rows, BestowTitles, NEW m \in active
  PROVE  /\ m \in authorsOf(recapCandidates) => titles'[m] # NoAward
         /\ (\E a \in Award : m \in leads(awardScores[a])) =>
              m \in leads(awardScores[titles'[m]])
<1> DEFINE scores == awardScores
           cands == recapCandidates
           counts == recapActivityCounts
           given == bestAwardPerMember(awardRankings(scores), m)
<1>1. scores = [a \in Award |-> [k \in active |-> score(a, cands, k, counts)]]
  BY DEF awardScores
<1>2. Cards(cands) /\ IsFiniteSet(active)
  BY CandidatesAre
<1>3. \A k \in active : /\ counts.written[k] \in Int /\ counts.given[k] \in Int
                        /\ counts.tagged[k] \in Int
  BY CountsAre
<1>4. active \subseteq Member /\ \A k \in active : k \in Int
  BY ScenesAssumption DEF Rows
<1>5. titles'[m] = IF given # NoAward THEN given ELSE titles[m]
  BY <1>4 DEF BestowTitles, Titles
<1> HIDE DEF scores, cands, counts
<1>6. Scored(scores, active)
  <2>1. ASSUME NEW a \in Award, NEW k \in active PROVE score(a, cands, k, counts) \in Int
    BY <1>2, <1>3, ScoreInt
  <2> QED BY <1>1, <2>1 DEF Scored
<1>7. /\ (\E a \in Award : scores[a][m] > 0) => given \in Award
      /\ (\E a \in Award : m \in leads(scores[a])) => m \in leads(scores[given])
  BY <1>2, <1>4, <1>6, BestAward
<1> HIDE DEF given
<1>8. m \in authorsOf(cands) => \E a \in Award : scores[a][m] > 0
  <2>1. "early_bird" \in Award
    BY Awards
  <2>2. m \in authorsOf(cands) => score("early_bird", cands, m, counts) > 0
    BY <1>2, <1>3, <2>1, ScoreInt
  <2> QED BY <1>1, <2>1, <2>2
<1>9. \A a \in Award : m \in leads(scores[a]) => scores[a][m] > 0
  BY DEF leads
<1>10. NoAward \notin Award
  BY Awards
<1>11. m \in authorsOf(cands) => titles'[m] # NoAward
  BY <1>5, <1>7, <1>8, <1>10
<1>12. (\E a \in Award : m \in leads(scores[a])) => m \in leads(scores[titles'[m]])
  BY <1>5, <1>7, <1>9, <1>10
<1> QED BY <1>11, <1>12 DEF scores, cands

(* TitlesAreWins: whoever checked in has a title, and whoever leads in an   *)
(* award has the title of one they lead in (bestAwardPerMember).            *)
THEOREM EveryTitleIsWon == Spec => TitlesAreWins
<1>1. ASSUME Rows, BestowTitles
      PROVE  LET scores == awardScores
                 posters == authorsOf(recapCandidates)
             IN \A m \in active :
                  /\ m \in posters => titles'[m] # NoAward
                  /\ (\E a \in Award : m \in leads(scores[a])) => m \in leads(scores[titles'[m]])
  BY <1>1, TitlesWon
<1>2. JournalInv => Rows
  BY DEF JournalInv
<1> QED BY <1>1, <1>2, JournalInductive, PTL DEF TitlesAreWins

----------------------------------------------------------------------------
(* The deck a viewer is served.                                             *)

(* There is one way to list a set in an order.                              *)
Enumerates(a, n, R, T) ==
  /\ a \in [1..n -> T]
  /\ \A x \in T : \E i \in 1..n : a[i] = x
  /\ \A i, j \in 1..n : i < j => <<a[i], a[j]>> \in R

LEMMA SameListing ==
  ASSUME NEW T, NEW R, Orders(R, T), NEW n \in Nat, NEW a, NEW b,
         Enumerates(a, n, R, T), Enumerates(b, n, R, T)
  PROVE  a = b
<1> USE DEF Enumerates
<1> DEFINE odd == {i \in 1..n : a[i] # b[i]}
<1>1. SUFFICES ASSUME odd # {} PROVE FALSE
  <2>1. a = [i \in 1..n |-> a[i]] /\ b = [i \in 1..n |-> b[i]]
    OBVIOUS
  <2> QED BY <2>1
<1>2. IsFiniteSet(odd) /\ \A i \in odd : i \in Int
  <2>1. IsFiniteSet(1..n)
    BY FS_Interval
  <2> QED BY <2>1, FS_Subset
<1> DEFINE k == Min(odd)
<1>3. k \in odd /\ \A i \in odd : k <= i
  <2> HIDE DEF odd
  <2> QED BY <1>1, <1>2, MinIs
<1> HIDE DEF k
<1>4. k \in 1..n /\ a[k] # b[k] /\ \A i \in 1..n : i < k => a[i] = b[i]
  BY <1>3
<1> HIDE DEF odd
<1>5. PICK j \in 1..n : b[j] = a[k]
  BY <1>4
<1>6. PICK i \in 1..n : a[i] = b[k]
  BY <1>4
<1>7. \A x \in T : <<x, x>> \notin R
  BY DEF Orders
<1>8. ~(j < k) /\ ~(i < k)
  <2>1. j < k => <<a[j], a[k]>> \in R /\ a[j] = a[k]
    BY <1>4, <1>5
  <2>2. i < k => <<b[i], b[k]>> \in R /\ b[i] = b[k]
    BY <1>4, <1>6
  <2> QED BY <1>4, <1>7, <2>1, <2>2
<1>9. k < j /\ k < i
  <2>1. j # k /\ i # k
    BY <1>4, <1>5, <1>6
  <2>2. i \in Int /\ j \in Int /\ k \in Int
    BY <1>4
  <2> QED BY <1>8, <2>1, <2>2
<1>10. <<a[k], b[k]>> \in R /\ <<b[k], a[k]>> \in R
  BY <1>4, <1>5, <1>6, <1>9
<1> QED BY <1>4, <1>7, <1>10 DEF Orders

Less(I) == {p \in I \X I : p[1] < p[2]}

LEMMA LessOrders ==
  ASSUME NEW I, \A i \in I : i \in Int
  PROVE  Orders(Less(I), I) /\ ranked(I, LAMBDA i, j : i < j) = Listing(Less(I), I)
<1>1. \A i, j \in I : <<i, j>> \in Less(I) <=> i < j
  BY DEF Less
<1>2. Orders(Less(I), I)
  BY <1>1 DEF Orders
<1>3. \A x \in I : {y \in I : y < x} = Before(Less(I), I, x)
  BY <1>1 DEF Before
<1>4. \A i \in 1..Cardinality(I) :
        (CHOOSE x \in I : Cardinality({y \in I : y < x}) = i - 1)
          = CHOOSE x \in I : Cardinality(Before(Less(I), I, x)) = i - 1
  BY <1>3
<1>5. ranked(I, LAMBDA i, j : i < j) =
        [i \in 1..Cardinality(I) |-> CHOOSE x \in I : Cardinality({y \in I : y < x}) = i - 1]
  BY DEF ranked
<1>6. Listing(Less(I), I) =
        [i \in 1..Cardinality(I) |->
           CHOOSE x \in I : Cardinality(Before(Less(I), I, x)) = i - 1]
  BY DEF Listing
<1> QED BY <1>2, <1>4, <1>5, <1>6

(* The members of a listing that pass are listed as they would be alone.    *)
Passing(list, T) == {i \in DOMAIN list : list[i] \in T}
KeptAt(list, T) == Listing(Less(Passing(list, T)), Passing(list, T))

LEMMA KeptListing ==
  ASSUME NEW S, IsFiniteSet(S), NEW R, Orders(R, S), NEW T, T \subseteq S
  PROVE  LET list == Listing(R, S)
             places == KeptAt(list, T)
         IN /\ [k \in DOMAIN places |-> list[places[k]]] = Listing(R, T)
            /\ DOMAIN places = 1..Cardinality(T)
            /\ \A k \in DOMAIN places : places[k] \in Passing(list, T)
<1> DEFINE list == Listing(R, S)
           n == Cardinality(S)
           I == Passing(list, T)
           places == KeptAt(list, T)
           t == Cardinality(T)
           a == [k \in 1..t |-> list[places[k]]]
           b == Listing(R, T)
           f == [i \in I |-> list[i]]
<1>1. /\ n \in Nat /\ list \in [1..n -> S]
      /\ \A x \in S : \E i \in 1..n : list[i] = x
      /\ \A i, j \in 1..n : i < j => <<list[i], list[j]>> \in R
  BY ListingIs
<1>2. IsFiniteSet(T) /\ Orders(R, T)
  BY FS_Subset DEF Orders
<1> HIDE DEF list, n
<1>3. I \subseteq 1..n /\ \A i \in I : i \in Int /\ list[i] \in T
  BY <1>1 DEF Passing
<1>4. IsFiniteSet(I)
  <2>1. IsFiniteSet(1..n)
    BY <1>1, FS_Interval
  <2> QED BY <1>3, <2>1, FS_Subset
<1>5. \A x \in T : \E i \in I : list[i] = x
  BY <1>1 DEF Passing
<1>6. \A i, j \in I : list[i] = list[j] => i = j
  <2> SUFFICES ASSUME NEW i \in I, NEW j \in I, list[i] = list[j], i # j PROVE FALSE
    OBVIOUS
  <2>1. i \in 1..n /\ j \in 1..n /\ (i < j \/ j < i) /\ list[i] \in T
    BY <1>3
  <2> QED BY <1>1, <1>2, <2>1 DEF Orders
<1>7. f \in Injection(I, T) /\ f \in Surjection(I, T)
  <2> HIDE DEF I
  <2> QED BY <1>3, <1>5, <1>6 DEF Injection, Surjection, IsInjective
<1>8. Cardinality(I) = t
  <2> HIDE DEF f, I
  <2> QED BY <1>4, <1>7, FS_Surjection
<1>9. /\ t \in Nat /\ places \in [1..t -> I]
      /\ \A i \in I : \E k \in 1..t : places[k] = i
      /\ \A k, l \in 1..t : k < l => <<places[k], places[l]>> \in Less(I)
  <2>1. Orders(Less(I), I)
    <3> HIDE DEF I
    <3> QED BY <1>3, LessOrders
  <2>2. places = Listing(Less(I), I)
    BY DEF KeptAt
  <2> HIDE DEF places, I
  <2> QED BY <1>4, <1>8, <2>1, <2>2, ListingIs
<1> HIDE DEF I, places, t
<1>10. a \in [1..t -> T] /\ \A x \in T : \E k \in 1..t : a[k] = x
  <2>1. \A k \in 1..t : places[k] \in I /\ list[places[k]] \in T
    BY <1>3, <1>9
  <2>2. a \in [1..t -> T]
    BY <2>1
  <2>3. ASSUME NEW x \in T PROVE \E k \in 1..t : a[k] = x
    <3>1. PICK i \in I : list[i] = x
      BY <1>5
    <3>2. PICK k \in 1..t : places[k] = i
      BY <1>9
    <3> QED BY <3>1, <3>2
  <2> QED BY <2>2, <2>3
<1>11. \A k, l \in 1..t : k < l => <<a[k], a[l]>> \in R
  <2> TAKE k, l \in 1..t
  <2> HAVE k < l
  <2>1. <<places[k], places[l]>> \in Less(I) /\ places[k] \in I /\ places[l] \in I
    BY <1>9
  <2>2. places[k] < places[l] /\ places[k] \in 1..n /\ places[l] \in 1..n
    BY <1>3, <2>1 DEF Less
  <2> QED BY <1>1, <2>2
<1>12. /\ b \in [1..t -> T]
       /\ \A x \in T : \E i \in 1..t : b[i] = x
       /\ \A i, j \in 1..t : i < j => <<b[i], b[j]>> \in R
  BY <1>2, ListingIs DEF t
<1> HIDE DEF a, b
<1>13. a = b
  <2>1. t \in Nat /\ Orders(R, T)
    BY <1>2, <1>9
  <2>2. Enumerates(a, t, R, T)
    BY <1>10, <1>11 DEF Enumerates
  <2>3. Enumerates(b, t, R, T)
    BY <1>12 DEF Enumerates
  <2> QED BY <2>1, <2>2, <2>3, SameListing
<1>14. DOMAIN places = 1..t
  BY <1>9
<1> QED BY <1>9, <1>13, <1>14 DEF a, b, t, places, list, I

(* The roster: who posted, by how much.                                     *)
outposts(cands, a, b) ==
  \/ postCount(cands, a) > postCount(cands, b)
  \/ (postCount(cands, a) = postCount(cands, b) /\ a < b)
ByPosts(cands) ==
  {p \in authorsOf(cands) \X authorsOf(cands) : outposts(cands, p[1], p[2])}
Roster(cands) == Listing(ByPosts(cands), authorsOf(cands))

LEMMA RosterIs ==
  ASSUME NEW cands, Cards(cands)
  PROVE  /\ IsFiniteSet(authorsOf(cands)) /\ \A m \in authorsOf(cands) : m \in Nat
         /\ \A m : postCount(cands, m) \in Nat
         /\ Orders(ByPosts(cands), authorsOf(cands))
         /\ recapPeople(cands) =
              [i \in DOMAIN Roster(cands) |->
                 [by |-> Roster(cands)[i], posts |-> postCount(cands, Roster(cands)[i])]]
         /\ DOMAIN Roster(cands) = 1..Cardinality(authorsOf(cands))
<1> DEFINE A == authorsOf(cands)
           R == ByPosts(cands)
           f == [c \in cands |-> c.by]
<1>1. IsFiniteSet(cands) /\ \A c \in cands : c.by \in Nat
  BY DEF Cards
<1>2. \A m \in A : m \in Nat
  BY <1>1 DEF authorsOf
<1>3. f \in Surjection(cands, A)
  BY DEF Surjection, authorsOf
<1>4. IsFiniteSet(A)
  <2> HIDE DEF f, A
  <2> QED BY <1>1, <1>3, FS_Surjection
<1>5. ASSUME NEW m PROVE postCount(cands, m) \in Nat
  <2>1. IsFiniteSet(ownOf(cands, m))
    BY <1>1, FS_Subset DEF ownOf
  <2> QED BY <2>1, FS_CardinalityType DEF postCount
<1>6. \A a, b \in A : <<a, b>> \in R <=> outposts(cands, a, b)
  BY DEF ByPosts
<1> HIDE DEF A, R
<1>7. Orders(R, A)
  BY <1>2, <1>5, <1>6 DEF Orders, outposts
<1>8. \A x \in A : {y \in A : outposts(cands, y, x)} = Before(R, A, x)
  BY <1>6 DEF Before
<1>9. \A i \in 1..Cardinality(A) :
        (CHOOSE x \in A : Cardinality({y \in A : outposts(cands, y, x)}) = i - 1)
          = CHOOSE x \in A : Cardinality(Before(R, A, x)) = i - 1
  BY <1>8
<1> DEFINE people == [i \in 1..Cardinality(A) |->
                        CHOOSE x \in A : Cardinality({y \in A : outposts(cands, y, x)}) = i - 1]
<1>10. recapPeople(cands) =
         [i \in DOMAIN people |-> [by |-> people[i], posts |-> postCount(cands, people[i])]]
  BY DEF recapPeople, ranked, outposts, A
<1>11. people = Listing(R, A)
  <2>1. Listing(R, A) = [i \in 1..Cardinality(A) |->
                           CHOOSE x \in A : Cardinality(Before(R, A, x)) = i - 1]
    BY DEF Listing
  <2> QED BY <1>9, <2>1
<1>12. Listing(R, A) = Roster(cands)
  BY DEF A, R, Roster
<1>13. DOMAIN people = 1..Cardinality(A)
  OBVIOUS
<1> HIDE DEF people
<1> QED BY <1>2, <1>4, <1>5, <1>7, <1>10, <1>11, <1>12, <1>13 DEF A, R

(* Without the posts of blocked members, the others are counted as before.  *)
Seen(cands, some) == {c \in cands : c.by \notin some}

LEMMA PeopleKept ==
  ASSUME NEW cands, Cards(cands), NEW some
  PROVE  unblocked(recapPeople(cands), some) = recapPeople(Seen(cands, some))
<1> DEFINE seen == Seen(cands, some)
           A == authorsOf(cands)
           T == authorsOf(seen)
           R == ByPosts(cands)
           Q == ByPosts(seen)
           list == Roster(cands)
           people == recapPeople(cands)
           places == KeptAt(list, T)
<1>1. seen \subseteq cands /\ T \subseteq A /\ \A m \in A : m \in T <=> m \notin some
  BY DEF Seen, authorsOf
<1>2. Cards(seen)
  BY <1>1, SubCards
<1>3. \A m \in T : postCount(seen, m) = postCount(cands, m)
  <2> SUFFICES ASSUME NEW m \in T PROVE ownOf(seen, m) = ownOf(cands, m)
    BY DEF postCount
  <2> QED BY <1>1 DEF ownOf, Seen
<1>4. \A a, b \in T : <<a, b>> \in R <=> <<a, b>> \in Q
  BY <1>1, <1>3 DEF ByPosts, outposts
<1>5. Listing(R, T) = Roster(seen)
  <2>1. \A x \in T : Before(R, T, x) = Before(Q, T, x)
    BY <1>4 DEF Before
  <2>2. \A i \in 1..Cardinality(T) :
          (CHOOSE x \in T : Cardinality(Before(R, T, x)) = i - 1)
            = CHOOSE x \in T : Cardinality(Before(Q, T, x)) = i - 1
    BY <2>1
  <2> QED BY <2>2 DEF Listing, Roster
<1>6. /\ IsFiniteSet(A) /\ Orders(R, A) /\ \A m \in A : m \in Nat
      /\ people = [i \in DOMAIN list |-> [by |-> list[i], posts |-> postCount(cands, list[i])]]
      /\ DOMAIN list = 1..Cardinality(A)
  BY RosterIs
<1>7. /\ recapPeople(seen) =
           [i \in DOMAIN Roster(seen) |->
              [by |-> Roster(seen)[i], posts |-> postCount(seen, Roster(seen)[i])]]
      /\ DOMAIN Roster(seen) = 1..Cardinality(T) /\ IsFiniteSet(T) /\ Orders(Q, T)
  BY <1>2, RosterIs
<1>8. list = Listing(R, A) /\ list \in [1..Cardinality(A) -> A]
  BY <1>6, ListingIs DEF Roster
<1>9. /\ [k \in DOMAIN places |-> list[places[k]]] = Roster(seen)
      /\ DOMAIN places = 1..Cardinality(T)
      /\ \A k \in DOMAIN places : places[k] \in Passing(list, T)
  <2> HIDE DEF R, A, T
  <2>1. /\ [k \in DOMAIN KeptAt(Listing(R, A), T) |->
              Listing(R, A)[KeptAt(Listing(R, A), T)[k]]] = Listing(R, T)
        /\ DOMAIN KeptAt(Listing(R, A), T) = 1..Cardinality(T)
        /\ \A k \in DOMAIN KeptAt(Listing(R, A), T) :
             KeptAt(Listing(R, A), T)[k] \in Passing(Listing(R, A), T)
    BY <1>1, <1>6, KeptListing
  <2> HIDE DEF list
  <2> QED BY <1>5, <1>8, <2>1
<1>10. {i \in DOMAIN people : people[i].by \notin some} = Passing(list, T)
  BY <1>1, <1>6, <1>8 DEF Passing
<1>11. unblocked(people, some) = [k \in DOMAIN places |-> people[places[k]]]
  <2> DEFINE I == {i \in DOMAIN people : people[i].by \notin some}
  <2>1. unblocked(people, some) =
          LET spots == ranked(I, LAMBDA i, j : i < j) IN [k \in DOMAIN spots |-> people[spots[k]]]
    BY DEF unblocked, kept
  <2>2. \A i \in I : i \in Int
    BY <1>6
  <2>3. I = Passing(list, T)
    BY <1>10
  <2> HIDE DEF I, people, list, T
  <2>4. ranked(I, LAMBDA i, j : i < j) = places
    BY <2>2, <2>3, LessOrders DEF KeptAt
  <2> QED BY <2>1, <2>4
<1>12. \A k \in DOMAIN places :
         people[places[k]] = [by |-> Roster(seen)[k], posts |-> postCount(seen, Roster(seen)[k])]
  <2> TAKE k \in DOMAIN places
  <2>1. places[k] \in DOMAIN list /\ list[places[k]] \in T /\ Roster(seen)[k] = list[places[k]]
    BY <1>9 DEF Passing
  <2> HIDE DEF people, list, T, seen, places
  <2> QED BY <1>3, <1>6, <2>1
<1> HIDE DEF people, list, T, places, seen
<1> QED BY <1>7, <1>9, <1>11, <1>12 DEF people, seen

(* The roster's counts add up to the posts.                                 *)
LEMMA PostsAdd ==
  ASSUME NEW cands, Cards(cands)
  PROVE  LET people == recapPeople(cands)
         IN sumOf(LAMBDA i : people[i].posts, DOMAIN people) = Cardinality(cands)
<1> DEFINE people == recapPeople(cands)
           D == DOMAIN people
           A == authorsOf(cands)
           list == Roster(cands)
           g == [i \in D |-> people[i].posts]
           body(f) == [s \in SUBSET D |->
                         IF s = {} THEN 0
                         ELSE people[CHOOSE x \in s : TRUE].posts + f[s \ {CHOOSE x \in s : TRUE}]]
           body2(f) == [s \in SUBSET D |-> Summed(g, f, s)]
           sum == Sums(g, D)
           of(T) == {c \in cands : \E i \in T : list[i] = c.by}
           odd == {T \in SUBSET D : sum[T] # Cardinality(of(T))}
<1>1. /\ IsFiniteSet(A) /\ Orders(ByPosts(cands), A)
      /\ people = [i \in DOMAIN list |-> [by |-> list[i], posts |-> postCount(cands, list[i])]]
      /\ DOMAIN list = 1..Cardinality(A) /\ list = Listing(ByPosts(cands), A)
  BY RosterIs DEF Roster
<1>2. /\ Cardinality(A) \in Nat /\ \A m \in A : \E i \in DOMAIN list : list[i] = m
      /\ \A i, j \in DOMAIN list : list[i] = list[j] => i = j
  <2> HIDE DEF A, list
  <2>1. /\ Cardinality(A) \in Nat /\ list \in [1..Cardinality(A) -> A]
        /\ \A m \in A : \E i \in 1..Cardinality(A) : list[i] = m
        /\ \A i, j \in 1..Cardinality(A) : i < j => <<list[i], list[j]>> \in ByPosts(cands)
    BY <1>1, ListingIs
  <2>2. ASSUME NEW i \in DOMAIN list, NEW j \in DOMAIN list, list[i] = list[j] PROVE i = j
    <3>1. list[i] \in A /\ <<list[i], list[i]>> \notin ByPosts(cands)
      BY <1>1, <2>1 DEF Orders
    <3>2. i < j \/ j < i \/ i = j
      BY <1>1, <2>1
    <3> QED BY <1>1, <2>1, <2>2, <3>1, <3>2
  <2> QED BY <1>1, <2>1, <2>2
<1>3. D = DOMAIN list /\ \A i \in D : g[i] = Cardinality(ownOf(cands, list[i]))
  BY <1>1 DEF postCount
<1>4. IsFiniteSet(D)
  BY <1>1, <1>2, <1>3, FS_Interval
<1>5. sumOf(LAMBDA i : people[i].posts, D) = (CHOOSE f : f = body(f))[D]
  BY DEF sumOf, MapThenSumSet, MapThenFoldSet
<1> HIDE DEF people, D, list
<1>6. ASSUME NEW f PROVE body(f) = body2(f)
  <2> SUFFICES ASSUME NEW s \in SUBSET D
               PROVE  (IF s = {} THEN 0
                       ELSE people[CHOOSE x \in s : TRUE].posts + f[s \ {CHOOSE x \in s : TRUE}])
                        = Summed(g, f, s)
    OBVIOUS
  <2>1. s # {} => g[AnyOf(s)] = people[CHOOSE x \in s : TRUE].posts
    BY DEF AnyOf
  <2> HIDE DEF g
  <2> QED BY <2>1 DEF Summed, AnyOf
<1>7. sum = CHOOSE f : f = body2(f)
  BY DEF Sums
<1> HIDE DEF body, body2
<1>8. (CHOOSE f : f = body(f)) = (CHOOSE f : f = body2(f))
  BY <1>6
<1>9. sumOf(LAMBDA i : people[i].posts, D) = sum[D]
  BY <1>5, <1>7, <1>8
<1> HIDE DEF g
<1>10. /\ sum[{}] = 0
       /\ \A s \in SUBSET D : s # {} =>
            AnyOf(s) \in s /\ sum[s] = g[AnyOf(s)] + sum[s \ {AnyOf(s)}]
  BY <1>4, SumsAre
<1>11. of(D) = cands
  BY <1>2, <1>3 DEF authorsOf
<1>12. SUFFICES odd = {}
  BY <1>9, <1>11 DEF people, D
<1>13. SUFFICES ASSUME odd # {} PROVE FALSE
  OBVIOUS
<1>14. odd \subseteq SUBSET D
  OBVIOUS
<1> HIDE DEF odd, sum
<1>15. PICK T \in odd : \A U \in odd : U \subseteq T => U = T
  BY <1>4, <1>13, <1>14, SmallestIn
<1>16. T \in SUBSET D /\ sum[T] # Cardinality(of(T))
  BY <1>15 DEF odd
<1>17. CASE T = {}
  <2>1. of({}) = {}
    OBVIOUS
  <2> HIDE DEF of
  <2> QED BY <1>10, <1>16, <1>17, <2>1, FS_EmptySet
<1>18. CASE T # {}
  <2> DEFINE x == AnyOf(T)
             U == T \ {x}
             own == ownOf(cands, list[x])
  <2>1. x \in T /\ sum[T] = g[x] + sum[U]
    BY <1>10, <1>16, <1>18
  <2> HIDE DEF x
  <2>2. U \in SUBSET D /\ U \subseteq T /\ U # T
    BY <1>16, <2>1
  <2>3. sum[U] = Cardinality(of(U))
    BY <1>15, <2>2 DEF odd
  <2>4. of(T) = own \cup of(U)
    BY <2>1 DEF ownOf
  <2>5. own \cap of(U) = {}
    BY <1>2, <1>3, <1>16, <2>1 DEF ownOf
  <2>6. IsFiniteSet(own) /\ IsFiniteSet(of(U))
    BY FS_Subset DEF ownOf, Cards
  <2>7. g[x] = Cardinality(own)
    BY <1>3, <1>16, <2>1
  <2> HIDE DEF own, of
  <2>8. Cardinality(of(T)) = Cardinality(own) + Cardinality(of(U)) - Cardinality({})
    BY <2>4, <2>5, <2>6, FS_Union
  <2>9. Cardinality({}) = 0 /\ Cardinality(own) \in Nat /\ Cardinality(of(U)) \in Nat
    BY <2>6, FS_EmptySet, FS_CardinalityType
  <2> QED BY <1>16, <2>1, <2>3, <2>7, <2>8, <2>9
<1> QED BY <1>17, <1>18

(* The authors a list shows, and what is left of a list of lists.           *)
Authors(list) == {list[i].by : i \in DOMAIN list}

LEMMA UnblockedShows ==
  ASSUME NEW n \in Nat, NEW list, DOMAIN list = 1..n, NEW some
  PROVE  Authors(unblocked(list, some)) = Authors(list) \ some
<1> DEFINE I == {i \in DOMAIN list : list[i].by \notin some}
           places == Listing(Less(I), I)
<1>1. IsFiniteSet(I) /\ \A i \in I : i \in Int
  <2>1. IsFiniteSet(1..n)
    BY FS_Interval
  <2> QED BY <2>1, FS_Subset
<1>2. unblocked(list, some) =
        LET spots == ranked(I, LAMBDA i, j : i < j) IN [k \in DOMAIN spots |-> list[spots[k]]]
  BY DEF unblocked, kept
<1> HIDE DEF I
<1>3. Orders(Less(I), I) /\ ranked(I, LAMBDA i, j : i < j) = places
  BY <1>1, LessOrders
<1>4. (\A k \in DOMAIN places : places[k] \in I) /\ \A i \in I : \E k \in DOMAIN places : places[k] = i
  <2>1. /\ places \in [1..Cardinality(I) -> I]
        /\ \A i \in I : \E k \in 1..Cardinality(I) : places[k] = i
    BY <1>1, <1>3, ListingIs
  <2> HIDE DEF places
  <2> QED BY <2>1
<1> HIDE DEF places
<1>5. unblocked(list, some) = [k \in DOMAIN places |-> list[places[k]]]
  BY <1>2, <1>3
<1> QED BY <1>4, <1>5 DEF I, Authors

LEMMA PanelsKept ==
  ASSUME NEW n \in Nat, NEW list, DOMAIN list = 1..n
  PROVE  membersOf(kept(list, LAMBDA p : p # <<>>)) = membersOf(list) \ {<<>>}
<1> DEFINE I == {i \in DOMAIN list : list[i] # <<>>}
           places == Listing(Less(I), I)
<1>1. IsFiniteSet(I) /\ \A i \in I : i \in Int
  <2>1. IsFiniteSet(1..n)
    BY FS_Interval
  <2> QED BY <2>1, FS_Subset
<1>2. kept(list, LAMBDA p : p # <<>>) =
        LET spots == ranked(I, LAMBDA i, j : i < j) IN [k \in DOMAIN spots |-> list[spots[k]]]
  BY DEF kept
<1> HIDE DEF I
<1>3. Orders(Less(I), I) /\ ranked(I, LAMBDA i, j : i < j) = places
  BY <1>1, LessOrders
<1>4. (\A k \in DOMAIN places : places[k] \in I) /\ \A i \in I : \E k \in DOMAIN places : places[k] = i
  <2>1. /\ places \in [1..Cardinality(I) -> I]
        /\ \A i \in I : \E k \in 1..Cardinality(I) : places[k] = i
    BY <1>1, <1>3, ListingIs
  <2> HIDE DEF places
  <2> QED BY <2>1
<1> HIDE DEF places
<1>5. kept(list, LAMBDA p : p # <<>>) = [k \in DOMAIN places |-> list[places[k]]]
  BY <1>2, <1>3
<1>6. membersOf([k \in DOMAIN places |-> list[places[k]]]) = membersOf(list) \ {<<>>}
  BY <1>4 DEF I, membersOf
<1> QED BY <1>5, <1>6

Shown(panels) == UNION {Authors(p) : p \in membersOf(panels)}

LEMMA DeckShows ==
  ASSUME NEW cards, NEW n \in Nat, DOMAIN cards = 1..n, NEW some
  PROVE  LET panels == IF cards = <<>> THEN <<>> ELSE <<cards>>
             left == [i \in DOMAIN panels |-> unblocked(panels[i], some)]
         IN Shown(kept(left, LAMBDA p : p # <<>>)) = Shown(panels) \ some
<1> DEFINE panels == IF cards = <<>> THEN <<>> ELSE <<cards>>
           left == [i \in DOMAIN panels |-> unblocked(panels[i], some)]
           final == kept(left, LAMBDA p : p # <<>>)
           u == unblocked(cards, some)
<1>1. Authors(u) = Authors(cards) \ some
  BY UnblockedShows
<1>2. DOMAIN left = DOMAIN panels /\ \E k \in Nat : DOMAIN panels = 1..k
  <2>1. CASE cards = <<>>
    <3>1. DOMAIN panels = 1..0
      BY <2>1
    <3> QED BY <3>1
  <2>2. CASE cards # <<>>
    <3>1. DOMAIN panels = 1..1
      BY <2>2
    <3> QED BY <3>1
  <2> QED BY <2>1, <2>2
<1>3. membersOf(final) = membersOf(left) \ {<<>>}
  <2> HIDE DEF left, panels
  <2> QED BY <1>2, PanelsKept
<1>4. Authors(<<>>) = {}
  BY DEF Authors
<1> HIDE DEF u, final
<1>5. CASE cards = <<>>
  <2>1. membersOf(left) = {} /\ membersOf(panels) = {}
    BY <1>5 DEF membersOf
  <2> HIDE DEF left, panels
  <2> QED BY <1>3, <2>1 DEF Shown, final, left, panels
<1>6. CASE cards # <<>>
  <2>1. DOMAIN panels = {1} /\ panels[1] = cards /\ left[1] = u
    BY <1>6 DEF u
  <2>2. membersOf(panels) = {cards} /\ membersOf(left) = {u}
    BY <1>2, <2>1 DEF membersOf
  <2> HIDE DEF left, panels
  <2>3. Shown(panels) = Authors(cards)
    BY <2>2 DEF Shown
  <2>4. Shown(final) = Authors(u)
    <3>1. CASE u = <<>>
      BY <1>3, <1>4, <2>2, <3>1 DEF Shown
    <3>2. CASE u # <<>>
      BY <1>3, <2>2, <3>2 DEF Shown
    <3> QED BY <3>1, <3>2
  <2> QED BY <1>1, <2>3, <2>4 DEF final, left, panels
<1> QED BY <1>5, <1>6

LEMMA FilteredIs ==
  ASSUME NEW cands, Cards(cands), NEW count \in Nat, NEW some
  PROVE  LET whole == BuildRecap(cands, count)
             deck == FilterRecapForViewer(whole, some)
             seen == Seen(cands, some)
         IN /\ deck.people = recapPeople(seen)
            /\ deck.stats.posts = Cardinality(seen)
            /\ deck.stats.posters = Cardinality(authorsOf(seen))
            /\ Shown(deck.panels) = Shown(whole.panels) \ some
<1> DEFINE whole == BuildRecap(cands, count)
           deck == FilterRecapForViewer(whole, some)
           seen == Seen(cands, some)
           stats == recapStats(cands, count)
           people == recapPeople(cands)
           cards == selectCollageCards(cands, count)
           panels == IF cards = <<>> THEN <<>> ELSE <<cards>>
           theirs == unblocked(people, some)
           total == sumOf(LAMBDA i : theirs[i].posts, DOMAIN theirs)
           left == kept([i \in DOMAIN panels |-> unblocked(panels[i], some)], LAMBDA p : p # <<>>)
<1>1. whole = [stats |-> stats, people |-> people, panels |-> panels]
  BY DEF BuildRecap
<1>2. /\ stats.posts = Cardinality(cands) /\ stats.posters = Cardinality(authorsOf(cands))
      /\ "posts" \in DOMAIN stats /\ "posters" \in DOMAIN stats
  BY DEF recapStats
<1>3. Cards(seen)
  BY SubCards DEF Seen
<1>4. theirs = recapPeople(seen)
  BY PeopleKept
<1>5. total = Cardinality(seen)
  <2>1. total = LET p == recapPeople(seen) IN sumOf(LAMBDA i : p[i].posts, DOMAIN p)
    BY <1>4
  <2> QED BY <1>3, <2>1, PostsAdd
<1>6. Len(theirs) = Cardinality(authorsOf(seen))
  <2>1. /\ DOMAIN recapPeople(seen) = 1..Cardinality(authorsOf(seen))
        /\ IsFiniteSet(authorsOf(seen))
    BY <1>3, RosterIs
  <2>2. Cardinality(authorsOf(seen)) \in Nat
    BY <2>1, FS_CardinalityType
  <2> HIDE DEF theirs
  <2> QED BY <1>4, <2>1, <2>2
<1>7. Shown(left) = Shown(panels) \ some
  <2>1. \E n \in Nat : DOMAIN cards = 1..n
    <3>1. DOMAIN cards = 1..Min({Len(ranked(guaranteedPosts(cands) \cup
             fillPosts(cands, collageCardCap(count) - Cardinality(guaranteedPosts(cands))),
             candidateOutranks)), collageCardCap(count)})
      BY DEF selectCollageCards
    <3> QED BY <3>1, WallTakes
  <2> HIDE DEF cards
  <2> QED BY <2>1, DeckShows
<1>8. deck = IF some = {} THEN whole
             ELSE [stats |-> [stats EXCEPT !.posts = total, !.posters = Len(theirs)],
                   people |-> theirs, panels |-> left]
  <2> HIDE DEF stats, people, panels
  <2>1. whole.stats = stats /\ whole.people = people /\ whole.panels = panels
    BY <1>1
  <2> HIDE DEF whole
  <2> QED BY <2>1 DEF FilterRecapForViewer
<1> HIDE DEF whole, deck, stats, people, panels, theirs, total, left
<1>9. CASE some = {}
  <2>1. seen = cands
    BY <1>9 DEF Seen
  <2>2. deck = whole
    BY <1>8, <1>9
  <2>3. whole.stats = stats /\ whole.people = people /\ whole.panels = panels
    BY <1>1
  <2> QED BY <1>2, <1>9, <2>1, <2>2, <2>3 DEF whole, deck, people
<1>10. CASE some # {}
  <2>1. deck.people = theirs /\ deck.panels = left
        /\ deck.stats = [stats EXCEPT !.posts = total, !.posters = Len(theirs)]
    BY <1>8, <1>10
  <2>2. deck.stats.posts = total /\ deck.stats.posters = Len(theirs)
    BY <1>2, <2>1
  <2>3. whole.panels = panels
    BY <1>1
  <2> QED BY <1>4, <1>5, <1>6, <1>7, <2>1, <2>2, <2>3 DEF whole, deck
<1> QED BY <1>9, <1>10

(* FilteredDeckAgrees (FilterRecapForViewer): the deck served to a viewer   *)
(* is, in its roster and the two figures beside it, that of a group without *)
(* the members they block, and its wall loses those members and no one else.*)
LEMMA FilteredDeck == Rows => FilteredDeckAgrees
<1> SUFFICES ASSUME Rows PROVE FilteredDeckAgrees
  OBVIOUS
<1>1. Cards(recapCandidates) /\ Cardinality(active) \in Nat
  BY CandidatesAre
<1>2. LET deck == FilterRecapForViewer(Deck, blocked)
          seen == Seen(recapCandidates, blocked)
      IN /\ deck.people = recapPeople(seen)
         /\ deck.stats.posts = Cardinality(seen)
         /\ deck.stats.posters = Cardinality(authorsOf(seen))
         /\ Shown(deck.panels) = Shown(Deck.panels) \ blocked
  BY <1>1, FilteredIs DEF Deck
<1> QED BY <1>2 DEF FilteredDeckAgrees, Seen, Shown, Authors

(* FilteredDeckAgrees: a viewer's deck has the people, posts and posters of *)
(* the group without the members they block, and shows everyone else it     *)
(* showed (FilterRecapForViewer).                                           *)
THEOREM EveryDeckAgrees == Spec => []FilteredDeckAgrees
<1>1. JournalInv => FilteredDeckAgrees
  BY FilteredDeck DEF JournalInv
<1> QED BY <1>1, JournalInductive, PTL

----------------------------------------------------------------------------
(* Pages.  A page is the first of a listing.                                *)
LEMMA FirstLen ==
  ASSUME NEW S, NEW list \in Seq(S), NEW k \in Nat
  PROVE  /\ first(list, k) \in Seq(S)
         /\ Len(first(list, k)) = IF Len(list) <= k THEN Len(list) ELSE k
         /\ \A i \in 1..Len(first(list, k)) : first(list, k)[i] = list[i]
<1> DEFINE n == Min({Len(list), k})
<1>1. n = IF Len(list) <= k THEN Len(list) ELSE k
  <2>1. n = Min({Len(list), k}) /\ Len(list) \in Int /\ k \in Int
    OBVIOUS
  <2> HIDE DEF n
  <2> QED BY <2>1, OfTwo
<1>2. first(list, k) = SubSeq(list, 1, n)
  BY DEF first
<1> HIDE DEF n
<1>3. n \in Nat /\ n <= Len(list)
  BY <1>1
<1> QED BY <1>1, <1>2, <1>3

LEMMA PageOf ==
  ASSUME NEW S, IsFiniteSet(S), NEW R, Orders(R, S), NEW k \in Nat
  PROVE  LET page == first(Listing(R, S), k)
             on == membersOf(page)
         IN /\ Listing(R, S) \in Seq(S) /\ Len(Listing(R, S)) = Cardinality(S)
            /\ Cardinality(S) \in Nat /\ membersOf(Listing(R, S)) = S
            /\ on \subseteq S /\ Cardinality(on) = Min({Cardinality(S), k})
            /\ \A x \in on, y \in S \ on : <<x, y>> \in R
<1> DEFINE list == Listing(R, S)
           size == Cardinality(S)
           page == first(list, k)
           n == Min({Len(list), k})
           on == {list[i] : i \in 1..n}
<1>1. /\ size \in Nat /\ list \in [1..size -> S]
      /\ \A x \in S : \E i \in 1..size : list[i] = x
      /\ \A i, j \in 1..size : i < j => <<list[i], list[j]>> \in R
  BY ListingIs
<1>2. Len(list) = size /\ n \in Nat /\ on \subseteq S /\ Cardinality(on) = n
  <2>1. /\ Len(list) = Cardinality(S) /\ n \in Nat /\ 1..n \subseteq DOMAIN list
        /\ on \subseteq S /\ Cardinality(on) = n /\ IsFiniteSet(on)
        /\ n <= k /\ (n # k => on = S) /\ (Cardinality(S) <= k => on = S)
        /\ Cardinality(S) >= k => n = k
    <3> HIDE DEF list
    <3> QED BY FirstOf DEF list
  <2> QED BY <2>1
<1> HIDE DEF list, size
<1>3. list \in Seq(S) /\ membersOf(list) = S
  BY <1>1 DEF membersOf
<1>4. n = IF size <= k THEN size ELSE k
  <2>1. n = Min({size, k}) /\ size \in Int /\ k \in Int
    BY <1>1, <1>2
  <2> HIDE DEF n
  <2> QED BY <2>1, OfTwo
<1>5. page \in Seq(S) /\ Len(page) = n /\ \A i \in 1..n : page[i] = list[i]
  <2> HIDE DEF n
  <2> QED BY <1>2, <1>3, <1>4, FirstLen
<1> HIDE DEF n, page
<1>6. membersOf(page) = on
  BY <1>2, <1>5 DEF membersOf
<1>7. ASSUME NEW x \in on, NEW y \in S \ on PROVE <<x, y>> \in R
  <2>1. PICK i \in 1..n : x = list[i]
    OBVIOUS
  <2>2. PICK j \in 1..size : y = list[j]
    BY <1>1
  <2>3. j \notin 1..n
    BY <2>2
  <2>4. i < j /\ i \in 1..size
    <3> HIDE DEF n
    <3> QED BY <1>1, <1>2, <1>4, <2>1, <2>2, <2>3
  <2> QED BY <1>1, <2>1, <2>2, <2>4
<1> QED BY <1>1, <1>2, <1>3, <1>6, <1>7 DEF list, size, page, n

LEMMA PageShows ==
  ASSUME NEW S, IsFiniteSet(S), NEW R, Orders(R, S), NEW k \in Nat
  PROVE  /\ Shows([posts |-> first(Listing(R, S), k), hasMore |-> Len(Listing(R, S)) > k],
                  k, Cardinality(S))
         /\ LET fetched == first(Listing(R, S), k + 1)
            IN Shows([posts |-> first(fetched, k), hasMore |-> Len(fetched) > k], k, Cardinality(S))
<1> DEFINE list == Listing(R, S)
           size == Cardinality(S)
           fetched == first(list, k + 1)
<1>1. list \in Seq(S) /\ Len(list) = size /\ size \in Nat
  BY PageOf
<1> HIDE DEF list, size
<1>2. Min({size, k}) = IF size <= k THEN size ELSE k
  <2>1. size \in Int /\ k \in Int
    BY <1>1
  <2> QED BY <2>1, OfTwo
<1>3. Len(first(list, k)) = IF size <= k THEN size ELSE k
  BY <1>1, FirstLen
<1>4. k + 1 \in Nat
  OBVIOUS
<1>5. fetched \in Seq(S) /\ Len(fetched) = IF size <= k + 1 THEN size ELSE k + 1
  BY <1>1, <1>4, FirstLen
<1> HIDE DEF fetched
<1>6. Len(first(fetched, k)) = IF Len(fetched) <= k THEN Len(fetched) ELSE k
  BY <1>5, FirstLen
<1>7. Shows([posts |-> first(list, k), hasMore |-> Len(list) > k], k, size)
  BY <1>1, <1>2, <1>3 DEF Shows
<1>8. Shows([posts |-> first(fetched, k), hasMore |-> Len(fetched) > k], k, size)
  <2>1. Len(first(fetched, k)) = Min({size, k})
    BY <1>1, <1>2, <1>5, <1>6
  <2>2. Len(fetched) > k <=> size > k
    BY <1>1, <1>5
  <2> QED BY <2>1, <2>2 DEF Shows
<1> QED BY <1>7, <1>8 DEF list, size, fetched

(* The newest come first, in a month as in a place.                         *)
Newest(rows) == {p \in rows \X rows : earlier(p[2], p[1])}

LEMMA NewestOrders ==
  ASSUME NEW rows, Keyed(rows)
  PROVE  /\ Orders(Newest(rows), rows)
         /\ newestFirst(rows) = Listing(Newest(rows), rows)
         /\ ranked(rows, LAMBDA a, b : earlier(b, a)) = Listing(Newest(rows), rows)
<1>1. \A r \in rows : r.at \in Nat /\ r.id \in Nat
  BY DaysOf
<1>2. \A p, q \in rows : <<p, q>> \in Newest(rows) <=> earlier(q, p)
  BY DEF Newest
<1>3. Orders(Newest(rows), rows)
  BY <1>1, <1>2 DEF Orders, Keyed, earlier
<1>4. \A x \in rows : /\ {y \in rows : earlier(x, y)} = Before(Newest(rows), rows, x)
                      /\ {y \in rows : y.at > x.at \/ (y.at = x.at /\ y.id > x.id)}
                           = Before(Newest(rows), rows, x)
  BY <1>1, <1>2 DEF Before, earlier
<1>5. /\ ranked(rows, LAMBDA a, b : earlier(b, a)) =
           [i \in 1..Cardinality(rows) |->
              CHOOSE x \in rows : Cardinality({y \in rows : earlier(x, y)}) = i - 1]
      /\ newestFirst(rows) =
           [i \in 1..Cardinality(rows) |-> CHOOSE x \in rows :
              Cardinality({y \in rows : y.at > x.at \/ (y.at = x.at /\ y.id > x.id)}) = i - 1]
  BY DEF ranked, newestFirst
<1>6. \A i \in 1..Cardinality(rows) :
        /\ (CHOOSE x \in rows : Cardinality({y \in rows : earlier(x, y)}) = i - 1)
             = CHOOSE x \in rows : Cardinality(Before(Newest(rows), rows, x)) = i - 1
        /\ (CHOOSE x \in rows :
              Cardinality({y \in rows : y.at > x.at \/ (y.at = x.at /\ y.id > x.id)}) = i - 1)
             = CHOOSE x \in rows : Cardinality(Before(Newest(rows), rows, x)) = i - 1
  BY <1>4
<1> QED BY <1>3, <1>5, <1>6 DEF Listing

----------------------------------------------------------------------------
(* Months.  A month's page asks for its two ends on the stored clock, which *)
(* is where the shifted division puts them.                                 *)
LEMMA MonthHolds ==
  ASSUME NEW t \in Int, NEW k \in Int, NEW n \in Nat \ {0}
  PROVE  /\ t \div n \in Int
         /\ t \div n = k <=> k * n <= t /\ t < k * n + n
<1> DEFINE q == t \div n
<1>1. q \in Int /\ t = n * q + (t % n) /\ t % n \in 0..(n - 1)
  BY Z3
<1> HIDE DEF q
<1>2. q = k => k * n <= t /\ t < k * n + n
  BY <1>1, Z3
<1>3. ASSUME k * n <= t, t < k * n + n PROVE q = k
  <2>1. CASE q >= k + 1
    <3>1. n * q >= n * (k + 1)
      BY <1>1, <2>1, Z3
    <3> QED BY <1>1, <1>3, <3>1, Z3
  <2>2. CASE q <= k - 1
    <3>1. n * q <= n * (k - 1)
      BY <1>1, <2>2, Z3
    <3> QED BY <1>1, <1>3, <3>1, Z3
  <2> QED BY <1>1, <2>1, <2>2
<1> QED BY <1>1, <1>2, <1>3 DEF q

Month(rows, k, offset) == {r \in rows : localMonth(r.at, offset) = k}
Months(rows, offset) ==
  {buildTimelineMonth(k, Month(rows, k, offset)) : k \in {localMonth(r.at, offset) : r \in rows}}

LEMMA MonthIs ==
  ASSUME NEW rows, Keyed(rows), NEW offset \in Int, NEW k \in Int
  PROVE  LET start == k * MonthLen - offset
         IN Month(rows, k, offset) = {r \in rows : r.at >= start /\ r.at < start + MonthLen}
<1>1. ASSUME NEW r \in rows
      PROVE  localMonth(r.at, offset) = k <=>
               r.at >= k * MonthLen - offset /\ r.at < k * MonthLen - offset + MonthLen
  <2>1. r.at \in Int /\ r.at + offset \in Int /\ MonthLen \in Nat \ {0} /\ k * MonthLen \in Int
    BY DaysOf, TimelineAssumption
  <2>2. localMonth(r.at, offset) = k <=>
          k * MonthLen <= r.at + offset /\ r.at + offset < k * MonthLen + MonthLen
    BY <2>1, MonthHolds DEF localMonth
  <2> QED BY <2>1, <2>2
<1> QED BY <1>1 DEF Month

ByMonth(S) == {p \in S \X S : p[1].month > p[2].month}

LEMMA TimelineTells ==
  ASSUME NEW rows, Keyed(rows), NEW offset \in Int, NEW m \in membersOf(bucketTimeline(rows, offset))
  PROVE  m.month \in Int /\ m.postCount = Cardinality(Month(rows, m.month, offset))
<1> DEFINE ks == {localMonth(r.at, offset) : r \in rows}
           S == Months(rows, offset)
           f == [k \in ks |-> buildTimelineMonth(k, Month(rows, k, offset))]
           g == [r \in rows |-> localMonth(r.at, offset)]
<1>1. \A k \in ks : k \in Int
  <2>1. \A r \in rows : r.at + offset \in Int
    BY DaysOf
  <2> QED BY <2>1, MonthHolds, TimelineAssumption DEF localMonth
<1>2. \A k \in ks : f[k].month = k /\ f[k].postCount = Cardinality(Month(rows, k, offset))
  BY DEF buildTimelineMonth
<1>3. IsFiniteSet(S)
  <2>1. g \in Surjection(rows, ks) /\ f \in Surjection(ks, S)
    BY DEF Surjection, Months
  <2> HIDE DEF f, g, ks, S
  <2> QED BY <2>1, FS_Surjection DEF Keyed
<1>4. S = {f[k] : k \in ks}
  BY DEF Months
<1> HIDE DEF ks, f, S
<1>5. \A x \in S : x.month \in Int /\ x = f[x.month] /\ x.month \in ks
  BY <1>1, <1>2, <1>4
<1>6. \A x, y \in S : <<x, y>> \in ByMonth(S) <=> x.month > y.month
  BY DEF ByMonth
<1>7. Orders(ByMonth(S), S)
  BY <1>5, <1>6 DEF Orders
<1>8. bucketTimeline(rows, offset) = Listing(ByMonth(S), S)
  <2>1. bucketTimeline(rows, offset) =
          [i \in 1..Cardinality(S) |->
             CHOOSE x \in S : Cardinality({y \in S : y.month > x.month}) = i - 1]
    BY DEF bucketTimeline, ranked, S, Months, Month
  <2>2. \A x \in S : {y \in S : y.month > x.month} = Before(ByMonth(S), S, x)
    BY <1>6 DEF Before
  <2>3. \A i \in 1..Cardinality(S) :
          (CHOOSE x \in S : Cardinality({y \in S : y.month > x.month}) = i - 1)
            = CHOOSE x \in S : Cardinality(Before(ByMonth(S), S, x)) = i - 1
    BY <2>2
  <2> QED BY <2>1, <2>3 DEF Listing
<1>9. membersOf(bucketTimeline(rows, offset)) = S
  BY <1>3, <1>7, <1>8, PageOf
<1> QED BY <1>2, <1>5, <1>9

LEMMA MonthsAgree ==
  ASSUME NEW rows, Keyed(rows), NEW offset \in Int, NEW m \in membersOf(bucketTimeline(rows, offset))
  PROVE  Shows(TimelineMonthPosts(rows, m.month, offset), MonthPageCap, m.postCount)
<1> DEFINE k == m.month
           start == k * MonthLen - offset
           S == {r \in rows : r.at >= start /\ r.at < start + MonthLen}
<1>1. k \in Int /\ m.postCount = Cardinality(Month(rows, k, offset))
  BY TimelineTells
<1> HIDE DEF k
<1>2. S = Month(rows, k, offset)
  BY <1>1, MonthIs
<1>3. Keyed(S) /\ IsFiniteSet(S)
  <2>1. S \subseteq rows
    OBVIOUS
  <2> HIDE DEF S
  <2> QED BY <2>1, SubKeyed DEF Keyed
<1>4. /\ Orders(Newest(S), S) /\ newestFirst(S) = Listing(Newest(S), S)
  <2> HIDE DEF S
  <2> QED BY <1>3, NewestOrders
<1> DEFINE fetched == first(newestFirst(S), MonthPageCap + 1)
<1>5. TimelineMonthPosts(rows, k, offset) =
        [posts |-> first(fetched, MonthPageCap), hasMore |-> Len(fetched) > MonthPageCap]
  BY DEF TimelineMonthPosts
<1> HIDE DEF S
<1>6. LET list == first(Listing(Newest(S), S), MonthPageCap + 1)
      IN Shows([posts |-> first(list, MonthPageCap), hasMore |-> Len(list) > MonthPageCap],
               MonthPageCap, Cardinality(S))
  BY <1>3, <1>4, PageShows, TimelineAssumption
<1> QED BY <1>1, <1>2, <1>4, <1>5, <1>6 DEF k

----------------------------------------------------------------------------
(* Places.  A place is shown under a label of its own, so the page of that  *)
(* label is its page.                                                       *)
LEMMA PlaceTells ==
  ASSUME NEW rows, Keyed(rows), rows # {}
  PROVE  LET stats == buildPlaceStats(rows)
         IN /\ stats.postCount = Cardinality(rows) /\ stats.postCount \in Nat
            /\ stats.lastSeen \in Int
            /\ \E r \in rows : stats.location = r.loc
<1> DEFINE stats == buildPlaceStats(rows)
           ats == {r.at : r \in rows}
           f == [r \in rows |-> r.at]
<1>1. /\ stats.postCount = Cardinality(rows) /\ stats.lastSeen = Max(ats)
      /\ stats.location = displayLocation(rows)
  BY DEF buildPlaceStats
<1>2. Cardinality(rows) \in Nat
  BY FS_CardinalityType DEF Keyed
<1>3. Max(ats) \in Int
  <2>1. f \in Surjection(rows, ats) /\ ats # {}
    BY DEF Surjection
  <2>2. IsFiniteSet(ats)
    <3> HIDE DEF f, ats
    <3> QED BY <2>1, FS_Surjection DEF Keyed
  <2>3. \A x \in ats : x \in Int
    BY DaysOf
  <2> HIDE DEF ats
  <2> QED BY <2>1, <2>2, <2>3, MaxIs
<1>4. buildEvent("trip", rows).place = displayLocation(rows)
  BY DEF buildEvent
<1>5. \E r \in rows : buildEvent("trip", rows).place = r.loc
  BY EventTells
<1> HIDE DEF stats
<1> QED BY <1>1, <1>2, <1>3, <1>4, <1>5 DEF stats

ByFame(S) == {p \in S \X S : placeOutranks(p[1].stats, p[2].stats)}

LEMMA PlacesListed ==
  ASSUME NEW rows, Placed(rows), NEW now0, NEW found
  PROVE  /\ membersOf(PlacesPage(rows, now0, found)) = buildPlaces(rows, now0, found)
         /\ \A x \in buildPlaces(rows, now0, found) :
              Shows(PostsForPlace(rows, x.stats.location), PlacePageCap, x.stats.postCount)
<1> DEFINE S == buildPlaces(rows, now0, found)
           ps == placesOf(rows)
           f == [p \in ps |-> CHOOSE x \in S : x.place = p]
           g == [r \in rows |-> normalizeLocation(r.loc)]
<1>1. ASSUME NEW p \in ps PROVE Keyed(at(rows, p)) /\ at(rows, p) # {}
  BY SubKeyed DEF placesOf, at, Placed
<1>2. \A x \in S : x.place \in ps /\ x.stats = buildPlaceStats(at(rows, x.place))
  BY DEF buildPlaces
<1>3. \A x, y \in S : x.place = y.place => x = y
  BY DEF buildPlaces
<1>4. \A p \in ps : \E x \in S : x.place = p
  <2> DEFINE pos == passThree(rows, found)
             told(p) == [stats |-> buildPlaceStats(at(rows, p)), place |-> p,
                         pos |-> IF p \in DOMAIN pos THEN pos[p] ELSE NoPos,
                         coordsGuessed |-> p \in guessed(rows, found),
                         homeArea |-> p \in computeHomeArea(rows, now0)]
  <2>1. S = {told(p) : p \in ps}
    BY DEF buildPlaces
  <2>2. \A p \in ps : told(p).place = p
    OBVIOUS
  <2> HIDE DEF told, ps, S
  <2> QED BY <2>1, <2>2
<1> HIDE DEF S, ps
<1>5. ASSUME NEW x \in S
      PROVE  /\ x.stats.postCount = Cardinality(at(rows, x.place)) /\ x.stats.postCount \in Nat
             /\ x.stats.lastSeen \in Int /\ x.stats.location \in Nat
             /\ normalizeLocation(x.stats.location) = x.place
  <2>1. Keyed(at(rows, x.place)) /\ at(rows, x.place) # {}
    BY <1>1, <1>2
  <2>2. /\ x.stats.postCount = Cardinality(at(rows, x.place)) /\ x.stats.postCount \in Nat
        /\ x.stats.lastSeen \in Int
        /\ \E r \in at(rows, x.place) : x.stats.location = r.loc
    BY <1>2, <2>1, PlaceTells
  <2>3. \A r \in at(rows, x.place) : r.loc \in Nat /\ normalizeLocation(r.loc) = x.place
    BY DEF at, Placed, Keyed, Row, Label
  <2> QED BY <2>2, <2>3
<1>6. \A x, y \in S : <<x, y>> \in ByFame(S) <=> placeOutranks(x.stats, y.stats)
  BY DEF ByFame
<1>7. Orders(ByFame(S), S)
  <2>1. \A x \in S : ~placeOutranks(x.stats, x.stats)
    BY <1>5 DEF placeOutranks
  <2>2. \A x, y \in S : x # y => placeOutranks(x.stats, y.stats) \/ placeOutranks(y.stats, x.stats)
    <3> SUFFICES ASSUME NEW x \in S, NEW y \in S, x # y
                 PROVE  placeOutranks(x.stats, y.stats) \/ placeOutranks(y.stats, x.stats)
      OBVIOUS
    <3>1. x.stats.location # y.stats.location
      BY <1>3, <1>5
    <3> QED BY <1>5, <3>1 DEF placeOutranks
  <2>3. \A x, y, z \in S : placeOutranks(x.stats, y.stats) /\ placeOutranks(y.stats, z.stats)
                             => placeOutranks(x.stats, z.stats)
    BY <1>5, SMTT(30) DEF placeOutranks
  <2> QED BY <1>6, <2>1, <2>2, <2>3 DEF Orders
<1>8. IsFiniteSet(S)
  <2>1. IsFiniteSet(ps)
    <3>1. g \in Surjection(rows, ps)
      BY DEF Surjection, ps, placesOf
    <3> HIDE DEF g
    <3> QED BY <3>1, FS_Surjection DEF Placed, Keyed
  <2>2. \A p \in ps : f[p] \in S /\ f[p].place = p
    BY <1>4
  <2>3. f \in Surjection(ps, S)
    BY <1>2, <1>3, <2>2 DEF Surjection
  <2> HIDE DEF f
  <2> QED BY <2>1, <2>3, FS_Surjection
<1>9. PlacesPage(rows, now0, found) = Listing(ByFame(S), S)
  <2>1. PlacesPage(rows, now0, found) =
          [i \in 1..Cardinality(S) |->
             CHOOSE x \in S : Cardinality({y \in S : placeOutranks(y.stats, x.stats)}) = i - 1]
    BY DEF PlacesPage, ranked, S
  <2>2. \A x \in S : {y \in S : placeOutranks(y.stats, x.stats)} = Before(ByFame(S), S, x)
    BY <1>6 DEF Before
  <2>3. \A i \in 1..Cardinality(S) :
          (CHOOSE x \in S : Cardinality({y \in S : placeOutranks(y.stats, x.stats)}) = i - 1)
            = CHOOSE x \in S : Cardinality(Before(ByFame(S), S, x)) = i - 1
    BY <2>2
  <2> QED BY <2>1, <2>3 DEF Listing
<1>10. membersOf(PlacesPage(rows, now0, found)) = S
  BY <1>7, <1>8, <1>9, PageOf, PlacesAssumption
<1>11. ASSUME NEW x \in S
       PROVE  Shows(PostsForPlace(rows, x.stats.location), PlacePageCap, x.stats.postCount)
  <2> DEFINE here == at(rows, x.place)
             newest == ranked(here, LAMBDA a, b : earlier(b, a))
  <2>1. Keyed(here) /\ IsFiniteSet(here)
    BY <1>1, <1>2 DEF Keyed
  <2>2. PostsForPlace(rows, x.stats.location) =
          [posts |-> first(newest, PlacePageCap), hasMore |-> Len(newest) > PlacePageCap]
    <3>1. at(rows, normalizeLocation(x.stats.location)) = here
      BY <1>5
    <3> QED BY <3>1 DEF PostsForPlace
  <2>3. Orders(Newest(here), here) /\ newest = Listing(Newest(here), here)
    <3> HIDE DEF here
    <3> QED BY <2>1, NewestOrders
  <2>4. x.stats.postCount = Cardinality(here)
    BY <1>5
  <2> HIDE DEF here, newest
  <2>5. Shows([posts |-> first(Listing(Newest(here), here), PlacePageCap),
               hasMore |-> Len(Listing(Newest(here), here)) > PlacePageCap],
              PlacePageCap, Cardinality(here))
    BY <2>1, <2>3, PageShows, PlacesAssumption
  <2> QED BY <2>2, <2>3, <2>4, <2>5
<1> QED BY <1>10, <1>11 DEF S

----------------------------------------------------------------------------
(* Events.  No two of them begin with the same check-in, so their order     *)
(* leaves nothing open.                                                     *)
LEMMA ToldIsFinite == ASSUME Rows PROVE IsFiniteSet(Told)
<1>1. IsFiniteSet(SUBSET Located)
  BY ViewKeyed, FS_SUBSET DEF Keyed
<1>2. Trips \subseteq SUBSET Located /\ Gatherings \subseteq SUBSET Located
  BY TripsAre, GatheringsAre
<1>3. IsFiniteSet(Trips) /\ IsFiniteSet(Gatherings)
  BY <1>1, <1>2, FS_Subset
<1> DEFINE T == {buildEvent("trip", t) : t \in Trips}
           G == {buildEvent("gathering", g) : g \in Gatherings}
           f == [t \in Trips |-> buildEvent("trip", t)]
           h == [g \in Gatherings |-> buildEvent("gathering", g)]
<1>4. f \in Surjection(Trips, T) /\ h \in Surjection(Gatherings, G)
  BY DEF Surjection
<1>5. Told = T \cup G
  BY ToldAre
<1> HIDE DEF f, h, T, G
<1>6. IsFiniteSet(T) /\ IsFiniteSet(G)
  BY <1>3, <1>4, FS_Surjection
<1> QED BY <1>5, <1>6, FS_Union

LEMMA EventIs ==
  ASSUME Rows, NEW e \in Told
  PROVE  /\ e.kind \in {"trip", "gathering"}
         /\ e.start \in Nat /\ e.end \in Nat /\ e.place \in Nat
         /\ e.posts[1] \in Nat /\ e.posts[1] \in membersOf(e.posts)
         /\ membersOf(e.posts) \subseteq idsOf(at(Located, normalizeLocation(e.place)))
<1>1. PICK k, rows : /\ e = buildEvent(k, rows) /\ rows \subseteq Located
                     /\ membersOf(e.posts) = idsOf(rows) /\ e.kind = k
                     /\ \/ k = "trip" /\ rows \in Trips
                        \/ k = "gathering" /\ rows \in Gatherings
  BY ToldRows
<1>2. Keyed(rows) /\ rows # {} /\ \E p : rows \subseteq at(Located, p)
  <2>1. CASE rows \in Trips
    BY <2>1, TripsAre
  <2>2. CASE rows \in Gatherings
    BY <2>2, GatheringsAre DEF at, Left
  <2> QED BY <1>1, <2>1, <2>2
<1>3. /\ \E r \in rows : e.place = r.loc
      /\ \E r \in rows : e.start = dayOf(r.at)
      /\ \E r \in rows : e.end = dayOf(r.at)
  BY <1>1, <1>2, EventTells
<1>4. e.start \in Nat /\ e.end \in Nat /\ e.place \in Nat
  BY <1>2, <1>3, DaysOf DEF Keyed, Row, Label
<1>5. at(Located, normalizeLocation(e.place)) = {r \in Located : \E q \in rows : normalizeLocation(r.loc) = normalizeLocation(q.loc)}
  BY <1>2, <1>3 DEF at
<1>6. idsOf(rows) \subseteq idsOf(at(Located, normalizeLocation(e.place)))
  BY <1>1, <1>5 DEF idsOf
<1>7. DOMAIN e.posts = 1..Cardinality(rows)
  BY <1>1 DEF buildEvent, ranked
<1>8. Cardinality(rows) \in Nat \ {0}
  BY <1>2, FS_CardinalityType, FS_EmptySet DEF Keyed
<1>9. e.posts[1] \in membersOf(e.posts)
  BY <1>7, <1>8 DEF membersOf
<1>10. e.posts[1] \in Nat
  BY <1>1, <1>2, <1>9 DEF idsOf, Keyed, Row
<1> QED BY <1>1, <1>4, <1>6, <1>9, <1>10

ByRank(S) == {p \in S \X S : eventOutranks(p[1], p[2])}

LEMMA EventsOrder ==
  ASSUME Rows
  PROVE  /\ Orders(ByRank(Told), Told)
         /\ ranked(Told, eventOutranks) = Listing(ByRank(Told), Told)
<1> DEFINE S == Told
<1>1. \A e \in S : /\ e.kind \in {"trip", "gathering"}
                   /\ e.start \in Nat /\ e.end \in Nat /\ e.place \in Nat /\ e.posts[1] \in Nat
  BY EventIs
<1>2. \A e, f \in S : e # f => e.posts[1] # f.posts[1]
  <2> SUFFICES ASSUME NEW e \in S, NEW f \in S, e # f PROVE e.posts[1] # f.posts[1]
    OBVIOUS
  <2>1. membersOf(e.posts) \cap membersOf(f.posts) = {}
    BY ToldOnce
  <2>2. e.posts[1] \in membersOf(e.posts) /\ f.posts[1] \in membersOf(f.posts)
    BY EventIs
  <2> QED BY <2>1, <2>2
<1> HIDE DEF S
<1>3. \A e, f \in S : <<e, f>> \in ByRank(S) <=> eventOutranks(e, f)
  BY DEF ByRank
<1>4. Orders(ByRank(S), S)
  <2>1. \A e \in S : ~eventOutranks(e, e)
    BY <1>1 DEF eventOutranks
  <2>2. \A e, f \in S : e # f => eventOutranks(e, f) \/ eventOutranks(f, e)
    <3> SUFFICES ASSUME NEW e \in S, NEW f \in S, e # f
                 PROVE  eventOutranks(e, f) \/ eventOutranks(f, e)
      OBVIOUS
    <3>1. e.posts[1] # f.posts[1]
      BY <1>2
    <3> QED BY <1>1, <3>1 DEF eventOutranks
  <2>3. ASSUME NEW e \in S, NEW f \in S, NEW g \in S, eventOutranks(e, f), eventOutranks(f, g)
        PROVE  eventOutranks(e, g)
    BY <1>1, <2>3, SMTT(60) DEF eventOutranks
  <2> QED BY <1>3, <2>1, <2>2, <2>3 DEF Orders
<1>5. \A x \in S : {y \in S : eventOutranks(y, x)} = Before(ByRank(S), S, x)
  BY <1>3 DEF Before
<1>6. ranked(S, eventOutranks) = Listing(ByRank(S), S)
  <2>1. \A i \in 1..Cardinality(S) :
          (CHOOSE x \in S : Cardinality({y \in S : eventOutranks(y, x)}) = i - 1)
            = CHOOSE x \in S : Cardinality(Before(ByRank(S), S, x)) = i - 1
    BY <1>5
  <2>2. ranked(S, eventOutranks) =
          [i \in 1..Cardinality(S) |->
             CHOOSE x \in S : Cardinality({y \in S : eventOutranks(y, x)}) = i - 1]
    BY DEF ranked
  <2> QED BY <2>1, <2>2 DEF Listing
<1> QED BY <1>4, <1>6 DEF S

LEMMA EventsAgree ==
  ASSUME Rows
  PROVE  LET events == membersOf(EventsForViewer(Located, now, EventsLimit))
         IN /\ Cardinality(events) = Min({Cardinality(Told), EventsLimit})
            /\ \A e \in events, f \in Told \ events : e.end >= f.end
            /\ \A e \in events : membersOf(e.posts) \subseteq idsOf(at(Located, normalizeLocation(e.place)))
<1> DEFINE page == first(Listing(ByRank(Told), Told), EventsLimit)
           events == membersOf(page)
<1>1. EventsForViewer(Located, now, EventsLimit) = first(ranked(Told, eventOutranks), EventsLimit)
  BY DEF EventsForViewer, Told
<1>2. EventsForViewer(Located, now, EventsLimit) = page
  BY <1>1, EventsOrder
<1>3. /\ events \subseteq Told /\ Cardinality(events) = Min({Cardinality(Told), EventsLimit})
      /\ \A x \in events, y \in Told \ events : <<x, y>> \in ByRank(Told)
  BY ToldIsFinite, EventsOrder, PageOf, ScenesAssumption
<1> HIDE DEF page
<1>4. ASSUME NEW e \in events, NEW f \in Told \ events PROVE e.end >= f.end
  <2>1. eventOutranks(e, f)
    BY <1>3 DEF ByRank
  <2>2. e.end \in Nat /\ f.end \in Nat
    BY <1>3, EventIs
  <2> QED BY <2>1, <2>2 DEF eventOutranks
<1>5. \A e \in events : membersOf(e.posts) \subseteq idsOf(at(Located, normalizeLocation(e.place)))
  BY <1>3, EventIs
<1> QED BY <1>2, <1>3, <1>4, <1>5

----------------------------------------------------------------------------
(* Photos.  What is old enough to be forgotten is old enough to be a        *)
(* memory.                                                                  *)
Engagement(r) == r.likes + r.comments
ByNeglect(S) ==
  {p \in S \X S : \/ Engagement(p[1]) < Engagement(p[2])
                  \/ Engagement(p[1]) = Engagement(p[2]) /\ earlier(p[1], p[2])}

LEMMA ForgottenIsNeglected ==
  ASSUME NEW rows, Keyed(rows), NEW now0
  PROVE  ForgottenPhoto(rows, now0) \subseteq neglected(rows, now0)
<1> DEFINE S == neglected(rows, now0)
           sooner(a, b) == \/ Engagement(a) < Engagement(b)
                           \/ Engagement(a) = Engagement(b) /\ earlier(a, b)
<1>1. Keyed(S)
  <2>1. S \subseteq rows
    BY DEF neglected
  <2> HIDE DEF S
  <2> QED BY <2>1, SubKeyed
<1>2. ForgottenPhoto(rows, now0) = membersOf(first(ranked(S, sooner), CandidateWindow))
  BY DEF ForgottenPhoto, Engagement, earlier
<1> HIDE DEF S
<1>3. \A r \in S : r.at \in Nat /\ r.id \in Nat /\ Engagement(r) \in Nat
  BY <1>1 DEF Keyed, Row, Engagement
<1>4. \A x, y \in S : <<x, y>> \in ByNeglect(S) <=> sooner(x, y)
  BY DEF ByNeglect
<1>5. \A q, r \in S : q.id = r.id => q = r
  BY <1>1 DEF Keyed
<1>6. Orders(ByNeglect(S), S)
  <2> HIDE DEF S
  <2>1. \A x \in S : ~sooner(x, x)
    BY <1>3 DEF earlier
  <2>2. \A x, y \in S : x # y => sooner(x, y) \/ sooner(y, x)
    BY <1>3, <1>5 DEF earlier
  <2>3. \A x, y, z \in S : sooner(x, y) /\ sooner(y, z) => sooner(x, z)
    BY <1>3, SMTT(30) DEF earlier
  <2> HIDE DEF sooner
  <2> QED BY <1>4, <2>1, <2>2, <2>3 DEF Orders
<1> HIDE DEF sooner
<1>7. ranked(S, sooner) = Listing(ByNeglect(S), S)
  <2>1. \A x \in S : {y \in S : sooner(y, x)} = Before(ByNeglect(S), S, x)
    BY <1>4 DEF Before
  <2>2. \A i \in 1..Cardinality(S) :
          (CHOOSE x \in S : Cardinality({y \in S : sooner(y, x)}) = i - 1)
            = CHOOSE x \in S : Cardinality(Before(ByNeglect(S), S, x)) = i - 1
    BY <2>1
  <2>3. ranked(S, sooner) =
          [i \in 1..Cardinality(S) |->
             CHOOSE x \in S : Cardinality({y \in S : sooner(y, x)}) = i - 1]
    BY DEF ranked
  <2> QED BY <2>2, <2>3 DEF Listing
<1>8. membersOf(first(Listing(ByNeglect(S), S), CandidateWindow)) \subseteq S
  BY <1>1, <1>6, PageOf, TimelineAssumption DEF Keyed
<1> QED BY <1>2, <1>7, <1>8 DEF S

LEMMA ForgottenIsAMemory ==
  ASSUME NEW rows, Keyed(rows), NEW now0 \in Nat, NEW r \in ForgottenPhoto(rows, now0)
  PROVE  r \in RandomMemory(rows, now0) /\ forgottenPhotoEligible(r, now0)
<1>1. r \in neglected(rows, now0)
  BY ForgottenIsNeglected
<1>2. r \in rows /\ r.at < now0 - AgeFloor /\ r.photos + r.clips > 0
      /\ r.likes + r.comments <= EngagementCeiling
  BY <1>1 DEF neglected
<1>3. r.at \in Nat /\ AgeFloor \in Nat /\ RecencyFloor \in Nat /\ RecencyFloor <= AgeFloor
  BY <1>2, TimelineAssumption DEF Keyed, Row
<1>4. r \in randomMemoryFrom(rows, now0, TRUE)
  BY <1>2, <1>3 DEF randomMemoryFrom
<1>5. r \in RandomMemory(rows, now0)
  BY <1>4 DEF RandomMemory
<1>6. now0 - r.at > AgeFloor
  BY <1>2, <1>3
<1> QED BY <1>2, <1>5, <1>6 DEF forgottenPhotoEligible

LEMMA PagesDo == ASSUME Rows, scene \in Scenes PROVE PagesAgree
<1>1. \A m \in membersOf(bucketTimeline(View, scene.offset)) :
        Shows(TimelineMonthPosts(View, m.month, scene.offset), MonthPageCap, m.postCount)
  BY ViewKeyed, MonthsAgree, ScenesAssumption
<1>2. /\ membersOf(PlacesPage(Located, now, Found)) = PlacesTold
      /\ \A x \in PlacesTold :
           Shows(PostsForPlace(Located, x.stats.location), PlacePageCap, x.stats.postCount)
  BY LocatedPlaced, PlacesListed DEF PlacesTold
<1>3. ForgottenPhoto(View, now) \subseteq
        {r \in RandomMemory(View, now) : forgottenPhotoEligible(r, now)}
  BY ViewKeyed, ForgottenIsAMemory DEF Rows
<1> QED BY <1>1, <1>2, <1>3, EventsAgree DEF PagesAgree

(* PagesAgree: what a list page counts its detail page shows up to its cap, *)
(* every place is listed once, the events listed are the latest, and a      *)
(* forgotten photo is also a possible memory (bucketTimeline and            *)
(* TimelineMonthPosts, PlacesForViewer and PostsForPlace, EventsForViewer,  *)
(* ForgottenPhoto).                                                         *)
THEOREM ListsAndPagesAgree == Spec => []PagesAgree
<1>1. Init => scene \in Scenes
  BY DEF Init
<1>2. scene \in Scenes /\ [Next]_vars => (scene \in Scenes)'
  BY DEF Next, Wait, CheckIn, DeletePost, Like, Comment, Block, Revoke, BestowTitles, Miss, Store,
         Restart, vars
<1>3. JournalInv /\ scene \in Scenes => PagesAgree
  BY PagesDo DEF JournalInv
<1> QED BY <1>1, <1>2, <1>3, JournalInductive, PTL DEF Spec

==============================================================================
