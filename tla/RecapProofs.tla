---------------------------- MODULE RecapProofs ----------------------------
(***************************************************************************)
(* Proofs about Recap, for any number of scheduler loops, admin requests,  *)
(* members, settings and periods.                                          *)
(*                                                                         *)
(* The argument: two jobs whose recaps would be the same are never inside  *)
(* CreateRecapPost's transaction together (LockExclusive), so what one of  *)
(* them found there cannot be overtaken (CheckHolds); and the id a request *)
(* wants replaced still names a recap of the request's period (JobOK).     *)
(* From these, the insertion does what RecapLedger says in one step.       *)
(***************************************************************************)
EXTENDS Recap, TLAPS

LEMMA TopOfHourRange ==
  ASSUME NEW s \in Setting, NEW t \in Nat
  PROVE  TopOfHour(s, t) \in Int /\ t - SlotsPerHour <= TopOfHour(s, t)
           /\ TopOfHour(s, t) <= t
<1> DEFINE x == t + s.offset
<1>1. x \in Int  BY DEF Setting
<1>2. SlotsPerHour \in Int /\ SlotsPerHour > 0  BY ConstantsAssumption
<1>3. (x % SlotsPerHour) \in 0..(SlotsPerHour - 1)  BY <1>1, <1>2, Z3
<1> QED  BY <1>1, <1>2, <1>3 DEF TopOfHour, Local

LEMMA DuePeriodType ==
  ASSUME NEW s \in Setting, NEW t \in StartTime..MaxNow
  PROVE  DuePeriod(s, t) \in Period
<1>1. t \in Nat  BY ConstantsAssumption
<1>2. TopOfHour(s, t) \in -SlotsPerHour..MaxNow
  BY <1>1, TopOfHourRange, ConstantsAssumption
<1>3. MonthBefore(TopOfHour(s, t)) \in Int
  BY <1>2, ConstantsAssumption
<1>4. Week \in Int  BY ConstantsAssumption DEF Week
<1> QED  BY <1>2, <1>3, <1>4, ConstantsAssumption DEF DuePeriod, Period

(* The specs jobs and rows carry, and the shape of one job step.           *)
LEMMA IdleType ==
  /\ Idle \in JobState /\ Idle.pc = "idle" /\ Idle.replace = None
  /\ NoSpec \in RecapSpec /\ NoSetting \in Setting
BY DEF Idle, JobState, Pc, NoSpec, NoSetting, RecapSpec, Setting, Cadence, Origin, None

LEMMA TypeInit == Init => TypeOK
<1> SUFFICES ASSUME Init PROVE TypeOK  OBVIOUS
<1>1. now \in StartTime..MaxNow  BY ConstantsAssumption DEF Init
<1>2. settings \in Setting  BY ConstantsAssumption DEF Init
<1>3. titled \in Period  BY DEF Init, NoPeriod, Period
<1>4. job \in [Job -> JobState]  BY IdleType DEF Init
<1>5. birth \in [PostId -> Birth]  BY IdleType DEF Init, Birth
<1>6. created \in 0..MaxRecaps  BY ConstantsAssumption DEF Init
<1> QED  BY <1>1, <1>2, <1>3, <1>4, <1>5, <1>6, IdleType DEF Init, TypeOK

(* The job variable after a step that ends a job or moves it on.           *)
LEMMA JobUpdate ==
  ASSUME TypeOK, NEW j \in Job, NEW v \in JobState, v.pc # "finish",
         job' = [job EXCEPT ![j] = v], created' = created
  PROVE  /\ job' \in [Job -> JobState]
         /\ \A k \in Job : job'[k].pc = "finish" => job'[k].post \in 1..created'
BY DEF TypeOK

LEMMA TypeStep == TypeOK /\ [Next]_vars => TypeOK'
<1> SUFFICES ASSUME TypeOK, [Next]_vars PROVE TypeOK'  OBVIOUS
<1> USE DEF dbVars, history
<1>1. CASE \E j \in Scheduler : Tick(j)
  <2>1. PICK j \in Scheduler : Tick(j)  BY <1>1
  <2>2. DuePeriod(settings, now) \in Period  BY DuePeriodType DEF TypeOK
  <2> DEFINE p == DuePeriod(settings, now)
             v == [Idle EXCEPT !.pc = "exists", !.by = settings,
                     !.spec = [cadence |-> settings.cadence, origin |-> "scheduled",
                               start |-> p.start, end |-> p.end]]
  <2>3. [cadence |-> settings.cadence, origin |-> "scheduled",
         start |-> p.start, end |-> p.end] \in RecapSpec
    BY <2>2 DEF TypeOK, Setting, RecapSpec, Cadence, Origin, Period
  <2>4. v \in JobState /\ v.pc # "finish"
    BY <2>3, IdleType DEF JobState, Pc, TypeOK
  <2>5. job' = [job EXCEPT ![j] = v]  BY <2>1 DEF Tick
  <2> HIDE DEF v
  <2> QED  BY <2>1, <2>4, <2>5, JobUpdate DEF Tick, TypeOK, Job
<1>2. CASE \E j \in Request, p \in ManualPeriods, r, b \in BOOLEAN : Ask(j, p, r, b)
  <2>1. PICK j \in Request, p \in ManualPeriods, r \in BOOLEAN, b \in BOOLEAN :
          Ask(j, p, r, b)
    BY <1>2
  <2> DEFINE spec == [cadence |-> "custom", origin |-> "manual",
                      start |-> p.start, end |-> p.end]
             found == Duplicates(spec)
  <2>2. PICK t \in IF found = {} THEN {None} ELSE {x.post : x \in found} :
          job' = [job EXCEPT ![j] = [Idle EXCEPT !.pc = "build", !.spec = spec,
                                       !.replace = t, !.bestow = b]]
    BY <2>1 DEF Ask
  <2>3. t \in PostId \cup {None}
    BY DEF Duplicates, TypeOK, Row
  <2>4. spec \in RecapSpec
    BY ConstantsAssumption DEF RecapSpec, Cadence, Origin, Period
  <2> DEFINE v == [Idle EXCEPT !.pc = "build", !.spec = spec, !.replace = t, !.bestow = b]
  <2>5. v \in JobState /\ v.pc # "finish"
    BY <2>3, <2>4, IdleType DEF JobState, Pc
  <2> HIDE DEF v
  <2> QED  BY <2>1, <2>2, <2>5, JobUpdate DEF Ask, TypeOK, Job, v
<1>3. CASE \E j \in Job : Step(j)
  <2>1. PICK j \in Job : Step(j)  BY <1>3
  <2>2. CASE PreCheck(j) \/ CountGate(j) \/ Build(j) \/ Lock(j) \/ Check(j) \/ Abort(j)
    <3>1. PICK v \in JobState : v.pc # "finish" /\ job' = [job EXCEPT ![j] = v]
      <4>1. job[j] \in JobState  BY DEF TypeOK
      <4>2. \A pc \in Pc \ {"finish"} :
              /\ [job[j] EXCEPT !.pc = pc] \in JobState
              /\ [job EXCEPT ![j].pc = pc] = [job EXCEPT ![j] = [job[j] EXCEPT !.pc = pc]]
              /\ [job[j] EXCEPT !.pc = pc].pc # "finish"
        BY <4>1 DEF JobState, Pc, TypeOK
      <4>3. CASE PreCheck(j) \/ CountGate(j) \/ Build(j) \/ Lock(j) \/ Abort(j)
        <5>1. Return(j) \/ Goto(j, "count") \/ Goto(j, "build") \/ Goto(j, "lock")
                \/ Goto(j, "check")
          BY <4>3 DEF PreCheck, CountGate, Build, Lock, Abort
        <5> QED  BY <5>1, <4>2, IdleType DEF Return, Goto, Pc
      <4>4. CASE Check(j)
        <5>1. CASE Return(j)  BY <5>1, IdleType DEF Return
        <5>2. CASE ~Return(j)
          <6> DEFINE d == Duplicates(job[j].spec) # {}
                     v == [job[j] EXCEPT !.pc = "write", !.dup = d]
          <6>1. job' = [job EXCEPT ![j].pc = "write", ![j].dup = d]
            BY <4>4, <5>2 DEF Check
          <6>2. job' = [job EXCEPT ![j] = v]  BY <6>1 DEF TypeOK
          <6>3. d \in BOOLEAN  OBVIOUS
          <6>4. v \in JobState /\ v.pc # "finish"
            BY <4>1, <6>3 DEF JobState, Pc
          <6> QED  BY <6>2, <6>4
        <5> QED  BY <5>1, <5>2
      <4> QED  BY <2>2, <4>3, <4>4
    <3>2. UNCHANGED <<now, settings, checkins, recaps, created, notifying, history>>
      BY <2>2 DEF PreCheck, CountGate, Build, Lock, Check, Abort
    <3>3. [start |-> job[j].spec.start, end |-> job[j].spec.end] \in Period
      BY DEF TypeOK, JobState, RecapSpec, Period
    <3>4. titled' \in Period
      BY <2>2, <3>3 DEF PreCheck, CountGate, Build, Lock, Check, Abort, Retitled, TypeOK
    <3> QED  BY <3>1, <3>2, <3>4, JobUpdate DEF TypeOK
  <2>3. CASE Write(j)
    <3> DEFINE id == created + 1
    <3>1. id \in PostId /\ created' = id /\ id \in 0..MaxRecaps /\ created \in Nat
      BY <2>3, ConstantsAssumption DEF Write, TypeOK, PostId
    <3>2. job[j] \in JobState  BY DEF TypeOK
    <3>3. recaps' \subseteq Row /\ \A r \in recaps' : r.post <= created'
      BY <2>3, <3>1, <3>2 DEF Write, TypeOK, Row, JobState, PostId
    <3>4. Inserted(j, id) \in JobState /\ Inserted(j, id).post = id
      BY <3>1, <3>2 DEF Inserted, JobState, Pc
    <3>5. job' \in [Job -> JobState]  BY <2>3, <3>4 DEF Write, TypeOK
    <3>6. \A k \in Job : job'[k].pc = "finish" => job'[k].post \in 1..created'
      BY <2>3, <3>1, <3>4 DEF Write, TypeOK
    <3>7. birth' \in [PostId -> Birth]
      BY <2>3, <3>1, <3>2 DEF Write, TypeOK, Birth, JobState
    <3>8. notifying' \subseteq 1..created'
      BY <2>3, <3>1 DEF Write, TypeOK
    <3> QED  BY <2>3, <3>1, <3>3, <3>5, <3>6, <3>7, <3>8 DEF Write, TypeOK
  <2>4. CASE Finish(j)
    <3>1. job' \in [Job -> JobState]
          /\ \A k \in Job : job'[k].pc = "finish" => job'[k].post \in 1..created'
      BY <2>4, IdleType, JobUpdate DEF Finish, Return
    <3>2. [start |-> job[j].spec.start, end |-> job[j].spec.end] \in Period
      BY DEF TypeOK, JobState, RecapSpec, Period
    <3>3. titled' \in Period  BY <2>4, <3>2 DEF Finish, Retitled, TypeOK
    <3>4. notifying' \subseteq 1..created'  BY <2>4 DEF Finish, TypeOK
    <3> QED  BY <2>4, <3>1, <3>3, <3>4 DEF Finish, TypeOK
  <2> QED  BY <2>1, <2>2, <2>3, <2>4 DEF Step
<1>4. CASE \E p \in notifying : Notify(p)
  <2>1. PICK p \in notifying : Notify(p)  BY <1>4
  <2>2. p \in PostId /\ pushes[p] + 1 \in Nat
    BY ConstantsAssumption DEF TypeOK, PostId
  <2> QED  BY <2>1, <2>2 DEF Notify, TypeOK
<1>5. CASE \E s \in Settings : ChangeSettings(s)
  BY <1>5, ConstantsAssumption DEF ChangeSettings, TypeOK
<1>6. CASE \E m \in Member : CheckIn(m)
  <2>1. now \in Nat  BY ConstantsAssumption DEF TypeOK
  <2> QED  BY <1>6, <2>1 DEF CheckIn, TypeOK
<1>7. CASE \E c \in checkins : RemoveCheckIn(c)
  BY <1>7 DEF RemoveCheckIn, TypeOK
<1>8. CASE \E r \in recaps : DeleteRecap(r)
  BY <1>8 DEF DeleteRecap, TypeOK
<1>9. CASE Pass
  BY <1>9, ConstantsAssumption DEF Pass, TypeOK
<1>10. CASE UNCHANGED vars
  BY <1>10 DEF vars, TypeOK
<1> QED
  BY <1>1, <1>2, <1>3, <1>4, <1>5, <1>6, <1>7, <1>8, <1>9, <1>10 DEF Next

(* Type correctness: a job's spec, its replacement target and the rows it  *)
(* writes are well formed in every reachable state; in particular a job    *)
(* that notifies holds the id of a post that was inserted.                 *)
THEOREM TypeCorrect == Spec => []TypeOK
<1>1. Init => TypeOK  BY TypeInit
<1>2. TypeOK /\ [Next]_vars => TypeOK'  BY TypeStep
<1> QED  BY <1>1, <1>2, PTL DEF Spec

-----------------------------------------------------------------------------
(* The inductive invariant.                                                *)

LockExclusive ==
  \A j, k \in Job : j # k /\ InTransaction(j) /\ InTransaction(k)
                      => ~SameRecap(job[j].spec, job[k].spec)

(* An id to replace was born as the same recap, and a job goes past a      *)
(* duplicate only to replace it.                                           *)
JobOK ==
  \A j \in Job :
    /\ job[j].replace # None =>
         /\ job[j].replace \in 1..created
         /\ SameRecap(birth[job[j].replace].spec, job[j].spec)
    /\ job[j].pc = "write" /\ job[j].dup =>
         job[j].spec.origin = "manual" /\ job[j].replace # None

RowOK == \A r \in recaps : r.spec = birth[r.post].spec

IInv == TypeOK /\ LockExclusive /\ JobOK /\ RowOK /\ CheckHolds

LEMMA SameRecapEquiv ==
  /\ \A a : SameRecap(a, a) => (a.origin = "scheduled" \/ a.origin = "manual")
  /\ \A a \in RecapSpec : SameRecap(a, a)
  /\ \A a, b : SameRecap(a, b) => SameRecap(b, a)
  /\ \A a, b, c : SameRecap(a, b) /\ SameRecap(b, c) => SameRecap(a, c)
BY DEF SameRecap, RecapSpec, Origin

LEMMA IInit == Init => IInv
BY TypeInit, IdleType
   DEF Init, IInv, LockExclusive, JobOK, RowOK, CheckHolds, InTransaction, Idle

(* What a step does to the jobs: it leaves all of them, or it moves one.   *)
(* The one that moves keeps its spec, unless it starts or ends; it enters  *)
(* the transaction only with the lock, and writes only after the check.    *)
JobFrame ==
  \/ UNCHANGED job
  \/ \E j \in Job :
       /\ \A k \in Job \ {j} : job'[k] = job[k]
       /\ \/ job'[j].pc \notin {"check", "write"} /\ job'[j].replace \in {job[j].replace, None}
             /\ job'[j].spec = job[j].spec
          \/ job'[j] = Idle
          \/ job'[j].pc = "exists" /\ job'[j].replace = None
          \/ /\ job'[j].pc = "build"
             /\ job'[j].replace # None => \E r \in recaps :
                  r.post = job'[j].replace /\ SameRecap(r.spec, job'[j].spec)
          \/ /\ job'[j].pc = "check" /\ LockFree(j)
             /\ job'[j].spec = job[j].spec /\ job'[j].replace = job[j].replace
          \/ /\ job[j].pc = "check" /\ job'[j].pc = "write"
             /\ job'[j].spec = job[j].spec /\ job'[j].replace = job[j].replace
             /\ job'[j].dup = (Duplicates(job[j].spec) # {})
             /\ job'[j].dup => job[j].spec.origin = "manual" /\ job[j].replace # None

(* What a step does to the table: rows go, or a writing job's row comes.   *)
RowFrame ==
  \/ recaps' \subseteq recaps /\ UNCHANGED <<created, birth>>
  \/ \E j \in Job :
       /\ Write(j)
       /\ created + 1 \in PostId

LEMMA Frames == TypeOK /\ [Next]_vars => JobFrame /\ RowFrame
<1> SUFFICES ASSUME TypeOK, [Next]_vars PROVE JobFrame /\ RowFrame  OBVIOUS
<1> USE DEF dbVars, history
<1>0. job \in [Job -> JobState]  BY DEF TypeOK
<1>1. CASE \E j \in Scheduler : Tick(j)
  <2>1. PICK j \in Scheduler : Tick(j)  BY <1>1
  <2>2. j \in Job  BY DEF Job
  <2> DEFINE p == DuePeriod(settings, now)
             sp == [cadence |-> settings.cadence, origin |-> "scheduled",
                    start |-> p.start, end |-> p.end]
             v == [Idle EXCEPT !.pc = "exists", !.by = settings, !.spec = sp]
  <2>3. job' = [job EXCEPT ![j] = v]  BY <2>1 DEF Tick
  <2> HIDE DEF sp
  <2>4. v.pc = "exists" /\ v.replace = None  BY DEF Idle
  <2> HIDE DEF v
  <2>5. job'[j] = v /\ \A k \in Job \ {j} : job'[k] = job[k]  BY <1>0, <2>2, <2>3
  <2> QED  BY <2>1, <2>2, <2>4, <2>5 DEF Tick, JobFrame, RowFrame
<1>2. CASE \E j \in Request, p \in ManualPeriods, r, b \in BOOLEAN : Ask(j, p, r, b)
  <2>1. PICK j \in Request, p \in ManualPeriods, r \in BOOLEAN, b \in BOOLEAN :
          Ask(j, p, r, b)
    BY <1>2
  <2>2. j \in Job  BY DEF Job
  <2> DEFINE spec == [cadence |-> "custom", origin |-> "manual",
                      start |-> p.start, end |-> p.end]
             found == Duplicates(spec)
  <2>3. PICK t \in IF found = {} THEN {None} ELSE {x.post : x \in found} :
          job' = [job EXCEPT ![j] = [Idle EXCEPT !.pc = "build", !.spec = spec,
                                       !.replace = t, !.bestow = b]]
    BY <2>1 DEF Ask
  <2>4. t # None => \E x \in recaps : x.post = t /\ SameRecap(x.spec, spec)
    BY DEF Duplicates
  <2> DEFINE v == [Idle EXCEPT !.pc = "build", !.spec = spec, !.replace = t, !.bestow = b]
  <2> HIDE DEF spec
  <2>5. v.pc = "build" /\ v.replace = t /\ v.spec = spec  BY DEF Idle
  <2>6. job' = [job EXCEPT ![j] = v]  BY <2>3
  <2> HIDE DEF v
  <2>7. job'[j] = v /\ \A k \in Job \ {j} : job'[k] = job[k]  BY <1>0, <2>2, <2>6
  <2>8. JobFrame  BY <2>2, <2>4, <2>5, <2>7 DEF JobFrame
  <2> QED  BY <2>1, <2>8 DEF Ask, RowFrame
<1>3. CASE \E j \in Job : Step(j)
  <2>1. PICK j \in Job : Step(j)  BY <1>3
  <2>0. job[j] \in JobState  BY <1>0
  <2>2. CASE Return(j)
    <3>1. JobFrame  BY <1>0, <2>2 DEF Return, JobFrame
    <3>2. ~Write(j)
      <4>1. ASSUME Write(j) PROVE FALSE
        <5>1. job'[j] = Inserted(j, created + 1)  BY <1>0, <4>1 DEF Write
        <5>2. job'[j] = Idle  BY <1>0, <2>2 DEF Return
        <5>3. Inserted(j, created + 1).pc = "finish"  BY <2>0 DEF Inserted, JobState
        <5> QED  BY <5>1, <5>2, <5>3, IdleType
      <4> QED  BY <4>1
    <3>3. UNCHANGED <<recaps, created, birth>>
      BY <2>1, <3>2 DEF Step, PreCheck, CountGate, Build, Lock, Check, Finish, Abort
    <3> QED  BY <3>1, <3>3 DEF RowFrame
  <2>3. CASE PreCheck(j) /\ ~Return(j)
    BY <1>0, <2>0, <2>3 DEF PreCheck, Goto, JobFrame, RowFrame, JobState
  <2>4. CASE CountGate(j) /\ ~Return(j)
    BY <1>0, <2>0, <2>4 DEF CountGate, Goto, JobFrame, RowFrame, JobState
  <2>5. CASE Build(j) /\ ~Return(j)
    BY <1>0, <2>0, <2>5 DEF Build, Goto, JobFrame, RowFrame, JobState
  <2>6. CASE Lock(j)
    BY <1>0, <2>0, <2>6 DEF Lock, Goto, JobFrame, RowFrame, JobState
  <2>7. CASE Check(j) /\ ~Return(j)
    <3> DEFINE d == Duplicates(job[j].spec) # {}
    <3>1. job' = [job EXCEPT ![j].pc = "write", ![j].dup = d]
      BY <2>7 DEF Check
    <3>2. d => job[j].spec.origin = "manual" /\ job[j].replace # None
      BY <2>0, <2>7 DEF Check, JobState, RecapSpec, Origin
    <3>3. job[j].pc = "check" /\ UNCHANGED <<recaps, created, birth>>
      BY <2>7 DEF Check
    <3> HIDE DEF d
    <3>4. /\ job'[j].pc = "write" /\ job'[j].dup = d
          /\ job'[j].spec = job[j].spec /\ job'[j].replace = job[j].replace
          /\ \A k \in Job \ {j} : job'[k] = job[k]
      BY <1>0, <2>0, <3>1 DEF JobState
    <3> QED  BY <3>2, <3>3, <3>4 DEF JobFrame, RowFrame, d
  <2>8. CASE Write(j)
    <3>1. created + 1 \in PostId
      BY <2>8, ConstantsAssumption DEF Write, TypeOK, PostId
    <3>2. job' = [job EXCEPT ![j] = Inserted(j, created + 1)]  BY <2>8 DEF Write
    <3>3. /\ Inserted(j, created + 1).pc = "finish"
          /\ Inserted(j, created + 1).replace = job[j].replace
          /\ Inserted(j, created + 1).spec = job[j].spec
      BY <2>0 DEF Inserted, JobState
    <3>4. JobFrame  BY <1>0, <3>2, <3>3 DEF JobFrame
    <3> QED  BY <2>8, <3>1, <3>4 DEF RowFrame
  <2> QED
    BY <2>1, <2>2, <2>3, <2>4, <2>5, <2>6, <2>7, <2>8 DEF Step, Finish, Abort
<1>4. CASE \E p \in notifying : Notify(p)
  BY <1>4 DEF Notify, JobFrame, RowFrame
<1>5. CASE \E s \in Settings : ChangeSettings(s)
  BY <1>5 DEF ChangeSettings, JobFrame, RowFrame
<1>6. CASE \E m \in Member : CheckIn(m)
  BY <1>6 DEF CheckIn, JobFrame, RowFrame
<1>7. CASE \E c \in checkins : RemoveCheckIn(c)
  BY <1>7 DEF RemoveCheckIn, JobFrame, RowFrame
<1>8. CASE \E r \in recaps : DeleteRecap(r)
  BY <1>8 DEF DeleteRecap, JobFrame, RowFrame
<1>9. CASE Pass
  BY <1>9 DEF Pass, JobFrame, RowFrame
<1>10. CASE UNCHANGED vars
  BY <1>10 DEF vars, JobFrame, RowFrame
<1> QED
  BY <1>1, <1>2, <1>3, <1>4, <1>5, <1>6, <1>7, <1>8, <1>9, <1>10 DEF Next

(* A row that comes in has the writing job's spec, a fresh id, and takes   *)
(* with it only the post the job names.                                    *)
LEMMA WriteRow ==
  ASSUME TypeOK, NEW j \in Job, Write(j), created + 1 \in PostId
  PROVE  /\ job[j].pc = "write" /\ created' = created + 1 /\ created \in Nat
         /\ recaps' = {r \in recaps : r.post # job[j].replace}
                        \cup {[post |-> created + 1, spec |-> job[j].spec]}
         /\ birth'[created + 1].spec = job[j].spec
         /\ birth'[created + 1].replace = job[j].replace
         /\ \A q \in 1..created : birth'[q] = birth[q]
         /\ job'[j].pc = "finish" /\ job'[j].spec = job[j].spec
         /\ job'[j].replace = job[j].replace /\ job'[j].post = created + 1
         /\ \A k \in Job \ {j} : job'[k] = job[k]
<1>1. created \in Nat  BY ConstantsAssumption DEF TypeOK
<1>2. \A q \in 1..created : birth'[q] = birth[q]
  BY <1>1 DEF Write, TypeOK, PostId
<1>3. job' = [job EXCEPT ![j] = Inserted(j, created + 1)]  BY DEF Write
<1>4. job[j] \in JobState  BY DEF TypeOK
<1>5. /\ Inserted(j, created + 1).pc = "finish"
      /\ Inserted(j, created + 1).spec = job[j].spec
      /\ Inserted(j, created + 1).replace = job[j].replace
      /\ Inserted(j, created + 1).post = created + 1
  BY <1>4 DEF Inserted, JobState
<1> QED  BY <1>1, <1>2, <1>3, <1>5 DEF Write, TypeOK

LEMMA LockStep == IInv /\ [Next]_vars => LockExclusive'
<1> SUFFICES ASSUME IInv, [Next]_vars PROVE LockExclusive'  OBVIOUS
<1>1. JobFrame  BY Frames DEF IInv
<1>2. CASE UNCHANGED job
  BY <1>2 DEF IInv, LockExclusive, InTransaction
<1>3. CASE ~UNCHANGED job
  <2>1. PICK j \in Job : /\ \A k \in Job \ {j} : job'[k] = job[k]
                         /\ \/ job'[j].pc \notin {"check", "write"}
                            \/ job'[j].pc = "check" /\ LockFree(j) /\ job'[j].spec = job[j].spec
                            \/ job[j].pc = "check" /\ job'[j].spec = job[j].spec
    BY <1>1, <1>3, IdleType DEF JobFrame
  <2>2. SUFFICES ASSUME NEW k \in Job, k # j, InTransaction(k), InTransaction(j)'
                 PROVE  ~SameRecap(job[k].spec, job'[j].spec)
    BY <2>1, SameRecapEquiv DEF IInv, LockExclusive, InTransaction
  <2>3. CASE LockFree(j) /\ job'[j].spec = job[j].spec
    BY <2>2, <2>3 DEF LockFree, SameLock
  <2>4. CASE job[j].pc = "check" /\ job'[j].spec = job[j].spec
    BY <2>2, <2>4, SameRecapEquiv DEF IInv, LockExclusive, InTransaction
  <2> QED  BY <2>1, <2>2, <2>3, <2>4 DEF InTransaction
<1> QED  BY <1>2, <1>3

LEMMA RowStep == IInv /\ [Next]_vars => RowOK'
<1> SUFFICES ASSUME IInv, [Next]_vars PROVE RowOK'  OBVIOUS
<1>1. TypeOK /\ RowOK  BY DEF IInv
<1>2. RowFrame  BY <1>1, Frames
<1>3. CASE recaps' \subseteq recaps /\ UNCHANGED <<created, birth>>
  BY <1>1, <1>3 DEF RowOK
<1>4. CASE \E j \in Job : Write(j) /\ created + 1 \in PostId
  <2>1. PICK j \in Job : Write(j) /\ created + 1 \in PostId  BY <1>4
  <2>2. \A r \in recaps : r.post \in 1..created
    BY <1>1 DEF TypeOK, Row, PostId
  <2> QED  BY <1>1, <2>1, <2>2, WriteRow DEF RowOK
<1> QED  BY <1>2, <1>3, <1>4 DEF RowFrame

LEMMA JobStep == IInv /\ [Next]_vars => JobOK'
<1> SUFFICES ASSUME IInv, [Next]_vars PROVE JobOK'  OBVIOUS
<1>1. TypeOK /\ JobOK /\ RowOK  BY DEF IInv
<1>2. JobFrame /\ RowFrame  BY <1>1, Frames
<1>3. created \in Nat /\ created' \in Nat /\ created <= created'
      /\ \A q \in 1..created : birth'[q] = birth[q]
  <2>1. created \in Nat  BY <1>1, ConstantsAssumption DEF TypeOK
  <2>2. CASE UNCHANGED <<created, birth>>  BY <2>1, <2>2
  <2>3. CASE \E j \in Job : Write(j) /\ created + 1 \in PostId
    BY <1>1, <2>1, <2>3, WriteRow
  <2> QED  BY <1>2, <2>2, <2>3 DEF RowFrame
<1> DEFINE Good(b) ==
      /\ b.replace # None => b.replace \in 1..created' /\ SameRecap(birth'[b.replace].spec, b.spec)
      /\ b.pc = "write" /\ b.dup => b.spec.origin = "manual" /\ b.replace # None
<1>4. \A k \in Job : Good(job[k])
  BY <1>1, <1>3 DEF JobOK
<1>5. \A r \in recaps : r.post \in 1..created' /\ birth'[r.post].spec = r.spec
  BY <1>1, <1>3 DEF TypeOK, Row, PostId, RowOK
<1>6. SUFFICES \A k \in Job : Good(job'[k])  BY DEF JobOK
<1>7. CASE UNCHANGED job  BY <1>4, <1>7
<1>8. CASE ~UNCHANGED job
  <2>1. PICK j \in Job :
       /\ \A k \in Job \ {j} : job'[k] = job[k]
       /\ \/ job'[j].pc \notin {"check", "write"} /\ job'[j].replace \in {job[j].replace, None}
             /\ job'[j].spec = job[j].spec
          \/ job'[j] = Idle
          \/ job'[j].pc = "exists" /\ job'[j].replace = None
          \/ /\ job'[j].pc = "build"
             /\ job'[j].replace # None => \E r \in recaps :
                  r.post = job'[j].replace /\ SameRecap(r.spec, job'[j].spec)
          \/ /\ job'[j].pc = "check" /\ LockFree(j)
             /\ job'[j].spec = job[j].spec /\ job'[j].replace = job[j].replace
          \/ /\ job[j].pc = "check" /\ job'[j].pc = "write"
             /\ job'[j].spec = job[j].spec /\ job'[j].replace = job[j].replace
             /\ job'[j].dup = (Duplicates(job[j].spec) # {})
             /\ job'[j].dup => job[j].spec.origin = "manual" /\ job[j].replace # None
    BY <1>2, <1>8 DEF JobFrame
  <2>2. Good(job'[j])  BY <1>4, <1>5, <2>1, IdleType
  <2> QED  BY <1>4, <2>1, <2>2
<1> QED  BY <1>7, <1>8

LEMMA CheckStep == IInv /\ [Next]_vars => CheckHolds'
<1> SUFFICES ASSUME IInv, [Next]_vars, NEW k \in Job,
                    job'[k].pc = "write", ~job'[k].dup
             PROVE  \A r \in recaps' : ~SameRecap(r.spec, job'[k].spec)
  BY DEF CheckHolds, Duplicates
<1>1. TypeOK /\ CheckHolds /\ LockExclusive  BY DEF IInv
<1>2. JobFrame /\ RowFrame  BY <1>1, Frames
<1>3. job[k].pc \in {"check", "write"} /\ job'[k].spec = job[k].spec
      /\ Duplicates(job[k].spec) = {} /\ (job[k].pc = "check" => recaps' \subseteq recaps)
  <2>1. CASE job'[k] = job[k]  BY <1>1, <2>1 DEF CheckHolds
  <2>2. CASE job'[k] # job[k]
    <3>1. /\ job[k].pc = "check" /\ job'[k].spec = job[k].spec
          /\ job'[k].dup = (Duplicates(job[k].spec) # {})
          /\ \A i \in Job \ {k} : job'[i] = job[i]
      BY <1>2, <2>2, IdleType DEF JobFrame
    <3>2. \A j \in Job : ~(Write(j) /\ created + 1 \in PostId)
      BY <1>1, <3>1, WriteRow
    <3> QED  BY <1>2, <3>1, <3>2 DEF RowFrame
  <2> QED  BY <2>1, <2>2
<1>4. CASE recaps' \subseteq recaps
  BY <1>3, <1>4 DEF Duplicates
<1>5. CASE \E j \in Job : Write(j) /\ created + 1 \in PostId
  <2>1. PICK j \in Job : Write(j) /\ created + 1 \in PostId  BY <1>5
  <2>2. j # k  BY <1>1, <2>1, WriteRow
  <2>3. ~SameRecap(job[j].spec, job[k].spec)
    BY <1>1, <1>3, <2>1, <2>2, WriteRow DEF LockExclusive, InTransaction
  <2>4. recaps' \subseteq recaps \cup {[post |-> created + 1, spec |-> job[j].spec]}
    BY <1>1, <2>1, WriteRow
  <2> QED  BY <1>3, <2>3, <2>4 DEF Duplicates
<1> QED  BY <1>2, <1>4, <1>5 DEF RowFrame

LEMMA Invariance == Spec => []IInv
<1>1. Init => IInv  BY IInit
<1>2. IInv /\ [Next]_vars => IInv'
  BY TypeStep, LockStep, RowStep, JobStep, CheckStep DEF IInv
<1> QED  BY <1>1, <1>2, PTL DEF Spec

(* What the lock-guarded check found still holds when the row is written,  *)
(* for any number of processes and requests.                               *)
THEOREM CheckIsNeverStale == Spec => []CheckHolds
<1>1. IInv => CheckHolds  BY DEF IInv
<1> QED  BY <1>1, Invariance, PTL

(* The post a request replaces is a recap of the request's own period,     *)
(* however long ago the id was read.                                       *)
THEOREM ReplacesOnlyTheSame == Spec => []ReplaceTargetsSameRecap
<1>1. IInv => ReplaceTargetsSameRecap
  <2> SUFFICES ASSUME IInv, NEW j \in Job, NEW r \in recaps, r.post = job[j].replace
               PROVE  SameRecap(r.spec, job[j].spec)
    BY DEF ReplaceTargetsSameRecap
  <2>1. r.post # None  BY DEF IInv, TypeOK, Row, PostId, None
  <2> QED  BY <2>1 DEF IInv, JobOK, RowOK
<1> QED  BY <1>1, Invariance, PTL

(* A manual recap doubles another only if one of the two was inserted to   *)
(* replace a post; a row born without a target was alone when it came.     *)
THEOREM ManualDuplicates == Spec => []ManualDuplicateNeedsReplace
<1> DEFINE I == IInv /\ ManualDuplicateNeedsReplace
<1>1. Init => ManualDuplicateNeedsReplace
  BY DEF Init, ManualDuplicateNeedsReplace
<1>2. I /\ [Next]_vars => ManualDuplicateNeedsReplace'
  <2> SUFFICES ASSUME I, [Next]_vars PROVE ManualDuplicateNeedsReplace'
    OBVIOUS
  <2>1. RowFrame /\ TypeOK  BY Frames DEF IInv
  <2>2. CASE recaps' \subseteq recaps /\ UNCHANGED <<created, birth>>
    BY <2>2 DEF ManualDuplicateNeedsReplace
  <2>3. CASE \E j \in Job : Write(j) /\ created + 1 \in PostId
    <3>1. PICK j \in Job : Write(j) /\ created + 1 \in PostId  BY <2>3
    <3> DEFINE new == [post |-> created + 1, spec |-> job[j].spec]
    <3>2. recaps' \subseteq recaps \cup {new}  BY <2>1, <3>1, WriteRow
    <3>3. \A r \in recaps : r.post \in 1..created /\ birth'[r.post] = birth[r.post]
      BY <2>1, <3>1, WriteRow DEF TypeOK, Row, PostId
    <3>4. ASSUME NEW r \in recaps, SameRecap(r.spec, job[j].spec)
          PROVE  birth'[created + 1].replace # None
      <4>1. job[j].dup  BY <3>1, <3>4, <2>1, WriteRow DEF IInv, CheckHolds, Duplicates
      <4> QED  BY <3>1, <4>1, <2>1, WriteRow DEF IInv, JobOK
    <3>5. ASSUME NEW a \in recaps', NEW b \in recaps', a # b,
                 a.spec.origin = "manual", SameRecap(a.spec, b.spec)
          PROVE  birth'[a.post].replace # None \/ birth'[b.post].replace # None
      <4>1. CASE a \in recaps /\ b \in recaps
        BY <3>3, <3>5, <4>1 DEF ManualDuplicateNeedsReplace
      <4>2. CASE a = new /\ b \in recaps  BY <3>4, <3>5, <4>2, SameRecapEquiv
      <4>3. CASE b = new /\ a \in recaps  BY <3>4, <3>5, <4>3
      <4> QED  BY <3>2, <3>5, <4>1, <4>2, <4>3
    <3> QED  BY <3>5 DEF ManualDuplicateNeedsReplace
  <2> QED  BY <2>1, <2>2, <2>3 DEF RowFrame
<1>3. Init => IInv  BY IInit
<1>4. IInv /\ [Next]_vars => IInv'
  BY TypeStep, LockStep, RowStep, JobStep, CheckStep DEF IInv
<1> QED  BY <1>1, <1>2, <1>3, <1>4, PTL DEF Spec

-----------------------------------------------------------------------------
(* One push per recap post.                                                *)

(* A post is about to be announced, being announced, or announced, never   *)
(* two of these; and all three say it replaced nothing.                    *)
Finishing(p) == {j \in Job : job[j].pc = "finish" /\ job[j].post = p}

PushInv ==
  /\ \A j \in Job : job[j].pc = "finish" => birth[job[j].post].replace = job[j].replace
  /\ \A j, k \in Job : j # k /\ job[j].pc = "finish" /\ job[k].pc = "finish"
                          => job[j].post # job[k].post
  /\ \A p \in PostId :
       /\ p > created => pushes[p] = 0 /\ p \notin notifying
       /\ pushes[p] > 0 \/ p \in notifying =>
            birth[p].replace = None /\ Finishing(p) = {}
       /\ pushes[p] = 0 \/ (pushes[p] = 1 /\ p \notin notifying)

LEMMA PushInit == Init => PushInv
BY IdleType DEF Init, PushInv, Finishing, Idle

(* A step that inserts, announces or pushes nothing.                       *)
LEMMA PushFrame ==
  ASSUME TypeOK, PushInv, UNCHANGED <<created, notifying, birth, pushes>>,
         \A j \in Job : job'[j].pc = "finish" => job'[j] = job[j]
  PROVE  PushInv'
BY DEF PushInv, Finishing

LEMMA QuietStep ==
  ASSUME TypeOK, [Next]_vars, ~\E j \in Job : Write(j) \/ Finish(j),
         ~\E p \in notifying : Notify(p)
  PROVE  /\ UNCHANGED <<created, notifying, birth, pushes>>
         /\ \A j \in Job : job'[j].pc = "finish" => job'[j] = job[j]
<1> USE DEF dbVars, history
<1>0. job \in [Job -> JobState]  BY DEF TypeOK
<1>1. CASE \E j \in Scheduler : Tick(j)
  <2>1. PICK j \in Scheduler : Tick(j)  BY <1>1
  <2> DEFINE sp == [cadence |-> settings.cadence, origin |-> "scheduled",
                    start |-> DuePeriod(settings, now).start,
                    end |-> DuePeriod(settings, now).end]
             v == [Idle EXCEPT !.pc = "exists", !.by = settings, !.spec = sp]
  <2>2. job' = [job EXCEPT ![j] = v]  BY <2>1 DEF Tick
  <2> HIDE DEF sp
  <2>3. v.pc # "finish"  BY DEF Idle
  <2> HIDE DEF v
  <2>4. \A k \in Job : job'[k].pc = "finish" => job'[k] = job[k]
    BY <1>0, <2>2, <2>3
  <2> QED  BY <2>1, <2>4 DEF Tick
<1>2. CASE \E j \in Request, p \in ManualPeriods, r, b \in BOOLEAN : Ask(j, p, r, b)
  <2>1. PICK j \in Request, p \in ManualPeriods, r \in BOOLEAN, b \in BOOLEAN :
          Ask(j, p, r, b)
    BY <1>2
  <2>2. PICK sp, t : job' = [job EXCEPT ![j] =
          [Idle EXCEPT !.pc = "build", !.spec = sp, !.replace = t, !.bestow = b]]
    BY <2>1 DEF Ask
  <2> DEFINE v == [Idle EXCEPT !.pc = "build", !.spec = sp, !.replace = t, !.bestow = b]
  <2>3. v.pc # "finish"  BY DEF Idle
  <2>4. job' = [job EXCEPT ![j] = v]  BY <2>2
  <2> HIDE DEF v
  <2>5. \A k \in Job : job'[k].pc = "finish" => job'[k] = job[k]
    BY <1>0, <2>3, <2>4
  <2> QED  BY <2>1, <2>5 DEF Ask
<1>3. CASE \E j \in Job : Step(j)
  <2>1. PICK j \in Job : Step(j)  BY <1>3
  <2>2. PreCheck(j) \/ CountGate(j) \/ Build(j) \/ Lock(j) \/ Check(j) \/ Abort(j)
    BY <2>1 DEF Step
  <2>3. \A pc \in {"count", "build", "lock", "check"} :
          Goto(j, pc) => \A k \in Job : job'[k].pc = "finish" => job'[k] = job[k]
    BY <1>0 DEF Goto, JobState
  <2>4. Return(j) => \A k \in Job : job'[k].pc = "finish" => job'[k] = job[k]
    BY <1>0, IdleType DEF Return
  <2>5. ASSUME Check(j), ~Return(j)
        PROVE  \A k \in Job : job'[k].pc = "finish" => job'[k] = job[k]
    <3>1. PICK d : job' = [job EXCEPT ![j].pc = "write", ![j].dup = d]
      BY <2>5 DEF Check
    <3> QED  BY <1>0, <3>1 DEF JobState
  <2> QED
    BY <2>2, <2>3, <2>4, <2>5 DEF PreCheck, CountGate, Build, Lock, Check, Abort
<1>4. CASE ~(\/ \E j \in Scheduler : Tick(j)
             \/ \E j \in Request, p \in ManualPeriods, r, b \in BOOLEAN : Ask(j, p, r, b)
             \/ \E j \in Job : Step(j))
  BY <1>4 DEF Next, vars, ChangeSettings, CheckIn, RemoveCheckIn, DeleteRecap, Pass
<1> QED  BY <1>1, <1>2, <1>3, <1>4

LEMMA PushStep == TypeOK /\ PushInv /\ [Next]_vars => PushInv'
<1> SUFFICES ASSUME TypeOK, PushInv, [Next]_vars PROVE PushInv'  OBVIOUS
<1>0. job \in [Job -> JobState] /\ created \in Nat
      /\ pushes \in [PostId -> Nat] /\ birth \in [PostId -> Birth]
  BY ConstantsAssumption DEF TypeOK
<1>1. CASE \E j \in Job : Write(j)
  <2>1. PICK j \in Job : Write(j)  BY <1>1
  <2>2. created + 1 \in PostId
    BY <2>1, ConstantsAssumption DEF Write, TypeOK, PostId
  <2>3. UNCHANGED <<notifying, pushes>>  BY <2>1 DEF Write
  <2>4. \A k \in Job : job[k].pc = "finish" => job[k].post \in 1..created
    BY DEF TypeOK
  <2>5. \A p \in PostId : p > created \/ p \in 1..created
    BY <1>0, ConstantsAssumption DEF PostId
  <2>6. /\ created' = created + 1
        /\ birth'[created + 1].replace = job[j].replace
        /\ \A q \in 1..created : birth'[q] = birth[q]
        /\ job'[j].pc = "finish" /\ job'[j].replace = job[j].replace
        /\ job'[j].post = created + 1
        /\ \A k \in Job \ {j} : job'[k] = job[k]
    BY <2>1, <2>2, WriteRow
  <2>7. /\ \A k \in Job : job'[k].pc = "finish" => birth'[job'[k].post].replace = job'[k].replace
        /\ \A i, k \in Job : i # k /\ job'[i].pc = "finish" /\ job'[k].pc = "finish"
                               => job'[i].post # job'[k].post
    BY <1>0, <2>4, <2>6 DEF PushInv
  <2>8. ASSUME NEW p \in PostId
        PROVE  /\ p > created' => pushes'[p] = 0 /\ p \notin notifying'
               /\ pushes'[p] > 0 \/ p \in notifying' =>
                    birth'[p].replace = None /\ Finishing(p)' = {}
               /\ pushes'[p] = 0 \/ (pushes'[p] = 1 /\ p \notin notifying')
    <3>1. CASE p \in 1..created  BY <1>0, <2>3, <2>6, <3>1 DEF PushInv, Finishing
    <3>2. CASE p > created  BY <1>0, <2>3, <2>6, <3>2 DEF PushInv
    <3>3. p \in 1..created \/ p > created  BY <2>5
    <3> QED  BY <3>1, <3>2, <3>3
  <2> QED  BY <2>7, <2>8 DEF PushInv
<1>2. CASE \E j \in Job : Finish(j)
  <2>1. PICK j \in Job : Finish(j)  BY <1>2
  <2> DEFINE p == job[j].post
  <2>2. job[j].pc = "finish" /\ job'[j].pc # "finish"
        /\ \A k \in Job \ {j} : job'[k] = job[k]
    BY <1>0, <2>1, IdleType DEF Finish, Return
  <2>3. p \in 1..created  BY <2>2 DEF TypeOK
  <2>4. UNCHANGED <<created, birth, pushes>>  BY <2>1 DEF Finish, history
  <2>5. CASE notifying' = notifying
    BY <2>2, <2>4, <2>5 DEF PushInv, Finishing
  <2>6. CASE notifying' # notifying
    <3>1. notifying' = notifying \cup {p} /\ job[j].replace = None
      BY <2>1, <2>6 DEF Finish, Notifies
    <3>2. birth[p].replace = None /\ \A k \in Job \ {j} : ~(job[k].pc = "finish" /\ job[k].post = p)
      BY <2>2, <3>1 DEF PushInv
    <3>3. p \in PostId => pushes[p] = 0  BY <1>0, <2>2 DEF PushInv, Finishing
    <3> QED  BY <1>0, <2>2, <2>3, <2>4, <3>1, <3>2, <3>3 DEF PushInv, Finishing
  <2> QED  BY <2>5, <2>6
<1>3. CASE \E p \in notifying : Notify(p)
  <2>1. PICK p \in notifying : Notify(p)  BY <1>3
  <2>2. UNCHANGED <<created, birth, job>> /\ notifying' = notifying \ {p}
        /\ pushes' \in {pushes, [pushes EXCEPT ![p] = @ + 1]}
    BY <2>1 DEF Notify, dbVars
  <2>3. \A q \in PostId : pushes'[q] = pushes[q]
          \/ (q = p /\ pushes'[q] = pushes[q] + 1)
    BY <1>0, <2>2
  <2> QED  BY <1>0, <2>1, <2>2, <2>3 DEF PushInv, Finishing
<1>4. CASE /\ ~\E j \in Job : Write(j) \/ Finish(j)
           /\ ~\E p \in notifying : Notify(p)
  BY <1>4, QuietStep, PushFrame
<1> QED  BY <1>1, <1>2, <1>3, <1>4

(* However jobs interleave, fail or restart, members hear of a recap post  *)
(* once at most, and never of one made to replace another.                 *)
THEOREM PushedOnce == Spec => []PushedOnceAndNeverForReplace
<1>1. Init => TypeOK /\ PushInv  BY TypeInit, PushInit
<1>2. (TypeOK /\ PushInv) /\ [Next]_vars => (TypeOK /\ PushInv)'
  BY TypeStep, PushStep
<1>3. TypeOK /\ PushInv => PushedOnceAndNeverForReplace
  BY DEF TypeOK, PushInv, PushedOnceAndNeverForReplace
<1> QED  BY <1>1, <1>2, <1>3, PTL DEF Spec

-----------------------------------------------------------------------------
(* Refinement: every behaviour of the jobs is one of the ledger.           *)

LEMMA DeletesOne ==
  ASSUME TypeOK, [Next]_vars, UNCHANGED created
  PROVE  recaps' = recaps \/ \E r \in recaps : recaps' = recaps \ {r}
<1>1. \A j \in Job : ~Write(j)
  BY ConstantsAssumption DEF TypeOK, Write
<1>2. CASE \E j \in Job : Step(j)
  BY <1>1, <1>2 DEF Step, dbVars, PreCheck, CountGate, Build, Lock, Check, Finish, Abort
<1>3. CASE ~\E j \in Job : Step(j)
  BY <1>3 DEF Next, vars, dbVars, Tick, Ask, Notify, ChangeSettings, CheckIn,
              RemoveCheckIn, DeleteRecap, Pass
<1> QED  BY <1>2, <1>3

LEMMA LedgerStep == IInv /\ [Next]_vars => [Ledger!Next]_(Ledger!ledger)
<1> SUFFICES ASSUME IInv, [Next]_vars PROVE [Ledger!Next]_(Ledger!ledger)
  OBVIOUS
<1> DEFINE replaced == IF created = 0 THEN None ELSE birth[created].replace
<1>1. TypeOK /\ RowFrame  BY Frames DEF IInv
<1>2. CASE recaps' \subseteq recaps /\ UNCHANGED <<created, birth>>
  <2>1. recaps' = recaps \/ \E r \in recaps : recaps' = recaps \ {r}
    BY <1>1, <1>2, DeletesOne
  <2>2. replaced' = replaced  BY <1>2
  <2> QED  BY <1>2, <2>1, <2>2 DEF Ledger!Next, Ledger!Delete, Ledger!ledger
<1>3. CASE \E j \in Job : Write(j) /\ created + 1 \in PostId
  <2>1. PICK j \in Job : Write(j) /\ created + 1 \in PostId  BY <1>3
  <2> DEFINE new == [post |-> created + 1, spec |-> job[j].spec]
             gone == {r \in recaps : r.post = job[j].replace}
  <2>2. /\ recaps' = {r \in recaps : r.post # job[j].replace} \cup {new}
        /\ created' = created + 1 /\ created \in Nat
        /\ birth'[created + 1].replace = job[j].replace
    BY <1>1, <2>1, WriteRow
  <2>3. replaced' = job[j].replace  BY <2>2
  <2>4. new \in recaps' \ recaps
    <3>1. \A r \in recaps : r.post <= created  BY <1>1 DEF TypeOK
    <3> QED  BY <2>2, <3>1
  <2>5. gone \subseteq {r \in recaps : SameRecap(r.spec, job[j].spec)}
    <3>1. \A r \in recaps : r.post # None  BY <1>1 DEF TypeOK, Row, PostId, None
    <3> QED  BY <3>1 DEF IInv, JobOK, RowOK
  <2>6. new = Ledger!Entry(created + 1, new.spec)  BY DEF Ledger!Entry
  <2>7. CASE {r \in recaps : SameRecap(r.spec, job[j].spec)} = {}
    <3>1. recaps' = recaps \cup {new}  BY <2>2, <2>5, <2>7
    <3>2. Ledger!Add(new.spec)
      BY <2>2, <2>6, <2>7, <3>1 DEF Ledger!Add, Ledger!Held
    <3> QED  BY <2>4, <3>2 DEF Ledger!Next
  <2>8. CASE {r \in recaps : SameRecap(r.spec, job[j].spec)} # {}
    <3>1. job[j].dup
      BY <1>1, <2>1, <2>8, WriteRow DEF IInv, CheckHolds, Duplicates
    <3>2. job[j].spec.origin = "manual" /\ job[j].replace # None
      BY <1>1, <2>1, <3>1, WriteRow DEF IInv, JobOK
    <3>3. Ledger!Replace(new.spec)
      BY <2>2, <2>3, <2>5, <2>6, <3>2 DEF Ledger!Replace, Ledger!Held, None
    <3> QED  BY <2>4, <3>3 DEF Ledger!Next
  <2> QED  BY <2>7, <2>8
<1> QED  BY <1>1, <1>2, <1>3 DEF RowFrame

(* Whatever the jobs interleave, the recaps table changes only as a ledger *)
(* that checks and inserts in one step: the code's advisory lock is worth  *)
(* an atomic CreateRecapPost.                                              *)
THEOREM ImplementsLedger == Spec => LedgerSpec
<1>1. Init => Ledger!Init  BY DEF Init, Ledger!Init, None
<1>2. IInv /\ [Next]_vars => [Ledger!Next]_(Ledger!ledger)  BY LedgerStep
<1> QED  BY <1>1, <1>2, Invariance, PTL DEF Spec, LedgerSpec, Ledger!Spec

-----------------------------------------------------------------------------
(* Weekly windows.                                                         *)
LEMMA Divides ==
  ASSUME NEW d \in Nat \ {0}, NEW x \in Int
  PROVE  /\ x \div d \in Int /\ x % d \in 0..(d - 1) /\ (x \div d) * d \in Int
         /\ x = (x \div d) * d + (x % d)
OBVIOUS

LEMMA NextMultiple ==
  ASSUME NEW d \in Nat \ {0}, NEW p \in Int, NEW q \in Int, p < q
  PROVE  p * d \in Int /\ q * d \in Int /\ p * d + d <= q * d
<1>1. (p + 1) * d <= q * d  OBVIOUS
<1>2. (p + 1) * d = p * d + d  OBVIOUS
<1>3. p * d \in Int /\ q * d \in Int /\ (p + 1) * d \in Int  OBVIOUS
<1> QED  BY <1>1, <1>2, <1>3

LEMMA DividesUniquely ==
  ASSUME NEW d \in Nat \ {0}, NEW x \in Int, NEW q \in Int, NEW r \in 0..(d - 1), x = q * d + r
  PROVE  x \div d = q
<1> DEFINE p == x \div d
           y == x % d
<1>1. p \in Int /\ y \in 0..(d - 1) /\ x = p * d + y  BY Divides
<1> HIDE DEF p, y
<1>2. ~ p < q /\ ~ q < p  BY <1>1, NextMultiple
<1>3. p = q  BY <1>1, <1>2
<1> QED  BY <1>3 DEF p

\* Where the week of a setting begins, from the first of its local hours.
WeekMark(s) == (s.weekday * HoursPerDay + s.hour) * SlotsPerHour
Aligned(s, e) == \E w \in Int : e + s.offset = w * Week + WeekMark(s)

LEMMA Units ==
  /\ SlotsPerHour \in Nat \ {0} /\ HoursPerDay \in Nat \ {0} /\ DaysPerWeek \in Nat \ {0}
  /\ SlotsPerHour * HoursPerDay \in Nat \ {0} /\ Week \in Nat \ {0}
<1>1. \A a, b \in Nat \ {0} : a * b \in Nat \ {0}  OBVIOUS
<1>2. SlotsPerHour * HoursPerDay \in Nat \ {0}  BY <1>1, ConstantsAssumption
<1> QED  BY <1>1, <1>2, ConstantsAssumption DEF Week

\* The hour and the day of the week fix the end up to whole weeks, for the
\* local day is a whole number of local hours.
LEMMA DueIsAligned ==
  ASSUME NEW s \in Setting, NEW t \in Nat, Due(s, t), s.cadence = "weekly"
  PROVE  Aligned(s, TopOfHour(s, t)) /\ TopOfHour(s, t) \in Int
<1> DEFINE x == t + s.offset
           S == SlotsPerHour
           H == HoursPerDay
           D == DaysPerWeek
           q == x \div S
           a == x % S
           k == q \div H
           w == k \div D
<1>1. x \in Int /\ s.offset \in Int /\ s.hour \in Nat /\ s.weekday \in Nat  BY DEF Setting
<1>2. S \in Nat \ {0} /\ H \in Nat \ {0} /\ D \in Nat \ {0} /\ S * H \in Nat \ {0}  BY Units
<1>3. q % H = s.hour /\ (x \div (S * H)) % D = s.weekday
  BY DEF Due, LocalHour, LocalDay, Local
<1>4. TopOfHour(s, t) = t - a  BY DEF TopOfHour, Local
<1>5. Week = S * H * D /\ WeekMark(s) = (s.weekday * H + s.hour) * S  BY DEF Week, WeekMark
<1> HIDE DEF S, H, D
<1>6. q \in Int /\ a \in 0..(S - 1) /\ q * S \in Int /\ x = q * S + a  BY <1>1, <1>2, Divides
<1> HIDE DEF q, a
<1>7. k \in Int /\ s.hour \in 0..(H - 1) /\ k * H \in Int /\ q = k * H + s.hour
  <2>1. /\ q \div H \in Int /\ q % H \in 0..(H - 1) /\ (q \div H) * H \in Int
        /\ q = (q \div H) * H + (q % H)
    BY <1>2, <1>6, Divides
  <2> QED  BY <1>3, <2>1
<1> HIDE DEF k
<1>8. x \div (S * H) = k
  <2> DEFINE r == s.hour * S + a
             d == S * H
  <2>1. r \in 0..(d - 1)
    <3>1. s.hour * S \in Nat  BY <1>1, <1>2
    <3>2. s.hour * S + S <= H * S
      BY <1>1, <1>2, <1>7, NextMultiple
    <3>3. H * S = S * H  BY <1>2
    <3> QED  BY <1>2, <1>6, <3>1, <3>2, <3>3
  <2>2. x = k * d + r
    <3>1. q * S = k * (S * H) + s.hour * S  BY <1>1, <1>2, <1>7
    <3>2. k * (S * H) \in Int /\ s.hour * S \in Int  BY <1>1, <1>2, <1>7
    <3> QED  BY <1>6, <3>1, <3>2
  <2>3. x \in Int /\ d \in Nat \ {0}  BY <1>1, <1>2
  <2> HIDE DEF r, d, x
  <2>4. x \div d = k  BY <1>7, <2>1, <2>2, <2>3, DividesUniquely
  <2> QED  BY <2>4 DEF d
<1>9. w \in Int /\ k = w * D + s.weekday
  <2>1. k % D = s.weekday  BY <1>3, <1>8
  <2> QED  BY <1>2, <1>7, <2>1, Divides
<1> HIDE DEF w
<1>10. q * S = w * Week + WeekMark(s)
  <2>1. \A i, j, l, m, n, o \in Int :
          ((m * l + n) * j + o) * i = m * (i * j * l) + (n * j + o) * i
    OBVIOUS
  <2>2. q * S = ((w * D + s.weekday) * H + s.hour) * S  BY <1>7, <1>9
  <2>3. S \in Int /\ H \in Int /\ D \in Int  BY <1>2
  <2> QED  BY <1>1, <1>5, <1>9, <2>1, <2>2, <2>3
<1>11. t - a + s.offset = q * S /\ t - a \in Int
  BY <1>1, <1>2, <1>6
<1> QED  BY <1>4, <1>9, <1>10, <1>11 DEF Aligned

(* A weekly recap's window is the week up to the mark of the settings it   *)
(* was made under, in every job and in every row; and the partial unique   *)
(* index keeps two scheduled rows of a cadence from starting together.     *)
WholeWeek(spec, by) ==
  spec.cadence = "weekly" =>
    /\ spec.origin = "scheduled" /\ spec.start = spec.end - Week /\ Aligned(by, spec.end)
JobWeeks == \A j \in Job : WholeWeek(job[j].spec, job[j].by)
RowWeeks == \A r \in recaps : WholeWeek(r.spec, birth[r.post].by)
Indexed ==
  \A a, b \in recaps :
    a # b /\ a.spec.cadence = "weekly" /\ b.spec.cadence = "weekly" => a.spec.start # b.spec.start

LEMMA WeekInit == Init => JobWeeks /\ RowWeeks /\ Indexed
BY DEF Init, JobWeeks, RowWeeks, Indexed, WholeWeek, Idle, NoSpec

LEMMA TickWeeks ==
  ASSUME TypeOK, NEW j \in Job, Tick(j)
  PROVE  WholeWeek(job'[j].spec, job'[j].by) /\ \A k \in Job \ {j} : job'[k] = job[k]
<1> DEFINE p == DuePeriod(settings, now)
           sp == [cadence |-> settings.cadence, origin |-> "scheduled", start |-> p.start, end |-> p.end]
           v == [Idle EXCEPT !.pc = "exists", !.by = settings, !.spec = sp]
<1>1. job' = [job EXCEPT ![j] = v] /\ Due(settings, now) /\ settings \in Setting /\ now \in Nat
  BY ConstantsAssumption DEF Tick, TypeOK
<1>2. v.spec = sp /\ v.by = settings  BY DEF Idle
<1>3. settings.cadence = "weekly" =>
        p.end = TopOfHour(settings, now) /\ p.start = p.end - Week
  BY DEF DuePeriod
<1>4. settings.cadence = "weekly" => Aligned(settings, TopOfHour(settings, now))
  BY <1>1, DueIsAligned
<1>5. WholeWeek(sp, settings)  BY <1>3, <1>4 DEF WholeWeek
<1> HIDE DEF v, sp
<1>6. job'[j] = v /\ \A k \in Job \ {j} : job'[k] = job[k]  BY <1>1 DEF TypeOK
<1> QED  BY <1>2, <1>5, <1>6

LEMMA AskWeeks ==
  ASSUME TypeOK, NEW j \in Job, NEW p \in ManualPeriods, NEW r \in BOOLEAN, NEW b \in BOOLEAN, Ask(j, p, r, b)
  PROVE  job'[j].spec.cadence = "custom" /\ \A k \in Job \ {j} : job'[k] = job[k]
<1> DEFINE spec == [cadence |-> "custom", origin |-> "manual", start |-> p.start, end |-> p.end]
           found == Duplicates(spec)
<1>1. PICK t \in IF found = {} THEN {None} ELSE {x.post : x \in found} :
        job' = [job EXCEPT ![j] = [Idle EXCEPT !.pc = "build", !.spec = spec,
                                     !.replace = t, !.bestow = b]]
  BY DEF Ask
<1> DEFINE v == [Idle EXCEPT !.pc = "build", !.spec = spec, !.replace = t, !.bestow = b]
<1>2. v.spec.cadence = "custom"  BY DEF Idle
<1>3. job' = [job EXCEPT ![j] = v]  BY <1>1
<1> HIDE DEF v, spec
<1>4. job'[j] = v /\ \A k \in Job \ {j} : job'[k] = job[k]  BY <1>3 DEF TypeOK
<1> QED  BY <1>2, <1>4

\* No step but a tick gives a job another window.
LEMMA JobWeeksStep == TypeOK /\ JobWeeks /\ [Next]_vars => JobWeeks'
<1> SUFFICES ASSUME TypeOK, JobWeeks, [Next]_vars PROVE JobWeeks'  OBVIOUS
<1> USE DEF dbVars, history
<1>0. /\ job \in [Job -> JobState] /\ \A j \in Job : job[j] \in JobState
      /\ WholeWeek(Idle.spec, Idle.by)
  BY DEF TypeOK, WholeWeek, Idle, NoSpec
<1>1. ASSUME NEW j \in Job, NEW v, job' = [job EXCEPT ![j] = v], WholeWeek(v.spec, v.by)
      PROVE  JobWeeks'
  BY <1>0, <1>1 DEF JobWeeks
<1>2. ASSUME NEW j \in Job, NEW pc, job' = [job EXCEPT ![j].pc = pc]
      PROVE  JobWeeks'
  <2> DEFINE v == [job[j] EXCEPT !.pc = pc]
  <2>1. job' = [job EXCEPT ![j] = v] /\ v.spec = job[j].spec /\ v.by = job[j].by
    BY <1>0, <1>2 DEF JobState
  <2> HIDE DEF v
  <2> QED  BY <1>1, <2>1 DEF JobWeeks
<1>3. ASSUME NEW j \in Scheduler, Tick(j) PROVE JobWeeks'
  BY <1>3, TickWeeks DEF Job, JobWeeks
<1>4. ASSUME NEW j \in Request, NEW p \in ManualPeriods, NEW r \in BOOLEAN, NEW b \in BOOLEAN,
             Ask(j, p, r, b)
      PROVE  JobWeeks'
  BY <1>4, AskWeeks DEF Job, JobWeeks, WholeWeek
<1>5. ASSUME NEW j \in Job, Step(j) PROVE JobWeeks'
  <2>1. CASE Return(j)
    BY <1>0, <1>1, <2>1 DEF Return
  <2>2. ASSUME NEW pc, Goto(j, pc) PROVE JobWeeks'
    BY <1>2, <2>2 DEF Goto
  <2>3. CASE Write(j)
    <3>1. job' = [job EXCEPT ![j] = Inserted(j, created + 1)]  BY <2>3 DEF Write
    <3>2. /\ Inserted(j, created + 1).spec = job[j].spec /\ Inserted(j, created + 1).by = job[j].by
      BY <1>0 DEF Inserted, JobState
    <3> QED  BY <1>1, <3>1, <3>2 DEF JobWeeks
  <2>4. CASE Check(j)
    <3> DEFINE d == Duplicates(job[j].spec) # {}
               v == [job[j] EXCEPT !.pc = "write", !.dup = d]
    <3>1. Return(j) \/ job' = [job EXCEPT ![j].pc = "write", ![j].dup = d]
      BY <2>4 DEF Check
    <3>2. CASE job' = [job EXCEPT ![j].pc = "write", ![j].dup = d]
      <4>1. job' = [job EXCEPT ![j] = v] /\ v.spec = job[j].spec /\ v.by = job[j].by
        BY <1>0, <3>2 DEF JobState
      <4> HIDE DEF v
      <4> QED  BY <1>1, <4>1 DEF JobWeeks
    <3> QED  BY <2>1, <3>1, <3>2
  <2>5. CASE PreCheck(j) \/ CountGate(j) \/ Build(j) \/ Lock(j) \/ Finish(j) \/ Abort(j)
    BY <2>1, <2>2, <2>5 DEF PreCheck, CountGate, Build, Lock, Finish, Abort
  <2> QED  BY <1>5, <2>3, <2>4, <2>5 DEF Step
<1>6. ASSUME UNCHANGED job PROVE JobWeeks'
  BY <1>6 DEF JobWeeks
<1>7. CASE \/ \E p \in notifying : Notify(p)
           \/ \E s \in Settings : ChangeSettings(s)
           \/ \E m \in Member : CheckIn(m)
           \/ \E c \in checkins : RemoveCheckIn(c)
           \/ \E r \in recaps : DeleteRecap(r)
           \/ Pass \/ UNCHANGED vars
  BY <1>6, <1>7 DEF Notify, ChangeSettings, CheckIn, RemoveCheckIn, DeleteRecap, Pass, vars
<1> QED  BY <1>3, <1>4, <1>5, <1>7 DEF Next

LEMMA RowWeeksStep ==
  TypeOK /\ JobWeeks /\ RowWeeks /\ Indexed /\ [Next]_vars => RowWeeks' /\ Indexed'
<1> SUFFICES ASSUME TypeOK, JobWeeks, RowWeeks, Indexed, [Next]_vars PROVE RowWeeks' /\ Indexed'
  OBVIOUS
<1>1. RowFrame  BY Frames
<1>2. CASE recaps' \subseteq recaps /\ UNCHANGED <<created, birth>>
  BY <1>2 DEF RowWeeks, Indexed
<1>3. CASE \E j \in Job : Write(j) /\ created + 1 \in PostId
  <2>1. PICK j \in Job : Write(j) /\ created + 1 \in PostId  BY <1>3
  <2> DEFINE new == [post |-> created + 1, spec |-> job[j].spec]
  <2>2. recaps' \subseteq recaps \cup {new}  BY <2>1, WriteRow
  <2>3. \A r \in recaps : birth'[r.post] = birth[r.post]
    BY <2>1, WriteRow DEF TypeOK, Row, PostId
  <2>4. birth'[created + 1].by = job[j].by  BY <2>1 DEF Write, TypeOK
  <2>5. new.post = created + 1 /\ new.spec = job[j].spec  OBVIOUS
  <2>6. job[j].spec.cadence = "weekly" =>
          \A r \in recaps : r.spec.cadence = "weekly" => r.spec.start # job[j].spec.start
    BY <2>1 DEF Write, IndexAllows, JobWeeks, RowWeeks, WholeWeek
  <2> HIDE DEF new
  <2>7. RowWeeks'  BY <2>2, <2>3, <2>4, <2>5 DEF RowWeeks, JobWeeks
  <2>8. Indexed'  BY <2>2, <2>5, <2>6 DEF Indexed
  <2> QED  BY <2>7, <2>8
<1> QED  BY <1>1, <1>2, <1>3 DEF RowFrame

\* Two weeks up to marks of the same settings are the same or apart.
LEMMA WeeksApart ==
  ASSUME NEW s \in Setting, NEW d \in Int, NEW e \in Int, Aligned(s, d), Aligned(s, e), d # e
  PROVE  d <= e - Week \/ e <= d - Week
<1>1. PICK v \in Int : d + s.offset = v * Week + WeekMark(s)  BY DEF Aligned
<1>2. PICK w \in Int : e + s.offset = w * Week + WeekMark(s)  BY DEF Aligned
<1>3. s.offset \in Int /\ WeekMark(s) \in Int /\ Week \in Nat \ {0}
  BY Units DEF WeekMark, Setting
<1>4. v < w => v * Week \in Int /\ w * Week \in Int /\ v * Week + Week <= w * Week
  BY <1>3, NextMultiple
<1>5. w < v => v * Week \in Int /\ w * Week \in Int /\ w * Week + Week <= v * Week
  BY <1>3, NextMultiple
<1>6. v # w  BY <1>1, <1>2, <1>3
<1> QED  BY <1>1, <1>2, <1>3, <1>4, <1>5, <1>6

(* Weekly recaps made under the same settings never cover the same moment  *)
(* (WeeklyWindowsDisjoint), for hours, days and weeks of any length and    *)
(* however late or often a tick runs in the due hour.                      *)
THEOREM WeeklyWindows == Spec => []WeeklyWindowsDisjoint
<1> DEFINE I == TypeOK /\ JobWeeks /\ RowWeeks /\ Indexed
<1>1. Init => I  BY TypeInit, WeekInit
<1>2. I /\ [Next]_vars => I'  BY TypeStep, JobWeeksStep, RowWeeksStep
<1>3. I => WeeklyWindowsDisjoint
  <2> SUFFICES ASSUME I, NEW a \in recaps, NEW b \in recaps, a # b,
                      a.spec.cadence = "weekly", b.spec.cadence = "weekly",
                      birth[a.post].by = birth[b.post].by
               PROVE  a.spec.end <= b.spec.start \/ b.spec.end <= a.spec.start
    BY DEF WeeklyWindowsDisjoint
  <2> DEFINE s == birth[a.post].by
  <2>1. s \in Setting /\ a.spec.end \in Int /\ b.spec.end \in Int
    BY DEF TypeOK, Row, RecapSpec, Birth
  <2>2. /\ a.spec.start = a.spec.end - Week /\ b.spec.start = b.spec.end - Week
        /\ Aligned(s, a.spec.end) /\ Aligned(s, b.spec.end) /\ a.spec.start # b.spec.start
    BY DEF RowWeeks, Indexed, WholeWeek
  <2> HIDE DEF s
  <2>3. a.spec.end # b.spec.end  BY <2>2
  <2> QED  BY <2>1, <2>2, <2>3, WeeksApart
<1> QED  BY <1>1, <1>2, <1>3, PTL DEF Spec
=============================================================================
