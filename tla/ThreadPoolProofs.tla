-------------------------- MODULE ThreadPoolProofs --------------------------
(***************************************************************************)
(* Proofs about ThreadPool for every set of threads, clients and tasks and *)
(* every bound on the clock.                                               *)
(***************************************************************************)
EXTENDS ThreadPool, FiniteSetTheorems, TLAPS

\* The thread th goes round the loop of Next, with have_sleeper_ = hs and
\* num_inflight_ = n when it reaches the loop's body: what EnterNext, CvReturns
\* and SleeperReturns have in common.
Round(th, hs, n) ==
    /\ \/ pc[th] = "enter" /\ hs = haveSleeper /\ n = numInflight - 1
       \/ pc[th] = "cvAwake" /\ hs = haveSleeper /\ n = numInflight
       \/ pc[th] = "sleeperAwake" /\ hs = FALSE /\ n = numInflight
    /\ Body(th, hs, n)

\* Every step of a thread through Next is a round, and notifies idle_cv_ only
\* on entry with nothing queued and nothing in flight.
LEMMA StepIsRound ==
  ASSUME NEW th \in Threads, EnterNext(th) \/ CvReturns(th) \/ SleeperReturns(th)
  PROVE  \E hs \in {haveSleeper, FALSE}, n \in {numInflight, numInflight - 1} :
            /\ Round(th, hs, n)
            /\ waiting' = IF work = {} /\ n = 0 /\ pc[th] = "enter"
                          THEN [c \in Clients |-> IF waiting[c] = "parked" THEN "woken"
                                                  ELSE waiting[c]]
                          ELSE waiting
<1>1. CASE EnterNext(th)
  <2>1. Round(th, haveSleeper, numInflight - 1)
    BY <1>1 DEF EnterNext, Round
  <2>2. QED
    BY <1>1, <2>1 DEF EnterNext, NotifyIdle
<1>2. CASE CvReturns(th)
  <2>1. Round(th, haveSleeper, numInflight)
    BY <1>2 DEF CvReturns, Round
  <2>2. QED
    BY <1>2, <2>1 DEF CvReturns
<1>3. CASE SleeperReturns(th)
  <2>1. Round(th, FALSE, numInflight)
    BY <1>3 DEF SleeperReturns, Round, AfterSleep
  <2>2. QED
    BY <1>3, <2>1 DEF SleeperReturns
<1>4. QED
  BY <1>1, <1>2, <1>3

-----------------------------------------------------------------------------
LEMMA TypeInit == Init => Typed
<1>1. Cardinality(Threads) \in Nat
  BY PoolAssumption, FS_CardinalityType
<1>2. ASSUME Init
      PROVE  Typed
  <2>1. /\ pc \in [Threads -> Places]
        /\ running \in [Threads -> Tasks \cup {NoTask}]
        /\ wake \in [Callers -> {"none", "cv", "sleeper"}]
        /\ waiting \in [Clients -> {"no", "parked", "woken"}]
    BY <1>2 DEF Init, Places
  <2>2. /\ due \in [Tasks -> Nat]
        /\ idx \in [Tasks -> Nat]
    BY <1>2 DEF Init
  <2>3. numInflight \in Int
    BY <1>1, <1>2 DEF Init
  <2>4. now \in Nat /\ work \in SUBSET Tasks /\ lastIdx \in Nat /\ deadline \in Nat
    BY <1>2 DEF Init
  <2>5. exit \in BOOLEAN /\ haveSleeper \in BOOLEAN
    BY <1>2 DEF Init
  <2>6. dtor \in {"alive", "notifyCv", "notifySleeper", "join", "joined"}
    BY <1>2 DEF Init
  <2>7. QED
    BY <2>1, <2>2, <2>3, <2>4, <2>5, <2>6 DEF Typed
<1>3. QED
  BY <1>2

LEMMA TypeStep == Typed /\ [Next]_vars => Typed'
<1> SUFFICES ASSUME Typed, [Next]_vars PROVE Typed'
  OBVIOUS
<1>1. ASSUME NEW c \in Callers, NEW k \in Tasks, NEW t \in Times, Schedule(c, k, t)
      PROVE  Typed'
  BY <1>1, PoolAssumption DEF Schedule, ScheduleWake, Typed, Times
<1>2. ASSUME NEW c \in Callers, Notify(c)
      PROVE  Typed'
  <2>1. CASE NotifyCv(c)
    BY <2>1 DEF NotifyCv, Typed, Places
  <2>2. CASE NotifySleeper(c)
    BY <2>2 DEF NotifySleeper, Typed, Places
  <2>3. QED
    BY <1>2, <2>1, <2>2 DEF Notify
<1>3. ASSUME NEW th \in Threads, EnterNext(th) \/ CvReturns(th) \/ SleeperReturns(th)
      PROVE  Typed'
  <2>1. PICK hs \in {haveSleeper, FALSE}, n \in {numInflight, numInflight - 1} :
          /\ Round(th, hs, n)
          /\ waiting' = IF work = {} /\ n = 0 /\ pc[th] = "enter"
                        THEN [c \in Clients |-> IF waiting[c] = "parked" THEN "woken"
                                                ELSE waiting[c]]
                        ELSE waiting
    BY <1>3, StepIsRound
  <2>2. waiting' \in [Clients -> {"no", "parked", "woken"}]
    BY <2>1 DEF Typed
  <2>2a. hs \in BOOLEAN
    BY DEF Typed
  <2>2b. n \in Int
    BY DEF Typed
  <2>3. th \in Callers /\ hs \in BOOLEAN /\ n \in Int
    BY <2>2a, <2>2b DEF Callers
  <2>4. CASE Leave(th, hs, n)
    BY <2>1, <2>2, <2>3, <2>4 DEF Round, Body, Leave, Typed, Places
  <2>5. CASE ParkEmpty(th, hs, n)
    BY <2>1, <2>2, <2>3, <2>5 DEF Round, Body, ParkEmpty, Park, Typed, Places
  <2>6. CASE ParkBehindSleeper(th, hs, n)
    BY <2>1, <2>2, <2>3, <2>6 DEF Round, Body, ParkBehindSleeper, Park, Typed, Places
  <2>7. CASE Sleep(th, hs, n)
    BY <2>1, <2>2, <2>3, <2>7 DEF Round, Body, Sleep, Typed, Places
  <2>8. CASE Take(th, hs, n)
    BY <2>1, <2>2, <2>3, <2>8 DEF Round, Body, Take, TakenInflight, Typed, Places
  <2>9. QED
    BY <2>1, <2>4, <2>5, <2>6, <2>7, <2>8 DEF Round, Body
<1>4. ASSUME NEW th \in Threads, SleeperTimesOut(th) \/ SpuriousWake(th) \/ Finish(th)
      PROVE  Typed'
  BY <1>4 DEF SleeperTimesOut, SpuriousWake, Finish, Typed, Places
<1>5. ASSUME NEW c \in Clients, WaitCall(c) \/ WaitWakes(c) \/ WaitSpurious(c)
      PROVE  Typed'
  BY <1>5 DEF WaitCall, WaitWakes, WaitSpurious, Typed
<1>6. CASE DtorExit \/ Dtor
  BY <1>6 DEF DtorExit, Dtor, DtorNotifyCv, DtorNotifySleeper, DtorJoin, Typed, Places
<1>7. CASE Tick
  BY <1>7 DEF Tick, Typed
<1>8. CASE UNCHANGED vars
  BY <1>8 DEF vars, Typed
<1>9. QED
  BY <1>1, <1>2, <1>3, <1>4, <1>5, <1>6, <1>7, <1>8 DEF Next, ThreadStep

-----------------------------------------------------------------------------
(***************************************************************************)
(* The invariant.  SingleSleeper and InflightExact are the pool's two      *)
(* counters; the two conjuncts below tie a thread's place to what it runs  *)
(* and to the notification it owes; SleeperCovers and HandedOver say who   *)
(* answers for the queue.  HandedOver is what NoLostWakeup needs and is    *)
(* not inductive alone: a thread that takes a task while another sleeps    *)
(* hands nothing over, and relies on the sleeper not to oversleep.         *)
(***************************************************************************)
Owes ==
    /\ \A th \in Threads : running[th] # NoTask <=> pc[th] = "run"
    /\ \A th \in Threads : wake[th] # "none" => pc[th] = "run"

\* A thread that owes a notification has taken a task, and only such a thread
\* runs one.
LEMMA OwesStep == Typed /\ Owes /\ [Next]_vars => Owes'
<1> SUFFICES ASSUME Typed, Owes, [Next]_vars PROVE Owes'
  OBVIOUS
<1>0. \A th \in Threads : th \in Callers
  BY DEF Callers
<1>1. ASSUME NEW c \in Callers, NEW k \in Tasks, NEW t \in Times, Schedule(c, k, t)
      PROVE  Owes'
  BY <1>0, <1>1 DEF Schedule, Free, ScheduleWake, Typed, Owes
<1>2. ASSUME NEW c \in Callers, Notify(c)
      PROVE  Owes'
  BY <1>0, <1>2 DEF Notify, NotifyCv, NotifySleeper, Typed, Owes
<1>3. ASSUME NEW th \in Threads, EnterNext(th) \/ CvReturns(th) \/ SleeperReturns(th)
      PROVE  Owes'
  <2>1. PICK hs \in {haveSleeper, FALSE}, n \in {numInflight, numInflight - 1} :
          Round(th, hs, n)
    BY <1>3, StepIsRound
  <2>2. pc[th] # "run" /\ running[th] = NoTask /\ wake[th] = "none"
    BY <1>0, <2>1 DEF Round, Typed, Owes
  <2>3. CASE Leave(th, hs, n)
    BY <2>2, <2>3 DEF Leave, Typed, Owes
  <2>4. CASE ParkEmpty(th, hs, n) \/ ParkBehindSleeper(th, hs, n)
    BY <2>2, <2>4 DEF ParkEmpty, ParkBehindSleeper, Park, Typed, Owes
  <2>5. CASE Sleep(th, hs, n)
    BY <2>2, <2>5 DEF Sleep, Typed, Owes
  <2>6. CASE Take(th, hs, n)
    BY <1>0, <2>2, <2>6, PoolAssumption DEF Take, Typed, Owes
  <2>7. QED
    BY <2>1, <2>3, <2>4, <2>5, <2>6 DEF Round, Body
<1>4. ASSUME NEW th \in Threads, SleeperTimesOut(th) \/ SpuriousWake(th) \/ Finish(th)
      PROVE  Owes'
  BY <1>0, <1>4 DEF SleeperTimesOut, SpuriousWake, Finish, Typed, Owes
<1>5. ASSUME NEW c \in Clients, WaitCall(c) \/ WaitWakes(c) \/ WaitSpurious(c)
      PROVE  Owes'
  BY <1>5 DEF WaitCall, WaitWakes, WaitSpurious, Owes
<1>6. CASE DtorExit \/ Dtor
  BY <1>6 DEF DtorExit, Dtor, DtorNotifyCv, DtorNotifySleeper, DtorWakes, DtorJoin, Typed, Owes
<1>7. CASE Tick
  BY <1>7 DEF Tick, Owes
<1>8. CASE UNCHANGED vars
  BY <1>8 DEF vars, Owes
<1>9. QED
  BY <1>1, <1>2, <1>3, <1>4, <1>5, <1>6, <1>7, <1>8 DEF Next, ThreadStep

\* have_sleeper_ tells the truth about the one thread that may sleep.
LEMMA SleeperStep == Typed /\ SingleSleeper /\ [Next]_vars => SingleSleeper'
<1> SUFFICES ASSUME Typed, SingleSleeper, [Next]_vars PROVE SingleSleeper'
  OBVIOUS
<1>1. ASSUME NEW c \in Callers, NEW k \in Tasks, NEW t \in Times, Schedule(c, k, t)
      PROVE  SingleSleeper'
  BY <1>1 DEF Schedule, SingleSleeper
<1>2. ASSUME NEW c \in Callers, Notify(c)
      PROVE  SingleSleeper'
  BY <1>2 DEF Notify, NotifyCv, NotifySleeper, Typed, SingleSleeper
<1>3. ASSUME NEW th \in Threads, EnterNext(th) \/ CvReturns(th) \/ SleeperReturns(th)
      PROVE  SingleSleeper'
  <2>1. PICK hs \in {haveSleeper, FALSE}, n \in {numInflight, numInflight - 1} :
          Round(th, hs, n)
    BY <1>3, StepIsRound
  <2>2. hs = \E o \in Threads \ {th} : pc[o] \in {"sleeper", "sleeperAwake"}
    BY <2>1 DEF Round, Typed, SingleSleeper
  <2>3. CASE Leave(th, hs, n)
    BY <2>2, <2>3 DEF Leave, Typed, SingleSleeper
  <2>4. CASE Park(th, hs, n)
    BY <2>2, <2>4 DEF Park, Typed, SingleSleeper
  <2>5. CASE Sleep(th, hs, n)
    BY <2>2, <2>5 DEF Sleep, Typed, SingleSleeper
  <2>6. CASE Take(th, hs, n)
    BY <2>2, <2>6 DEF Take, Typed, SingleSleeper
  <2>7. QED
    BY <2>1, <2>3, <2>4, <2>5, <2>6 DEF Round, Body, ParkEmpty, ParkBehindSleeper
<1>4. ASSUME NEW th \in Threads, SleeperTimesOut(th) \/ SpuriousWake(th) \/ Finish(th)
      PROVE  SingleSleeper'
  BY <1>4 DEF SleeperTimesOut, SpuriousWake, Finish, Typed, SingleSleeper
<1>5. ASSUME NEW c \in Clients, WaitCall(c) \/ WaitWakes(c) \/ WaitSpurious(c)
      PROVE  SingleSleeper'
  BY <1>5 DEF WaitCall, WaitWakes, WaitSpurious, SingleSleeper
<1>6. CASE DtorExit \/ Dtor
  BY <1>6 DEF DtorExit, Dtor, DtorNotifyCv, DtorNotifySleeper, DtorWakes, DtorJoin,
              Typed, SingleSleeper
<1>7. CASE Tick
  BY <1>7 DEF Tick, SingleSleeper
<1>8. CASE UNCHANGED vars
  BY <1>8 DEF vars, SingleSleeper
<1>9. QED
  BY <1>1, <1>2, <1>3, <1>4, <1>5, <1>6, <1>7, <1>8 DEF Next, ThreadStep
\* The threads num_inflight_ counts.
InFlight == {th \in Threads : pc[th] \in {"enter", "run"}}

\* The set of threads in flight is finite, and so is what it becomes.
LEMMA InFlightFinite == IsFiniteSet(InFlight) /\ Cardinality(InFlight) \in Nat
<1>1. InFlight \in SUBSET Threads
  BY DEF InFlight
<1>2. IsFiniteSet(InFlight)
  BY <1>1, PoolAssumption, FS_Subset
<1>3. QED
  BY <1>2, FS_CardinalityType

\* When a thread reaches the loop's body, n counts the other threads in flight.
LEMMA RoundCount ==
  ASSUME Typed, InflightExact, NEW th \in Threads, NEW hs, NEW n, Round(th, hs, n)
  PROVE  /\ n = Cardinality(InFlight \ {th})
         /\ n \in Nat
         /\ IsFiniteSet(InFlight \ {th})
<1>1. Cardinality(InFlight \ {th}) =
         IF th \in InFlight THEN Cardinality(InFlight) - 1 ELSE Cardinality(InFlight)
  BY InFlightFinite, FS_RemoveElement
<1>2. numInflight = Cardinality(InFlight)
  BY DEF InflightExact, InFlight
<1>3. IsFiniteSet(InFlight \ {th})
  BY InFlightFinite, FS_RemoveElement
<1>4. Cardinality(InFlight \ {th}) \in Nat
  BY <1>3, FS_CardinalityType
<1>5. CASE pc[th] = "enter" /\ n = numInflight - 1
  <2>1. th \in InFlight
    BY <1>5 DEF InFlight
  <2>2. QED
    BY <1>1, <1>2, <1>3, <1>4, <1>5, <2>1
<1>6. CASE pc[th] \in {"cvAwake", "sleeperAwake"} /\ n = numInflight
  <2>1. th \notin InFlight
    BY <1>6 DEF InFlight
  <2>2. QED
    BY <1>1, <1>2, <1>3, <1>4, <1>6, <2>1
<1>7. QED
  BY <1>5, <1>6 DEF Round

\* num_inflight_ stays exact.
LEMMA InflightStep == Typed /\ InflightExact /\ [Next]_vars => InflightExact'
<1> SUFFICES ASSUME Typed, InflightExact, [Next]_vars PROVE InflightExact'
  OBVIOUS
<1>0. /\ numInflight = Cardinality(InFlight)
      /\ InflightExact' <=> numInflight' = Cardinality(InFlight')
  BY DEF InflightExact, InFlight
<1>same. ASSUME InFlight' = InFlight, numInflight' = numInflight
      PROVE  InflightExact'
  BY <1>0, <1>same
<1>1. ASSUME NEW c \in Callers, NEW k \in Tasks, NEW t \in Times, Schedule(c, k, t)
      PROVE  InflightExact'
  BY <1>1, <1>same DEF Schedule, InFlight
<1>2. ASSUME NEW c \in Callers, Notify(c)
      PROVE  InflightExact'
  BY <1>2, <1>same DEF Notify, NotifyCv, NotifySleeper, Typed, InFlight
<1>3. ASSUME NEW th \in Threads, EnterNext(th) \/ CvReturns(th) \/ SleeperReturns(th)
      PROVE  InflightExact'
  <2>1. PICK hs \in {haveSleeper, FALSE}, n \in {numInflight, numInflight - 1} :
          Round(th, hs, n)
    BY <1>3, StepIsRound
  <2>2. n = Cardinality(InFlight \ {th}) /\ n \in Nat /\ IsFiniteSet(InFlight \ {th})
    BY <2>1, RoundCount
  <2>3. CASE \E place \in {"gone", "cv", "sleeper"} :
               pc' = [pc EXCEPT ![th] = place] /\ numInflight' = n
    <3>1. InFlight' = InFlight \ {th}
      BY <2>3 DEF Typed, InFlight
    <3>2. QED
      BY <1>0, <2>2, <2>3, <3>1
  <2>4. CASE Take(th, hs, n)
    <3>1. InFlight' = (InFlight \ {th}) \cup {th}
      BY <2>4 DEF Take, Typed, InFlight
    <3>2. Cardinality(InFlight') = n + 1
      BY <2>2, <3>1, FS_AddElement
    <3>3. QED
      BY <1>0, <2>4, <3>2 DEF Take, TakenInflight
  <2>5. QED
    BY <2>1, <2>3, <2>4
    DEF Round, Body, Leave, ParkEmpty, ParkBehindSleeper, Park, Sleep
<1>4. ASSUME NEW th \in Threads, SleeperTimesOut(th) \/ SpuriousWake(th) \/ Finish(th)
      PROVE  InflightExact'
  BY <1>4, <1>same DEF SleeperTimesOut, SpuriousWake, Finish, Typed, InFlight
<1>5. ASSUME NEW c \in Clients, WaitCall(c) \/ WaitWakes(c) \/ WaitSpurious(c)
      PROVE  InflightExact'
  BY <1>5, <1>same DEF WaitCall, WaitWakes, WaitSpurious, InFlight
<1>6. CASE DtorExit \/ Dtor
  BY <1>6, <1>same DEF DtorExit, Dtor, DtorNotifyCv, DtorNotifySleeper, DtorWakes, DtorJoin,
                    Typed, InFlight
<1>7. CASE Tick
  BY <1>7, <1>same DEF Tick, InFlight
<1>8. CASE UNCHANGED vars
  BY <1>8, <1>same DEF vars, InFlight
<1>9. QED
  BY <1>1, <1>2, <1>3, <1>4, <1>5, <1>6, <1>7, <1>8 DEF Next, ThreadStep
\* The sleeper does not oversleep.
LEMMA CoversStep ==
  Typed /\ Owes /\ SingleSleeper /\ SleeperCovers /\ [Next]_vars => SleeperCovers'
<1> SUFFICES ASSUME Typed, Owes, SingleSleeper, SleeperCovers, [Next]_vars
             PROVE  SleeperCovers'
  OBVIOUS
<1>0. \A th \in Threads : th \in Callers
  BY DEF Callers
<1>same. ASSUME UNCHANGED <<work, due, deadline, wake>>,
                \A th \in Threads : pc'[th] = "sleeper" => pc[th] = "sleeper"
         PROVE  SleeperCovers'
  BY <1>same DEF SleeperCovers
<1>1. ASSUME NEW c \in Callers, NEW k \in Tasks, NEW t \in Times, Schedule(c, k, t)
      PROVE  SleeperCovers'
  <2>1. SUFFICES ASSUME NEW th \in Threads, pc'[th] = "sleeper"
                 PROVE  \/ \A j \in work' : deadline' <= due'[j]
                        \/ \E o \in Callers : wake'[o] = "sleeper"
    BY DEF SleeperCovers
  <2>2. pc[th] = "sleeper" /\ haveSleeper /\ deadline' = deadline
    BY <1>1, <2>1 DEF Schedule, SingleSleeper
  <2>3. CASE IsTop(work', due', idx', k)
    BY <1>1, <2>2, <2>3 DEF Schedule, ScheduleWake, Typed
  <2>4. CASE ~IsTop(work', due', idx', k) /\ \E o \in Callers : wake[o] = "sleeper"
    BY <1>1, <2>4 DEF Schedule
  <2>5. CASE /\ ~IsTop(work', due', idx', k)
             /\ \A j \in work : deadline <= due[j]
    <3>1. PICK j \in work' \ {k} : ~Before(due', idx', k, j)
      BY <1>1, <2>5 DEF IsTop, Schedule
    <3>2. j \in work /\ j \in Tasks /\ due'[j] = due[j] /\ due'[k] = t /\ t \in Nat
      BY <1>1, <3>1, PoolAssumption DEF Schedule, Typed, Times
    <3>3. due[j] <= t
      BY <3>1, <3>2 DEF Before, Typed
    <3>4. deadline <= t
      BY <2>5, <3>2, <3>3 DEF Typed
    <3>5. \A i \in work' : deadline' <= due'[i]
      BY <1>1, <2>2, <2>5, <3>2, <3>4 DEF Schedule, Typed
    <3>6. QED
      BY <3>5
  <2>6. QED
    BY <2>2, <2>3, <2>4, <2>5 DEF SleeperCovers
<1>2. ASSUME NEW c \in Callers, Notify(c)
      PROVE  SleeperCovers'
  <2>1. CASE NotifyCv(c)
    BY <2>1 DEF NotifyCv, Typed, SleeperCovers
  <2>2. CASE NotifySleeper(c)
    <3>1. \A th \in Threads : pc'[th] # "sleeper"
      BY <2>2 DEF NotifySleeper, Typed, SingleSleeper
    <3>2. QED
      BY <3>1 DEF SleeperCovers
  <2>3. QED
    BY <1>2, <2>1, <2>2 DEF Notify
<1>3. ASSUME NEW th \in Threads, EnterNext(th) \/ CvReturns(th) \/ SleeperReturns(th)
      PROVE  SleeperCovers'
  <2>1. PICK hs \in {haveSleeper, FALSE}, n \in {numInflight, numInflight - 1} :
          Round(th, hs, n)
    BY <1>3, StepIsRound
  <2>2. hs = \E o \in Threads \ {th} : pc[o] \in {"sleeper", "sleeperAwake"}
    BY <2>1 DEF Round, Typed, SingleSleeper
  <2>3. due' = due /\ wake[th] = "none"
    BY <1>0, <2>1 DEF Round, Body, Typed, Owes
  <2>4. CASE Leave(th, hs, n) \/ ParkEmpty(th, hs, n) \/ ParkBehindSleeper(th, hs, n)
    BY <1>same, <2>3, <2>4 DEF Leave, ParkEmpty, ParkBehindSleeper, Park, Typed
  <2>5. CASE Sleep(th, hs, n)
    <3>1. PICK k \in work : IsTop(work, due, idx, k) /\ deadline' = due[k]
      BY <2>5 DEF Sleep
    <3>2. \A j \in work : due[k] <= due[j]
      BY <3>1 DEF IsTop, Before, Typed
    <3>3. QED
      BY <2>3, <2>5, <3>1, <3>2 DEF Sleep, SleeperCovers
  <2>6. CASE Take(th, hs, n)
    <3>1. work' \subseteq work /\ deadline' = deadline
      BY <2>6 DEF Take
    <3>2. \A o \in Threads : pc'[o] = "sleeper" => pc[o] = "sleeper"
      BY <2>6 DEF Take, Typed
    <3>3. \A o \in Callers : wake[o] = "sleeper" => wake'[o] = "sleeper"
      BY <2>3, <2>6 DEF Take, Typed
    <3>4. QED
      BY <2>3, <3>1, <3>2, <3>3 DEF SleeperCovers
  <2>7. QED
    BY <2>1, <2>4, <2>5, <2>6 DEF Round, Body
<1>4. ASSUME NEW th \in Threads, SleeperTimesOut(th) \/ SpuriousWake(th) \/ Finish(th)
      PROVE  SleeperCovers'
  BY <1>4, <1>same DEF SleeperTimesOut, SpuriousWake, Finish, Typed
<1>5. ASSUME NEW c \in Clients, WaitCall(c) \/ WaitWakes(c) \/ WaitSpurious(c)
      PROVE  SleeperCovers'
  BY <1>5, <1>same DEF WaitCall, WaitWakes, WaitSpurious
<1>6. CASE DtorExit \/ Dtor
  BY <1>6, <1>same DEF DtorExit, Dtor, DtorNotifyCv, DtorNotifySleeper, DtorWakes, DtorJoin,
                       Typed
<1>7. CASE Tick
  BY <1>7, <1>same DEF Tick
<1>8. CASE UNCHANGED vars
  BY <1>8, <1>same DEF vars
<1>9. QED
  BY <1>1, <1>2, <1>3, <1>4, <1>5, <1>6, <1>7, <1>8 DEF Next, ThreadStep
\* The queue is always answered for.
LEMMA HandedStep == Typed /\ Owes /\ HandedOver /\ [Next]_vars => HandedOver'
<1> SUFFICES ASSUME Typed, Owes, HandedOver, [Next]_vars
             PROVE  HandedOver'
  OBVIOUS
<1>0. \A th \in Threads : th \in Callers
  BY DEF Callers
<1>same. ASSUME UNCHANGED <<work, exit, wake, haveSleeper>>,
                \A th \in Threads :
                   /\ pc'[th] = "cv" => pc[th] = "cv"
                   /\ pc[th] \in {"enter", "cvAwake", "sleeperAwake"} => pc'[th] = pc[th]
         PROVE  HandedOver'
  BY <1>same DEF HandedOver, SomebodyComes
<1>1. ASSUME NEW c \in Callers, NEW k \in Tasks, NEW t \in Times, Schedule(c, k, t)
      PROVE  HandedOver'
  <2>1. CASE IsTop(work', due', idx', k)
    BY <1>1, <2>1 DEF Schedule, ScheduleWake, Typed, HandedOver, SomebodyComes
  <2>2. CASE ~IsTop(work', due', idx', k)
    <3>1. work # {}
      BY <1>1, <2>2 DEF IsTop, Schedule
    <3>2. QED
      BY <1>1, <2>2, <3>1 DEF Schedule, HandedOver, SomebodyComes
  <2>3. QED
    BY <2>1, <2>2
<1>2. ASSUME NEW c \in Callers, Notify(c)
      PROVE  HandedOver'
  <2>1. CASE NotifyCv(c)
    BY <2>1 DEF NotifyCv, Typed, HandedOver, SomebodyComes
  <2>2. CASE NotifySleeper(c)
    <3>1. \A o \in Callers : wake[o] = "cv" => wake'[o] = "cv"
      BY <2>2 DEF NotifySleeper, Typed
    <3>2. \A th \in Threads :
            /\ pc'[th] = "cv" => pc[th] = "cv"
            /\ pc[th] \in {"enter", "cvAwake", "sleeperAwake"} => pc'[th] = pc[th]
      BY <2>2 DEF NotifySleeper, Typed
    <3>3. QED
      BY <2>2, <3>1, <3>2 DEF NotifySleeper, HandedOver, SomebodyComes
  <2>3. QED
    BY <1>2, <2>1, <2>2 DEF Notify
<1>3. ASSUME NEW th \in Threads, EnterNext(th) \/ CvReturns(th) \/ SleeperReturns(th)
      PROVE  HandedOver'
  <2>1. PICK hs \in {haveSleeper, FALSE}, n \in {numInflight, numInflight - 1} :
          Round(th, hs, n)
    BY <1>3, StepIsRound
  <2>2. exit' = exit
    BY <2>1 DEF Round, Body
  <2>3. CASE Leave(th, hs, n)
    BY <2>2, <2>3 DEF Leave, HandedOver
  <2>4. CASE ParkEmpty(th, hs, n)
    BY <2>4 DEF ParkEmpty, Park, HandedOver
  <2>5. CASE ParkBehindSleeper(th, hs, n)
    BY <2>5 DEF ParkBehindSleeper, Park, HandedOver, SomebodyComes
  <2>6. CASE Sleep(th, hs, n)
    BY <2>6 DEF Sleep, HandedOver, SomebodyComes
  <2>7. CASE Take(th, hs, n)
    BY <1>0, <2>7 DEF Take, HandsOver, Typed, HandedOver, SomebodyComes
  <2>8. QED
    BY <2>1, <2>3, <2>4, <2>5, <2>6, <2>7 DEF Round, Body
<1>4. ASSUME NEW th \in Threads, SleeperTimesOut(th) \/ SpuriousWake(th) \/ Finish(th)
      PROVE  HandedOver'
  BY <1>4, <1>same DEF SleeperTimesOut, SpuriousWake, Finish, Typed
<1>5. ASSUME NEW c \in Clients, WaitCall(c) \/ WaitWakes(c) \/ WaitSpurious(c)
      PROVE  HandedOver'
  BY <1>5, <1>same DEF WaitCall, WaitWakes, WaitSpurious
<1>6. CASE DtorExit
  BY <1>6 DEF DtorExit, HandedOver
<1>7. CASE Dtor
  BY <1>7, <1>same DEF Dtor, DtorNotifyCv, DtorNotifySleeper, DtorWakes, DtorJoin, Typed
<1>8. CASE Tick
  BY <1>8, <1>same DEF Tick
<1>9. CASE UNCHANGED vars
  BY <1>9, <1>same DEF vars
<1>10. QED
  BY <1>1, <1>2, <1>3, <1>4, <1>5, <1>6, <1>7, <1>8, <1>9 DEF Next, ThreadStep

\* The last thread to go idle wakes the clients in Wait().
LEMMA WaiterStep ==
  Typed /\ InflightExact /\ WaiterNotForgotten /\ [Next]_vars => WaiterNotForgotten'
<1> SUFFICES ASSUME Typed, InflightExact, WaiterNotForgotten, [Next]_vars
             PROVE  WaiterNotForgotten'
  OBVIOUS
<1>same. ASSUME UNCHANGED <<work, numInflight>>,
                \A c \in Clients : waiting'[c] = "parked" => waiting[c] = "parked" \/ ~Idle
         PROVE  WaiterNotForgotten'
  BY <1>same DEF WaiterNotForgotten, Idle
<1>1. ASSUME NEW c \in Callers, NEW k \in Tasks, NEW t \in Times, Schedule(c, k, t)
      PROVE  WaiterNotForgotten'
  BY <1>1 DEF Schedule, WaiterNotForgotten, Idle
<1>2. ASSUME NEW c \in Callers, Notify(c)
      PROVE  WaiterNotForgotten'
  BY <1>2, <1>same DEF Notify, NotifyCv, NotifySleeper
<1>3. ASSUME NEW th \in Threads, EnterNext(th) \/ CvReturns(th) \/ SleeperReturns(th)
      PROVE  WaiterNotForgotten'
  <2>1. PICK hs \in {haveSleeper, FALSE}, n \in {numInflight, numInflight - 1} :
          /\ Round(th, hs, n)
          /\ waiting' = IF work = {} /\ n = 0 /\ pc[th] = "enter"
                        THEN [c \in Clients |-> IF waiting[c] = "parked" THEN "woken"
                                                ELSE waiting[c]]
                        ELSE waiting
    BY <1>3, StepIsRound
  <2>2. n \in Nat
    BY <2>1, RoundCount
  <2>3. CASE work' = work /\ numInflight' = n
    <3>1. CASE work = {} /\ n = 0 /\ pc[th] = "enter"
      BY <2>1, <3>1 DEF WaiterNotForgotten, Typed
    <3>2. CASE work = {} /\ n = 0 /\ pc[th] # "enter"
      BY <2>1, <3>2 DEF Round, WaiterNotForgotten, Idle
    <3>3. CASE ~(work = {} /\ n = 0)
      BY <2>3, <3>3 DEF WaiterNotForgotten, Idle
    <3>4. QED
      BY <3>1, <3>2, <3>3
  <2>4. CASE Take(th, hs, n)
    BY <2>2, <2>4 DEF Take, TakenInflight, WaiterNotForgotten, Idle
  <2>5. QED
    BY <2>1, <2>3, <2>4
    DEF Round, Body, Leave, ParkEmpty, ParkBehindSleeper, Park, Sleep
<1>4. ASSUME NEW th \in Threads, SleeperTimesOut(th) \/ SpuriousWake(th) \/ Finish(th)
      PROVE  WaiterNotForgotten'
  BY <1>4, <1>same DEF SleeperTimesOut, SpuriousWake, Finish
<1>5. ASSUME NEW c \in Clients, WaitCall(c) \/ WaitWakes(c) \/ WaitSpurious(c)
      PROVE  WaiterNotForgotten'
  BY <1>5, <1>same DEF WaitCall, WaitWakes, WaitSpurious, Typed
<1>6. CASE DtorExit \/ Dtor
  BY <1>6, <1>same DEF DtorExit, Dtor, DtorNotifyCv, DtorNotifySleeper, DtorJoin
<1>7. CASE Tick
  BY <1>7, <1>same DEF Tick
<1>8. CASE UNCHANGED vars
  BY <1>8, <1>same DEF vars
<1>9. QED
  BY <1>1, <1>2, <1>3, <1>4, <1>5, <1>6, <1>7, <1>8 DEF Next, ThreadStep
-----------------------------------------------------------------------------
\* A queued task has its index; no index exceeds last_idx_.
Indexed ==
    /\ \A k \in work : idx[k] # 0
    /\ \A k \in Tasks : idx[k] <= lastIdx

LEMMA IndexedStep == Typed /\ Indexed /\ [Next]_vars => Indexed'
<1> SUFFICES ASSUME Typed, Indexed, [Next]_vars PROVE Indexed'
  OBVIOUS
<1>1. ASSUME NEW c \in Callers, NEW k \in Tasks, NEW t \in Times, Schedule(c, k, t)
      PROVE  Indexed'
  BY <1>1 DEF Schedule, Typed, Indexed
<1>2. ASSUME UNCHANGED <<idx, lastIdx>>, work' \subseteq work
      PROVE  Indexed'
  BY <1>2 DEF Indexed
<1>3. CASE \/ \E c \in Callers : Notify(c)
           \/ \E th \in Threads : ThreadStep(th) \/ SpuriousWake(th) \/ Finish(th)
  BY <1>2, <1>3
  DEF Notify, NotifyCv, NotifySleeper, ThreadStep, EnterNext, CvReturns, SleeperReturns,
      Body, Leave, ParkEmpty, ParkBehindSleeper, Park, Sleep, Take, SleeperTimesOut,
      SpuriousWake, Finish
<1>4. CASE \/ \E c \in Clients : WaitCall(c) \/ WaitWakes(c) \/ WaitSpurious(c)
           \/ DtorExit \/ Dtor \/ Tick \/ UNCHANGED vars
  BY <1>2, <1>4
  DEF WaitCall, WaitWakes, WaitSpurious, DtorExit, Dtor, DtorNotifyCv, DtorNotifySleeper,
      DtorJoin, Tick, vars
<1>5. QED
  BY <1>1, <1>3, <1>4 DEF Next

-----------------------------------------------------------------------------
(***************************************************************************)
(* Nobody sleeps through exit_.                                            *)
(***************************************************************************)

\* ExitReachesAll, as it comes about notification by notification.
Leaving ==
    /\ exit <=> dtor # "alive"
    /\ dtor \in {"notifySleeper", "join", "joined"} => \A th \in Threads : pc[th] # "cv"
    /\ dtor \in {"join", "joined"} => \A th \in Threads : pc[th] # "sleeper"

\* The last notification wakes a single thread, and SingleSleeper is why that
\* is enough.
LEMMA LeavingStep == Typed /\ SingleSleeper /\ Leaving /\ [Next]_vars => Leaving'
<1> SUFFICES ASSUME Typed, SingleSleeper, Leaving, [Next]_vars PROVE Leaving'
  OBVIOUS
<1>1. ASSUME NEW c \in Callers, NEW k \in Tasks, NEW t \in Times, Schedule(c, k, t)
      PROVE  Leaving'
  BY <1>1 DEF Schedule, Leaving
<1>2. ASSUME NEW c \in Callers, Notify(c)
      PROVE  Leaving'
  BY <1>2 DEF Notify, NotifyCv, NotifySleeper, Typed, Leaving
<1>3. ASSUME NEW th \in Threads, EnterNext(th) \/ CvReturns(th) \/ SleeperReturns(th)
      PROVE  Leaving'
  <2>1. PICK hs \in {haveSleeper, FALSE}, n \in {numInflight, numInflight - 1} :
          Round(th, hs, n)
    BY <1>3, StepIsRound
  <2>2. exit' = exit /\ dtor' = dtor
    BY <2>1 DEF Round, Body
  <2>3. CASE exit
    BY <2>1, <2>2, <2>3
    DEF Round, Body, Leave, ParkEmpty, ParkBehindSleeper, Sleep, Take, Typed, Leaving
  <2>4. CASE ~exit
    BY <2>2, <2>4 DEF Leaving
  <2>5. QED
    BY <2>3, <2>4
<1>4. ASSUME NEW th \in Threads, SleeperTimesOut(th) \/ SpuriousWake(th) \/ Finish(th)
      PROVE  Leaving'
  BY <1>4 DEF SleeperTimesOut, SpuriousWake, Finish, Typed, Leaving
<1>5. ASSUME NEW c \in Clients, WaitCall(c) \/ WaitWakes(c) \/ WaitSpurious(c)
      PROVE  Leaving'
  BY <1>5 DEF WaitCall, WaitWakes, WaitSpurious, Leaving
<1>6. CASE DtorExit
  BY <1>6 DEF DtorExit, Leaving
<1>7. CASE DtorNotifyCv
  BY <1>7 DEF DtorNotifyCv, Typed, Leaving
<1>8. CASE DtorNotifySleeper
  BY <1>8 DEF DtorNotifySleeper, DtorWakes, Typed, SingleSleeper, Leaving
<1>9. CASE DtorJoin \/ Tick \/ UNCHANGED vars
  BY <1>9 DEF DtorJoin, Tick, vars, Leaving
<1>10. QED
  BY <1>1, <1>2, <1>3, <1>4, <1>5, <1>6, <1>7, <1>8, <1>9 DEF Next, ThreadStep, Dtor

-----------------------------------------------------------------------------
\* The inductive invariant.
IInv ==
    /\ Typed
    /\ Owes
    /\ SingleSleeper
    /\ InflightExact
    /\ SleeperCovers
    /\ HandedOver
    /\ WaiterNotForgotten
    /\ Indexed
    /\ Leaving

LEMMA IInvInit == Init => IInv
<1> SUFFICES ASSUME Init PROVE IInv
  OBVIOUS
<1>1. \A th \in Threads : th \in Callers
  BY DEF Callers
<1>2. Typed
  BY TypeInit
<1>3. Owes /\ SingleSleeper /\ SleeperCovers /\ HandedOver
  BY <1>1 DEF Init, Owes, SingleSleeper, SleeperCovers, HandedOver
<1>4. InflightExact
  <2>1. {th \in Threads : pc[th] \in {"enter", "run"}} = Threads
    BY DEF Init
  <2>2. QED
    BY <2>1 DEF Init, InflightExact
<1>5. WaiterNotForgotten /\ Indexed /\ Leaving
  BY DEF Init, WaiterNotForgotten, Indexed, Leaving
<1>6. QED
  BY <1>2, <1>3, <1>4, <1>5 DEF IInv

\* The conjunction is inductive: this and IInvInit make it an invariant.
THEOREM PoolInvariant == Spec => []IInv
<1>1. IInv /\ [Next]_vars => IInv'
  BY TypeStep, OwesStep, SleeperStep, InflightStep, CoversStep, HandedStep, WaiterStep,
     IndexedStep, LeavingStep DEF IInv
<1>2. QED
  BY <1>1, IInvInit, PTL DEF Spec

\* Every variable of the pool keeps its type, and num_inflight_ never drops
\* below zero.
THEOREM TypeCorrect == Spec => []TypeOK
<1>1. ASSUME IInv PROVE TypeOK
  <2>1. numInflight \in Nat
    BY <1>1, InFlightFinite DEF IInv, InflightExact, InFlight
  <2>2. QED
    BY <1>1, <2>1 DEF IInv, TypeOK
<1>2. QED
  BY <1>1, PoolInvariant, PTL

\* sleeper_cv_ has at most one waiter and have_sleeper_ says whether it has
\* one, as thread_pool.h claims.
THEOREM SingleSleeperAlways == Spec => []SingleSleeper
<1>1. IInv => SingleSleeper
  BY DEF IInv
<1>2. QED
  BY <1>1, PoolInvariant, PTL

\* num_inflight_ never miscounts, whatever interleaving of entering, taking
\* and parking threads.
THEOREM InflightAlwaysExact == Spec => []InflightExact
<1>1. IInv => InflightExact
  BY DEF IInv
<1>2. QED
  BY <1>1, PoolInvariant, PTL

\* The thread on sleeper_cv_ never sleeps past a queued task, unless the
\* notification that will wake it is on its way.
THEOREM SleeperAlwaysCovers == Spec => []SleeperCovers
<1>1. IInv => SleeperCovers
  BY DEF IInv
<1>2. QED
  BY <1>1, PoolInvariant, PTL

\* A queue that is not empty is always somebody's business.
THEOREM AlwaysHandedOver == Spec => []HandedOver
<1>1. IInv => HandedOver
  BY DEF IInv
<1>2. QED
  BY <1>1, PoolInvariant, PTL

\* A task that is due is never stranded: whenever a thread is parked on cv_,
\* somebody is about to look at the queue.
THEOREM NoWakeupIsLost == Spec => []NoLostWakeup
<1>1. ASSUME IInv PROVE NoLostWakeup
  <2>1. SUFFICES ASSUME ~exit, NEW k \in work, due[k] <= now,
                        NEW p \in Threads, pc[p] = "cv",
                        \A th \in Threads : pc[th] \notin {"enter", "cvAwake", "sleeperAwake"},
                        \A c \in Callers : wake[c] \notin {"cv", "sleeper"}
                 PROVE  \E th \in Threads : pc[th] = "sleeper" /\ deadline <= now
    BY DEF NoLostWakeup
  <2>2. haveSleeper
    BY <1>1, <2>1 DEF IInv, HandedOver, SomebodyComes
  <2>3. PICK th \in Threads : pc[th] = "sleeper"
    BY <1>1, <2>1, <2>2 DEF IInv, SingleSleeper
  <2>4. deadline <= due[k]
    BY <1>1, <2>1, <2>3 DEF IInv, SleeperCovers
  <2>5. deadline \in Nat /\ due[k] \in Nat /\ now \in Nat
    BY <1>1 DEF IInv, Typed
  <2>6. deadline <= now
    BY <2>1, <2>4, <2>5
  <2>7. QED
    BY <2>3, <2>6
<1>2. QED
  BY <1>1, PoolInvariant, PTL

\* Nobody waits in Wait() on an idle pool.
THEOREM NoWaiterForgotten == Spec => []WaiterNotForgotten
<1>1. IInv => WaiterNotForgotten
  BY DEF IInv
<1>2. QED
  BY <1>1, PoolInvariant, PTL

\* When the destructor waits for its threads, each of them is on its way out or
\* runs a function: the notifications have reached them all.
THEOREM ExitAlwaysReachesAll == Spec => []ExitReachesAll
<1>1. IInv => ExitReachesAll
  BY DEF IInv, Leaving, ExitReachesAll
<1>2. QED
  BY <1>1, PoolInvariant, PTL

\* In no run is a parked thread, a client in Wait() or an exiting thread left to
\* itself.
THEOREM NobodyIsForgotten == Spec => []NobodyForgotten
<1>1. SingleSleeper /\ SleeperCovers /\ HandedOver /\ WaiterNotForgotten /\ ExitReachesAll
        => NobodyForgotten
  BY DEF NobodyForgotten
<1>2. QED
  BY <1>1, SingleSleeperAlways, SleeperAlwaysCovers, AlwaysHandedOver, NoWaiterForgotten, ExitAlwaysReachesAll, PTL

\* Wait() returns only from a pool with nothing queued and nothing running.
THEOREM WaitIsSound == Spec => WaitSound
<1> DEFINE Returns == \A c \in Clients : waiting[c] # "no" /\ waiting'[c] = "no" =>
                         work = {} /\ \A th \in Threads : running[th] = NoTask
<1>1. ASSUME IInv, Next
      PROVE  Returns
  <2>1. SUFFICES ASSUME NEW c \in Clients, waiting[c] # "no", waiting'[c] = "no"
                 PROVE  Idle
    <3>1. ASSUME Idle, NEW th \in Threads
          PROVE  running[th] = NoTask
      <4>1. InFlight = {}
        BY <1>1, <3>1, InFlightFinite, FS_EmptySet DEF IInv, InflightExact, InFlight, Idle
      <4>2. pc[th] # "run"
        BY <4>1 DEF InFlight
      <4>3. QED
        BY <1>1, <4>2 DEF IInv, Owes
    <3>2. Idle => work = {}
      BY DEF Idle
    <3>3. QED
      BY <2>1, <3>1, <3>2
  <2>2. ASSUME NEW th \in Threads, EnterNext(th) \/ CvReturns(th) \/ SleeperReturns(th)
        PROVE  FALSE
    BY <1>1, <2>1, <2>2 DEF EnterNext, CvReturns, SleeperReturns, IInv, Typed
  <2>3. waiting' # waiting
    BY <2>1
  <2>4. ASSUME NEW d \in Clients, WaitCall(d) \/ WaitWakes(d) \/ WaitSpurious(d)
        PROVE  Idle
    BY <1>1, <2>1, <2>4 DEF WaitCall, WaitWakes, WaitSpurious, IInv, Typed
  <2>5. QED
    BY <1>1, <2>2, <2>3, <2>4
    DEF Next, ThreadStep, Schedule, Notify, NotifyCv, NotifySleeper, SleeperTimesOut,
        SpuriousWake, Finish, DtorExit, Dtor, DtorNotifyCv, DtorNotifySleeper, DtorJoin, Tick
<1>2. IInv /\ [Next]_vars => [Returns]_vars
  BY <1>1
<1>3. QED
  BY <1>2, PoolInvariant, PTL DEF Spec, WaitSound
-----------------------------------------------------------------------------
(***************************************************************************)
(* Refinement: under the mapping of the instance Abstract, a step of the   *)
(* pool is a step of TaskPool or leaves TaskPool's variables unchanged.    *)
(***************************************************************************)

\* The entry of TaskPool's queue that a queued task stands for.
EntryOf(k) == [task |-> k, t |-> due[k], n |-> idx[k]]

QueueOf == {EntryOf(k) : k \in work}

Spent == {k \in Tasks : idx[k] # 0}

\* Scheduling a task submits it.
LEMMA ScheduleSubmits ==
  ASSUME IInv, NEW c \in Callers, NEW k \in Tasks, NEW t \in Times, Schedule(c, k, t)
  PROVE  Abstract!Submit(k, t)
<1>1. k \notin work /\ k \notin Spent
  BY DEF Schedule, IInv, Indexed, Spent
<1>2. Spent' = Spent \cup {k}
  BY DEF Schedule, IInv, Typed, Spent
<1>3. \A j \in work : EntryOf(j)' = EntryOf(j)
  BY <1>1 DEF Schedule, IInv, Typed, EntryOf
<1>4. EntryOf(k)' = [task |-> k, t |-> t, n |-> lastIdx + 1]
  BY DEF Schedule, IInv, Typed, EntryOf
<1>5. QueueOf' = {EntryOf(j)' : j \in work \cup {k}}
  BY DEF Schedule, QueueOf
<1>6. QueueOf' = QueueOf \cup {[task |-> k, t |-> t, n |-> lastIdx + 1]}
  BY <1>3, <1>4, <1>5 DEF QueueOf
<1>7. QED
  BY <1>1, <1>2, <1>6 DEF Schedule, Abstract!Submit, QueueOf, EntryOf, Spent

\* Taking the top of the queue starts it.
LEMMA TakeStarts ==
  ASSUME IInv, NEW th \in Threads, NEW hs, NEW n, Round(th, hs, n), Take(th, hs, n)
  PROVE  Abstract!StartSome
<1>1. PICK k \in work :
         /\ IsTop(work, due, idx, k)
         /\ due[k] <= now
         /\ work' = work \ {k}
         /\ running' = [running EXCEPT ![th] = k]
  BY DEF Take
<1>2. running[th] = NoTask /\ ~exit
  BY DEF Round, Take, IInv, Owes
<1>3. UNCHANGED <<due, idx, now, lastIdx, exit>>
  BY DEF Round, Body
<1>4. \A j \in work : EntryOf(j)' = EntryOf(j) /\ (EntryOf(j) = EntryOf(k) => j = k)
  BY <1>3 DEF EntryOf
<1>5. QueueOf' = QueueOf \ {EntryOf(k)}
  <2>1. QueueOf' = {EntryOf(j)' : j \in work \ {k}}
    BY <1>1 DEF QueueOf
  <2>2. QueueOf' = {EntryOf(j) : j \in work \ {k}}
    BY <1>4, <2>1
  <2>3. QED
    BY <1>1, <1>4, <2>2 DEF QueueOf
<1>6. \A f \in QueueOf \ {EntryOf(k)} : Abstract!Earlier(EntryOf(k), f)
  <2>1. SUFFICES ASSUME NEW j \in work \ {k}
                 PROVE  Abstract!Earlier(EntryOf(k), EntryOf(j))
    BY DEF QueueOf
  <2>2. Before(due, idx, k, j)
    BY <1>1 DEF IsTop
  <2>3. QED
    BY <2>2 DEF Before, EntryOf, Abstract!Earlier
<1>7. Spent' = Spent
  BY <1>3 DEF Spent
<1>8. EntryOf(k) \in QueueOf /\ EntryOf(k).t <= now /\ EntryOf(k).task = k
  BY <1>1 DEF QueueOf, EntryOf
<1>9. PICK e \in QueueOf : e = EntryOf(k)
  BY <1>8
<1>10. /\ ~exit /\ running[th] = NoTask
       /\ e \in QueueOf /\ e.t <= now
       /\ \A f \in QueueOf \ {e} : Abstract!Earlier(e, f)
       /\ QueueOf' = QueueOf \ {e}
       /\ running' = [running EXCEPT ![th] = e.task]
       /\ UNCHANGED <<now, lastIdx, exit>> /\ Spent' = Spent
  BY <1>1, <1>2, <1>3, <1>5, <1>6, <1>7, <1>8, <1>9
<1>11. QED
  BY <1>10 DEF Abstract!StartSome, Abstract!Start, QueueOf, EntryOf, Spent

\* ThreadPool implements the safety part of TaskPool: order, earliest times,
\* one task per thread, nothing started after exit_.
THEOREM PoolKeepsPromise == Spec => Abstract!TSafe
<1>1. Init => Abstract!TInit
  BY DEF Init, Abstract!TInit
<1>2. ASSUME IInv, [Next]_vars
      PROVE  [Abstract!TNext]_(Abstract!tvars)
  <2>1. ASSUME NEW c \in Callers, NEW k \in Tasks, NEW t \in Times, Schedule(c, k, t)
        PROVE  Abstract!TNext
    BY <1>2, <2>1, ScheduleSubmits DEF Abstract!TNext, Times
  <2>same. ASSUME UNCHANGED <<now, work, due, idx, lastIdx, running, exit>>
           PROVE  UNCHANGED Abstract!tvars
    BY <2>same DEF Abstract!tvars
  <2>2. ASSUME NEW th \in Threads, EnterNext(th) \/ CvReturns(th) \/ SleeperReturns(th)
        PROVE  [Abstract!TNext]_(Abstract!tvars)
    <3>1. PICK hs \in {haveSleeper, FALSE}, n \in {numInflight, numInflight - 1} :
            Round(th, hs, n)
      BY <2>2, StepIsRound
    <3>2. CASE Take(th, hs, n)
      <4>1. Abstract!StartSome
        BY <1>2, <3>1, <3>2, TakeStarts
      <4>2. QED
        BY <4>1 DEF Abstract!TNext
    <3>3. CASE ~Take(th, hs, n)
      BY <3>1, <3>3, <2>same
      DEF Round, Body, Leave, ParkEmpty, ParkBehindSleeper, Park, Sleep
    <3>4. QED
      BY <3>2, <3>3
  <2>3. ASSUME NEW th \in Threads, Finish(th)
        PROVE  Abstract!TNext
    <3>1. Abstract!Complete(th)
      BY <1>2, <2>3 DEF Finish, IInv, Owes, Abstract!Complete
    <3>2. QED
      BY <3>1 DEF Abstract!TNext
  <2>4. CASE DtorExit
    <3>1. CASE exit
      BY <2>4, <3>1, <2>same DEF DtorExit, IInv, Typed
    <3>2. CASE ~exit
      BY <2>4, <3>2 DEF DtorExit, Abstract!Close, Abstract!TNext
    <3>3. QED
      BY <3>1, <3>2
  <2>5. CASE Tick
    BY <2>5 DEF Tick, Abstract!Pass, Abstract!TNext
  <2>6. CASE \/ \E c \in Callers : Notify(c)
             \/ \E th \in Threads : SleeperTimesOut(th) \/ SpuriousWake(th)
             \/ \E c \in Clients : WaitCall(c) \/ WaitWakes(c) \/ WaitSpurious(c)
             \/ Dtor \/ UNCHANGED vars
    BY <2>6, <2>same
    DEF Notify, NotifyCv, NotifySleeper, SleeperTimesOut, SpuriousWake, WaitCall, WaitWakes,
        WaitSpurious, Dtor, DtorNotifyCv, DtorNotifySleeper, DtorJoin, vars
  <2>7. QED
    BY <1>2, <2>1, <2>2, <2>3, <2>4, <2>5, <2>6 DEF Next, ThreadStep
<1>3. QED
  BY <1>1, <1>2, PoolInvariant, PTL DEF Spec, Abstract!TSafe
=============================================================================
