----------------------------- MODULE ThreadPool -----------------------------
(***************************************************************************)
(* gitstatusd's ThreadPool (thread_pool.h, thread_pool.cc): a priority     *)
(* queue of timed tasks, three condition variables on one mutex, and a     *)
(* fixed number of threads.  A step of a thread is one critical section:   *)
(* from acquiring mutex_ to the wait or the unlock that releases it.  A    *)
(* notify_one that follows an unlock is a step of its own, so that others  *)
(* run between the two.                                                    *)
(*                                                                         *)
(* A thread is in one of these places:                                     *)
(*   enter         about to lock in Next: at its start, or f() returned    *)
(*   cv, sleeper   waits on cv_ or on sleeper_cv_                          *)
(*   cvAwake, sleeperAwake   notified, timed out or woken spuriously; has  *)
(*                 not reacquired the mutex                                *)
(*   run           has taken a task; first delivers its own notification   *)
(*                 (wake) if it owes one, then runs f()                    *)
(*   gone          Next returned nullptr and Loop ended                    *)
(***************************************************************************)
EXTENDS Integers, FiniteSets

CONSTANTS
    Threads,    \* the pool's threads
    Clients,    \* other threads that call Schedule and Wait
    Tasks,      \* the functions that may be scheduled, each once
    NoTask,     \* what a thread that runs no function runs
    MaxTime     \* bound on the clock and on the times asked for

ASSUME PoolAssumption ==
    /\ IsFiniteSet(Threads)
    /\ Threads \cap Clients = {}
    /\ NoTask \notin Tasks
    /\ MaxTime \in Nat

VARIABLES
    now,          \* Clock::now()
    work,         \* the tasks in work_
    due,          \* Work::t of each task scheduled
    idx,          \* Work::idx of each task; 0 before it is scheduled
    lastIdx,      \* last_idx_
    numInflight,  \* num_inflight_
    exit,         \* exit_
    haveSleeper,  \* have_sleeper_
    deadline,     \* the time the thread on sleeper_cv_ waits until
    pc,           \* where each thread is
    running,      \* the task each thread has taken
    wake,         \* the condvar each caller still has to notify, after unlock
    waiting,      \* each client in Wait(): no, parked on idle_cv_, woken
    dtor          \* progress of ~ThreadPool

vars == <<now, work, due, idx, lastIdx, numInflight, exit, haveSleeper,
          deadline, pc, running, wake, waiting, dtor>>

Times == 0..MaxTime
Callers == Threads \cup Clients
Places == {"enter", "cv", "cvAwake", "sleeper", "sleeperAwake", "run", "gone"}

Typed ==
    /\ now \in Nat
    /\ work \in SUBSET Tasks
    /\ due \in [Tasks -> Nat]
    /\ idx \in [Tasks -> Nat]
    /\ lastIdx \in Nat
    /\ numInflight \in Int
    /\ exit \in BOOLEAN
    /\ haveSleeper \in BOOLEAN
    /\ deadline \in Nat
    /\ pc \in [Threads -> Places]
    /\ running \in [Threads -> Tasks \cup {NoTask}]
    /\ wake \in [Callers -> {"none", "cv", "sleeper"}]
    /\ waiting \in [Clients -> {"no", "parked", "woken"}]
    /\ dtor \in {"alive", "notifyCv", "notifySleeper", "join", "joined"}

\* num_inflight_ is signed and every thread decrements it first thing in Next,
\* yet it never drops below zero.
TypeOK == Typed /\ numInflight \in Nat

-----------------------------------------------------------------------------
\* The order of work_: Work::operator< read backwards, as std::priority_queue
\* does.  a runs before b.
Before_TiesLast(d, i, a, b) == d[a] < d[b] \/ (d[a] = d[b] /\ i[a] > i[b])
Before(d, i, a, b) == d[a] < d[b] \/ (d[a] = d[b] /\ i[a] < i[b])

\* k is work_.top() when the queue holds S.
IsTop(S, d, i, k) == k \in S /\ \A j \in S \ {k} : Before(d, i, k, j)

Init ==
    /\ now = 0
    /\ work = {}
    /\ due = [k \in Tasks |-> 0]
    /\ idx = [k \in Tasks |-> 0]
    /\ lastIdx = 0
    /\ numInflight = Cardinality(Threads)
    /\ exit = FALSE
    /\ haveSleeper = FALSE
    /\ deadline = 0
    /\ pc = [th \in Threads |-> "enter"]
    /\ running = [th \in Threads |-> NoTask]
    /\ wake = [c \in Callers |-> "none"]
    /\ waiting = [c \in Clients |-> "no"]
    /\ dtor = "alive"

-----------------------------------------------------------------------------
\* A caller can enter the pool: it owes no notification, a thread does so from
\* inside f(), a client is not in Wait() and does not use a dying pool.
Free(c) ==
    /\ wake[c] = "none"
    /\ c \in Threads => pc[c] = "run"
    /\ c \in Clients => waiting[c] = "no" /\ dtor = "alive"

\* The condvar that Schedule notifies when the new task is the top.
ScheduleWake_AlwaysCv(sleeper) == "cv"
ScheduleWake(sleeper) == IF sleeper THEN "sleeper" ELSE "cv"

\* Schedule up to its unlock.  The time may lie in the past: Schedule(f)
\* reads the clock before it locks.
Schedule(c, k, t) ==
    /\ Free(c)
    /\ idx[k] = 0
    /\ work' = work \cup {k}
    /\ due' = [due EXCEPT ![k] = t]
    /\ lastIdx' = lastIdx + 1
    /\ idx' = [idx EXCEPT ![k] = lastIdx + 1]
    /\ wake' = IF IsTop(work', due', idx', k)
               THEN [wake EXCEPT ![c] = ScheduleWake(haveSleeper)]
               ELSE wake
    /\ UNCHANGED <<now, numInflight, exit, haveSleeper, deadline, pc, running,
                   waiting, dtor>>

\* notify_one on cv_ after the unlock: one waiter, if there is any.
NotifyCv(c) ==
    /\ wake[c] = "cv"
    /\ wake' = [wake EXCEPT ![c] = "none"]
    /\ \/ \E th \in Threads :
            /\ pc[th] = "cv"
            /\ pc' = [pc EXCEPT ![th] = "cvAwake"]
       \/ /\ \A th \in Threads : pc[th] # "cv"
          /\ pc' = pc
    /\ UNCHANGED <<now, work, due, idx, lastIdx, numInflight, exit, haveSleeper,
                   deadline, running, waiting, dtor>>

\* notify_one on sleeper_cv_ after the unlock.
NotifySleeper(c) ==
    /\ wake[c] = "sleeper"
    /\ wake' = [wake EXCEPT ![c] = "none"]
    /\ \/ \E th \in Threads :
            /\ pc[th] = "sleeper"
            /\ pc' = [pc EXCEPT ![th] = "sleeperAwake"]
       \/ /\ \A th \in Threads : pc[th] # "sleeper"
          /\ pc' = pc
    /\ UNCHANGED <<now, work, due, idx, lastIdx, numInflight, exit, haveSleeper,
                   deadline, running, waiting, dtor>>

-----------------------------------------------------------------------------
\* Next's loop body, in one critical section.  hs and n are have_sleeper_ and
\* num_inflight_ as the code that leads to the body leaves them.

Leave(th, hs, n) ==
    /\ exit
    /\ pc' = [pc EXCEPT ![th] = "gone"]
    /\ haveSleeper' = hs
    /\ numInflight' = n
    /\ UNCHANGED <<work, deadline, running, wake>>

Park(th, hs, n) ==
    /\ pc' = [pc EXCEPT ![th] = "cv"]
    /\ haveSleeper' = hs
    /\ numInflight' = n
    /\ UNCHANGED <<work, deadline, running, wake>>

ParkEmpty(th, hs, n) == ~exit /\ work = {} /\ Park(th, hs, n)

ParkBehindSleeper(th, hs, n) ==
    /\ ~exit
    /\ hs
    /\ \E k \in work : IsTop(work, due, idx, k) /\ due[k] > now
    /\ Park(th, hs, n)

Sleep(th, hs, n) ==
    /\ ~exit
    /\ ~hs
    /\ \E k \in work :
         /\ IsTop(work, due, idx, k)
         /\ due[k] > now
         /\ deadline' = due[k]
    /\ haveSleeper' = TRUE
    /\ pc' = [pc EXCEPT ![th] = "sleeper"]
    /\ numInflight' = n
    /\ UNCHANGED <<work, running, wake>>

\* Whether the thread that takes a task hands the rest of the queue over.
HandsOver_Never(rest, hs) == FALSE
HandsOver(rest, hs) == rest # {} /\ ~hs

\* num_inflight_ once a thread has taken a task.
TakenInflight_Forgotten(n) == n
TakenInflight(n) == n + 1

Take(th, hs, n) ==
    /\ ~exit
    /\ \E k \in work :
         /\ IsTop(work, due, idx, k)
         /\ due[k] <= now
         /\ work' = work \ {k}
         /\ running' = [running EXCEPT ![th] = k]
    /\ numInflight' = TakenInflight(n)
    /\ haveSleeper' = hs
    /\ wake' = IF HandsOver(work', hs) THEN [wake EXCEPT ![th] = "cv"] ELSE wake
    /\ pc' = [pc EXCEPT ![th] = "run"]
    /\ UNCHANGED deadline

Body(th, hs, n) ==
    /\ \/ Leave(th, hs, n)
       \/ ParkEmpty(th, hs, n)
       \/ ParkBehindSleeper(th, hs, n)
       \/ Sleep(th, hs, n)
       \/ Take(th, hs, n)
    /\ UNCHANGED <<now, due, idx, lastIdx, exit, dtor>>

\* have_sleeper_ once the sleeper runs again.
AfterSleep(hs) == FALSE

\* The clients parked on idle_cv_ that the thread entering Next notifies.
NotifyIdle_WorkOnly(n) == work = {} /\ n = 1
NotifyIdle(n) == work = {} /\ n = 0

\* Next from its start.
EnterNext(th) ==
    /\ pc[th] = "enter"
    /\ waiting' = IF NotifyIdle(numInflight - 1)
                  THEN [c \in Clients |-> IF waiting[c] = "parked" THEN "woken"
                                          ELSE waiting[c]]
                  ELSE waiting
    /\ Body(th, haveSleeper, numInflight - 1)

\* cv_.wait returns and the loop goes round.
CvReturns(th) ==
    /\ pc[th] = "cvAwake"
    /\ Body(th, haveSleeper, numInflight)
    /\ UNCHANGED waiting

\* sleeper_cv_.wait_until returns and the loop goes round.
SleeperReturns(th) ==
    /\ pc[th] = "sleeperAwake"
    /\ Body(th, AfterSleep(haveSleeper), numInflight)
    /\ UNCHANGED waiting

\* The timeout of wait_until.
SleeperTimesOut(th) ==
    /\ pc[th] = "sleeper"
    /\ deadline <= now
    /\ pc' = [pc EXCEPT ![th] = "sleeperAwake"]
    /\ UNCHANGED <<now, work, due, idx, lastIdx, numInflight, exit, haveSleeper,
                   deadline, running, wake, waiting, dtor>>

\* A condition variable may wake for no reason.
SpuriousWake(th) ==
    /\ \/ pc[th] = "cv" /\ pc' = [pc EXCEPT ![th] = "cvAwake"]
       \/ pc[th] = "sleeper" /\ pc' = [pc EXCEPT ![th] = "sleeperAwake"]
    /\ UNCHANGED <<now, work, due, idx, lastIdx, numInflight, exit, haveSleeper,
                   deadline, running, wake, waiting, dtor>>

\* f() returns and Loop calls Next again.
Finish(th) ==
    /\ pc[th] = "run"
    /\ wake[th] = "none"
    /\ pc' = [pc EXCEPT ![th] = "enter"]
    /\ running' = [running EXCEPT ![th] = NoTask]
    /\ UNCHANGED <<now, work, due, idx, lastIdx, numInflight, exit, haveSleeper,
                   deadline, wake, waiting, dtor>>

-----------------------------------------------------------------------------
Idle == work = {} /\ numInflight = 0

\* Wait() called: it returns at once or parks on idle_cv_.
WaitCall(c) ==
    /\ Free(c)
    /\ ~Idle
    /\ waiting' = [waiting EXCEPT ![c] = "parked"]
    /\ UNCHANGED <<now, work, due, idx, lastIdx, numInflight, exit, haveSleeper,
                   deadline, pc, running, wake, dtor>>

\* A waiter on idle_cv_ looks again, after a notification or spuriously.
WaitWakes(c) ==
    /\ \/ waiting[c] = "woken" /\ Idle /\ waiting' = [waiting EXCEPT ![c] = "no"]
       \/ waiting[c] = "woken" /\ ~Idle /\ waiting' = [waiting EXCEPT ![c] = "parked"]
    /\ UNCHANGED <<now, work, due, idx, lastIdx, numInflight, exit, haveSleeper,
                   deadline, pc, running, wake, dtor>>

WaitSpurious(c) ==
    /\ waiting[c] = "parked"
    /\ waiting' = [waiting EXCEPT ![c] = "woken"]
    /\ UNCHANGED <<now, work, due, idx, lastIdx, numInflight, exit, haveSleeper,
                   deadline, pc, running, wake, dtor>>

-----------------------------------------------------------------------------
\* ~ThreadPool: set exit_ under the mutex, notify, join.
DtorExit ==
    /\ dtor = "alive"
    /\ \A c \in Clients : wake[c] = "none" /\ waiting[c] = "no"
    /\ exit' = TRUE
    /\ dtor' = "notifyCv"
    /\ UNCHANGED <<now, work, due, idx, lastIdx, numInflight, haveSleeper,
                   deadline, pc, running, wake, waiting>>

DtorNotifyCv_One ==
    /\ dtor = "notifyCv"
    /\ \/ \E th \in Threads : pc[th] = "cv" /\ pc' = [pc EXCEPT ![th] = "cvAwake"]
       \/ (\A th \in Threads : pc[th] # "cv") /\ pc' = pc
    /\ dtor' = "notifySleeper"
    /\ UNCHANGED <<now, work, due, idx, lastIdx, numInflight, exit, haveSleeper,
                   deadline, running, wake, waiting>>
DtorNotifyCv ==
    /\ dtor = "notifyCv"
    /\ pc' = [th \in Threads |-> IF pc[th] = "cv" THEN "cvAwake" ELSE pc[th]]
    /\ dtor' = "notifySleeper"
    /\ UNCHANGED <<now, work, due, idx, lastIdx, numInflight, exit, haveSleeper,
                   deadline, running, wake, waiting>>

\* Which thread sleeper_cv_.notify_one wakes in the destructor.
DtorWakes(th) == pc[th] = "sleeper"

DtorNotifySleeper ==
    /\ dtor = "notifySleeper"
    /\ \/ \E th \in Threads :
            /\ DtorWakes(th)
            /\ pc' = [pc EXCEPT ![th] = "sleeperAwake"]
       \/ /\ \A th \in Threads : ~DtorWakes(th)
          /\ pc' = pc
    /\ dtor' = "join"
    /\ UNCHANGED <<now, work, due, idx, lastIdx, numInflight, exit, haveSleeper,
                   deadline, running, wake, waiting>>

DtorJoin ==
    /\ dtor = "join"
    /\ \A th \in Threads : pc[th] = "gone"
    /\ dtor' = "joined"
    /\ UNCHANGED <<now, work, due, idx, lastIdx, numInflight, exit, haveSleeper,
                   deadline, pc, running, wake, waiting>>

\* Time passes.
Tick ==
    /\ now < MaxTime
    /\ now' = now + 1
    /\ UNCHANGED <<work, due, idx, lastIdx, numInflight, exit, haveSleeper,
                   deadline, pc, running, wake, waiting, dtor>>

-----------------------------------------------------------------------------
ThreadStep(th) ==
    EnterNext(th) \/ CvReturns(th) \/ SleeperReturns(th) \/ SleeperTimesOut(th)

Notify(c) == NotifyCv(c) \/ NotifySleeper(c)

Dtor == DtorNotifyCv \/ DtorNotifySleeper \/ DtorJoin

Next ==
    \/ \E c \in Callers, k \in Tasks, t \in Times : Schedule(c, k, t)
    \/ \E c \in Callers : Notify(c)
    \/ \E th \in Threads : ThreadStep(th) \/ SpuriousWake(th) \/ Finish(th)
    \/ \E c \in Clients : WaitCall(c) \/ WaitWakes(c) \/ WaitSpurious(c)
    \/ DtorExit
    \/ Dtor
    \/ Tick

Spec == Init /\ [][Next]_vars

\* The operating system runs every thread, delivers every notification that a
\* thread is about to send, and lets time pass; f() may never return.
Progress ==
    /\ \A th \in Threads : WF_vars(ThreadStep(th))
    /\ \A c \in Callers : WF_vars(Notify(c))
    /\ WF_vars(Dtor)
    /\ WF_vars(Tick)

FairSpec == Spec /\ Progress

\* Every f() returns and a woken waiter runs.
Terminating ==
    /\ \A th \in Threads : WF_vars(Finish(th))
    /\ \A c \in Clients : WF_vars(WaitWakes(c))

-----------------------------------------------------------------------------
\* At most one thread waits on sleeper_cv_, as thread_pool.h says of it, and
\* have_sleeper_ tells whether one does or is on its way back.
SingleSleeper ==
    /\ \A a, b \in Threads :
         {pc[a], pc[b]} \subseteq {"sleeper", "sleeperAwake"} => a = b
    /\ haveSleeper <=> \E th \in Threads : pc[th] \in {"sleeper", "sleeperAwake"}

\* num_inflight_ counts the threads that run a function or have not yet looked
\* for one: never a parked thread, never one too few.
InflightExact ==
    numInflight = Cardinality({th \in Threads : pc[th] \in {"enter", "run"}})

\* The sleeper never oversleeps: a task due before its deadline is in the
\* queue only while somebody is about to notify sleeper_cv_.
SleeperCovers ==
    \A th \in Threads : pc[th] = "sleeper" =>
        \/ \A k \in work : deadline <= due[k]
        \/ \E c \in Callers : wake[c] = "sleeper"

\* Some thread is on its way to the queue, or will be notified.
SomebodyComes ==
    \/ \E th \in Threads : pc[th] \in {"enter", "cvAwake", "sleeperAwake"}
    \/ \E c \in Callers : wake[c] = "cv"
    \/ haveSleeper

\* While a thread is parked on cv_ and the queue is not empty, a thread is on
\* its way, or a notification is, or the sleeper answers for the queue.
HandedOver ==
    ~exit /\ work # {} /\ (\E th \in Threads : pc[th] = "cv") => SomebodyComes

\* No lost wakeup, the reason the two condvars are notified as they are: a task
\* that is due is never left in the queue with an idle thread parked on cv_ and
\* nobody about to look at the queue.
NoLostWakeup ==
    ~exit /\ (\E k \in work : due[k] <= now) /\ (\E th \in Threads : pc[th] = "cv") =>
        \/ \E th \in Threads : pc[th] \in {"enter", "cvAwake", "sleeperAwake"}
        \/ \E c \in Callers : wake[c] \in {"cv", "sleeper"}
        \/ \E th \in Threads : pc[th] = "sleeper" /\ deadline <= now

\* A client parked in Wait() always waits for something: the last thread to go
\* idle never misses it.
WaiterNotForgotten ==
    (\E c \in Clients : waiting[c] = "parked") => ~Idle

\* Once the destructor has notified both condvars every thread is on its way out
\* or runs a function: none parks again, and none sleeps until its deadline
\* behind an exit_ it has not seen.
ExitReachesAll ==
    dtor \in {"join", "joined"} => \A th \in Threads : pc[th] \notin {"cv", "sleeper"}

\* Nobody is forgotten: there is one sleeper at most, who does not sleep past a
\* task, and a thread that is parked, a client in Wait(), or a thread that must
\* exit, is left alone only if somebody answers for it.
NobodyForgotten ==
    SingleSleeper /\ SleeperCovers /\ HandedOver /\ WaiterNotForgotten /\ ExitReachesAll

\* Wait() returns only when the queue is empty and no function is running, as
\* thread_pool.h promises.
WaitSound ==
    [][\A c \in Clients : waiting[c] # "no" /\ waiting'[c] = "no" =>
           work = {} /\ \A th \in Threads : running[th] = NoTask]_vars

-----------------------------------------------------------------------------
\* ThreadPool keeps the promise stated in TaskPool.
Abstract == INSTANCE TaskPool WITH
    Slots  <- Threads,
    queue  <- {[task |-> k, t |-> due[k], n |-> idx[k]] : k \in work},
    count  <- lastIdx,
    slot   <- running,
    spent  <- {k \in Tasks : idx[k] # 0},
    closed <- exit

\* Every behaviour of the pool is one the abstract pool allows: order, times,
\* one task per slot, none after exit_; and, with the progress above, an idle
\* thread and a due task always meet even if other functions never return.
Refines == Abstract!TSpec

\* Wait() returns once every function does.
WaitReturns ==
    Terminating => \A c \in Clients : (waiting[c] # "no") ~> (waiting[c] = "no")

\* The destructor returns once the running functions do, whatever the queue
\* holds.
DtorReturns == Terminating => (dtor = "notifyCv") ~> (dtor = "joined")
=============================================================================
