------------------------------ MODULE TaskPool ------------------------------
(***************************************************************************)
(* What gitstatusd's ThreadPool promises to its callers, without threads,  *)
(* locks or condition variables: a task handed over with a time starts at  *)
(* or after that time, earlier times first and equal times in the order    *)
(* they were handed over, on one of a fixed number of slots; a free slot   *)
(* and a due task do not coexist forever; and once the pool is closed no   *)
(* further task starts.  ThreadPool.tla is shown to implement this module. *)
(***************************************************************************)
EXTENDS Naturals

CONSTANTS
    Slots,      \* the pool's threads
    Tasks,      \* everything that may be scheduled; each task once
    NoTask,     \* what an idle slot runs
    MaxTime     \* bound on the clock

VARIABLES
    now,        \* the clock
    queue,      \* the scheduled tasks that have not started: [task, t, n]
    count,      \* how many tasks have been scheduled
    slot,       \* what each slot runs
    spent,      \* the tasks that have been scheduled so far
    closed      \* the destructor has been entered

tvars == <<now, queue, count, slot, spent, closed>>

Entry == [task : Tasks, t : Nat, n : Nat]

Earlier(a, b) == a.t < b.t \/ (a.t = b.t /\ a.n < b.n)

TInit ==
    /\ now = 0
    /\ queue = {}
    /\ count = 0
    /\ slot = [s \in Slots |-> NoTask]
    /\ spent = {}
    /\ closed = FALSE

Submit(k, t) ==
    /\ k \notin spent
    /\ spent' = spent \cup {k}
    /\ count' = count + 1
    /\ queue' = queue \cup {[task |-> k, t |-> t, n |-> count + 1]}
    /\ UNCHANGED <<now, slot, closed>>

Start(s, e) ==
    /\ ~closed
    /\ slot[s] = NoTask
    /\ e \in queue
    /\ e.t <= now
    /\ \A f \in queue \ {e} : Earlier(e, f)
    /\ queue' = queue \ {e}
    /\ slot' = [slot EXCEPT ![s] = e.task]
    /\ UNCHANGED <<now, count, spent, closed>>

Complete(s) ==
    /\ slot[s] # NoTask
    /\ slot' = [slot EXCEPT ![s] = NoTask]
    /\ UNCHANGED <<now, queue, count, spent, closed>>

Pass ==
    /\ now < MaxTime
    /\ now' = now + 1
    /\ UNCHANGED <<queue, count, slot, spent, closed>>

Close ==
    /\ ~closed
    /\ closed' = TRUE
    /\ UNCHANGED <<now, queue, count, slot, spent>>

StartSome == \E s \in Slots, e \in queue : Start(s, e)

TNext ==
    \/ \E k \in Tasks, t \in 0..MaxTime : Submit(k, t)
    \/ StartSome
    \/ \E s \in Slots : Complete(s)
    \/ Pass
    \/ Close

\* The part of the promise that the safety proof establishes.
TSafe == TInit /\ [][TNext]_tvars

\* The whole promise: a due task at the head of the queue and a free slot are
\* eventually brought together, even if the tasks in other slots never end.
TSpec == TSafe /\ WF_tvars(StartSome)
=============================================================================
