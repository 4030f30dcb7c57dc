\* Two threads, one outside caller, three tasks, clock 0..1.  Refines allows
\* functions that never return; WaitReturns and DtorReturns assume that they do.
CONSTANTS
    Threads = {w1, w2}
    Clients = {main}
    Tasks = {f, g, h}
    NoTask = none
    MaxTime = 1
SPECIFICATION FairSpec
INVARIANTS
    NoLostWakeup
    NobodyForgotten
PROPERTIES
    WaitSound
    Refines
    WaitReturns
    DtorReturns
CHECK_DEADLOCK FALSE
