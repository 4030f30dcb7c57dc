------------------------------ MODULE MCDaemon ------------------------------
(***************************************************************************)
(* Instances of the daemon's loop and of the parts on the shell's side:    *)
(* the client of a daemon, the worker of powerlevel10k, and the options on *)
(* their way to the daemon.  Each has its own state and its own idea of    *)
(* the others: a behaviour runs one of them, part, and the rest keep their *)
(* initial state.                                                          *)
(***************************************************************************)
EXTENDS Daemon, Client, Worker, Options

CONSTANTS Parts, outer, inner, store

VARIABLE part

partVars == <<part, vars, clientVars, workVars, optVars>>

DaemonStep(action) == part = "daemon" /\ action /\ UNCHANGED <<part, clientVars, workVars, optVars>>
ClientStep(action) == part = "client" /\ action /\ UNCHANGED <<part, vars, workVars, optVars>>
WorkerStep(action) == part = "worker" /\ action /\ UNCHANGED <<part, vars, clientVars, optVars>>
OptionStep(action) == part = "options" /\ action /\ UNCHANGED <<part, vars, clientVars, workVars>>

PartInit ==
    /\ part \in Parts
    /\ Init /\ ClientInit /\ WorkInit /\ OptInit
    /\ part # "daemon" => git = {}

PartNext ==
    \/ DaemonStep(Next) \/ ClientStep(ClientNext) \/ WorkerStep(WorkNext) \/ OptionStep(OptNext)

\* FairSpec of Daemon; the daemon of a client goes on, or is dead, and a shell
\* that is reading goes on reading; the worker goes on, and its subprocesses end.
PartSpec ==
    /\ PartInit /\ [][PartNext]_partVars
    /\ WF_partVars(DaemonStep(MainStep)) /\ WF_partVars(DaemonStep(TagDone))
    /\ WF_partVars(DaemonStep(Tick))
    /\ WF_partVars(ClientStep(TakeRequest)) /\ WF_partVars(ClientStep(WriteBegin))
    /\ WF_partVars(ClientStep(WriteEnd)) /\ WF_partVars(ClientStep(Reads))
    /\ WF_partVars(WorkerStep(WorkProgress))
    /\ \A s \in Segments : WF_partVars(WorkerStep(AsyncEnds(s, 0)))

-----------------------------------------------------------------------------
\* A directory inside another, both of which may be repositories, and one that
\* may be a bare repository.
MCDirs == {outer, inner, store}
MCPath == [d \in MCDirs |-> IF d = inner THEN <<inner, outer>> ELSE <<d>>]

\* The longest and the shortest long, and what is one beyond them.
MCValues == {-9, -8, -1, 0, 2, 7, 8}
=============================================================================
