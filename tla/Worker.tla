-------------------------------- MODULE Worker --------------------------------
(***************************************************************************)
(* The worker of powerlevel10k (internal/worker.zsh): the shell hands it   *)
(* the work of the segments of the prompt.  While a request of a segment   *)
(* is with the worker, the shell keeps only the latest one to follow it.   *)
(*                                                                         *)
(* A request is its segment and a number.  A message to the shell is <<"s">> *)
(* when the worker has started or <<"d", segment>> when it is done; those  *)
(* that carry results ("e") change nothing here.  The deaths of the two    *)
(* processes, which end everything, are left out.                          *)
(***************************************************************************)
EXTENDS Integers, Sequences, FiniteSets, SequencesExt

CONSTANTS
    Segments,
    MaxInvokes,     \* bounds of a run: the requests of a segment,
    MaxAsync        \* and the subprocesses one of its requests starts

ASSUME WorkerAssumption == IsFiniteSet(Segments) /\ MaxInvokes \in Nat /\ MaxAsync \in Nat

VARIABLES
    started,        \* _p9k__worker_req_fd is open
    request_map,    \* _p9k__worker_request_map: nothing (-1), the empty
                    \* string (0) or the request to send next
    work_req,       \* the requests on their way to the worker
    work_resp,      \* its messages on their way to the shell
    work_inflight,  \* _p9k_worker_inflight
    invoked, ran    \* history: the latest request of each segment, and the
                    \* latest one that was evaluated

workVars == <<started, request_map, work_req, work_resp, work_inflight, invoked, ran>>

WorkInit ==
    /\ started = FALSE /\ request_map = [s \in Segments |-> -1]
    /\ work_req = << >> /\ work_resp = << <<"s">> >>
    /\ work_inflight = [s \in Segments |-> 0]
    /\ invoked = [s \in Segments |-> 0] /\ ran = [s \in Segments |-> 0]

-----------------------------------------------------------------------------
\* The shell.

SendWork(s, n) == work_req' = Append(work_req, <<s, n>>)

_p9k_worker_invoke(s) ==
    /\ invoked[s] < MaxInvokes
    /\ invoked' = [invoked EXCEPT ![s] = @ + 1]
    /\ IF started /\ request_map[s] = -1
       THEN /\ request_map' = [request_map EXCEPT ![s] = 0] /\ SendWork(s, invoked'[s])
       ELSE /\ request_map' = [request_map EXCEPT ![s] = invoked'[s]] /\ UNCHANGED work_req
    /\ UNCHANGED <<started, work_resp, work_inflight, ran>>

\* Message "s" opens the pipe and sends what has gathered.
ReceiveStart ==
    /\ work_resp # << >> /\ Head(work_resp) = <<"s">>
    /\ started' = TRUE
    /\ work_req' = work_req \o
          SetToSeq({<<s, request_map[s]>> : s \in {z \in Segments : request_map[z] > 0}})
    /\ request_map' = [s \in Segments |-> IF request_map[s] = -1 THEN -1 ELSE 0]
    /\ work_resp' = Tail(work_resp)
    /\ UNCHANGED <<work_inflight, invoked, ran>>

\* Message "d": the latest request follows, if there is one.
ReceiveDone_Forgets(s) ==
    /\ work_resp # << >> /\ Head(work_resp) = <<"d", s>>
    /\ request_map' = [request_map EXCEPT ![s] = -1]
    /\ work_resp' = Tail(work_resp)
    /\ UNCHANGED <<started, work_req, work_inflight, invoked, ran>>
ReceiveDone(s) ==
    /\ work_resp # << >> /\ Head(work_resp) = <<"d", s>>
    /\ IF request_map[s] > 0
       THEN request_map' = [request_map EXCEPT ![s] = 0] /\ SendWork(s, request_map[s])
       ELSE request_map' = [request_map EXCEPT ![s] = -1] /\ UNCHANGED work_req
    /\ work_resp' = Tail(work_resp)
    /\ UNCHANGED <<started, work_inflight, invoked, ran>>

-----------------------------------------------------------------------------
\* The worker, _p9k_worker_main.

Tell(s, done) == work_resp' = IF done THEN Append(work_resp, <<"d", s>>) ELSE work_resp

\* A request is evaluated; it may start subprocesses, _p9k_worker_async.  If
\* none is left it is done.
Evaluate(n) ==
    /\ work_req # << >>
    /\ LET s == Head(work_req)[1]
       IN  /\ ran' = [ran EXCEPT ![s] = Head(work_req)[2]]
           /\ work_inflight' = [work_inflight EXCEPT ![s] = @ + n]
           /\ Tell(s, work_inflight'[s] = 0)
    /\ work_req' = Tail(work_req)
    /\ UNCHANGED <<started, request_map, invoked>>

\* A subprocess has ended, with a result or without; its callback may start
\* n others.
IsLast_Any(left) == TRUE
IsLast(left) == left = 0
AsyncEnds(s, n) ==
    /\ work_inflight[s] > 0 /\ work_inflight[s] + n - 1 <= MaxAsync
    /\ work_inflight' = [work_inflight EXCEPT ![s] = @ + n - 1]
    /\ Tell(s, IsLast(work_inflight'[s]))
    /\ UNCHANGED <<started, request_map, work_req, invoked, ran>>

WorkProgress ==
    \/ ReceiveStart \/ \E s \in Segments : ReceiveDone(s)
    \/ \E n \in 0..MaxAsync : Evaluate(n)

WorkNext ==
    \/ \E s \in Segments : _p9k_worker_invoke(s)
    \/ WorkProgress
    \/ \E s \in Segments, n \in 0..1 : AsyncEnds(s, n)

WorkSpec == WorkInit /\ [][WorkNext]_workVars

-----------------------------------------------------------------------------
(* Once the worker has started, the map has a segment just while one       *)
(* request of it is on its way to the worker, waits for subprocesses, or   *)
(* is on its way back; there is never a second one.                        *)
OneAtATime ==
    started => \A s \in Segments :
       Cardinality({k \in 1..Len(work_req) : work_req[k][1] = s})
       + Cardinality({k \in 1..Len(work_resp) : work_resp[k] = <<"d", s>>})
       + (IF work_inflight[s] > 0 THEN 1 ELSE 0)
       = IF request_map[s] = -1 THEN 0 ELSE 1

(* The latest request of a segment is evaluated, however many came while   *)
(* others were with the worker.                                            *)
LatestRuns == \A s \in Segments : []<>(ran[s] = invoked[s])
=============================================================================
