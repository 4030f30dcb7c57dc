-------------------------------- MODULE Client --------------------------------
(***************************************************************************)
(* The zsh client of the daemon (gitstatus.plugin.zsh): gitstatus_query    *)
(* with its timeout and callback, the answers that come later, and what it *)
(* does when the daemon dies.                                              *)
(*                                                                         *)
(* The daemon is external: it answers requests in order, each once, and    *)
(* may be killed.  An answer comes through the pipe in two pieces, its     *)
(* beginning and its end, and a read returns at least one piece.  A query  *)
(* is a number, its request id.                                            *)
(***************************************************************************)
EXTENDS Integers, Sequences, FiniteSets, SequencesExt

CONSTANTS MaxQueries, MaxKills     \* bounds of a run

ASSUME ClientAssumption == MaxQueries \in Nat /\ MaxKills \in Nat

VARIABLES
    state,        \* _GITSTATUS_STATE_$name: 0 or 2
    inflight,     \* _GITSTATUS_NUM_INFLIGHT_$name
    req, resp,    \* the pipes
    alive, busy,  \* the daemon, and the request it is at, 0 for none
    begun,        \* it has written the beginning of the answer
    kills,        \* how many daemons were killed
    shell,        \* "idle", or where the shell is: "read", "rest", "answers"
    caller,       \* of _gitstatus_process_response: "query", "results", "zle"
    req_id,       \* the query it is for, 0 if there is none
    finite,       \* it has a timeout
    buf,          \* what it has read
    result,       \* VCS_STATUS_RESULT: "none", "tout", "sync" or "async"
    last,         \* history: the last query
    cb,           \* history: the queries with a callback
    fate          \* history: what has become of each query

clientVars == <<state, inflight, req, resp, alive, busy, begun, kills, shell, caller, req_id,
                finite, buf, result, last, cb, fate>>
daemon == <<alive, busy, begun, kills>>
call   == <<caller, req_id, finite>>

Queries == 1..MaxQueries

ClientInit ==
    /\ state = 0 /\ inflight = 0 /\ req = << >> /\ resp = << >>
    /\ alive = FALSE /\ busy = 0 /\ begun = FALSE /\ kills = 0
    /\ shell = "idle" /\ caller = "query" /\ req_id = 0 /\ finite = FALSE
    /\ buf = << >> /\ result = "none"
    /\ last = 0 /\ cb = {} /\ fate = [q \in Queries |-> "unsent"]

-----------------------------------------------------------------------------
\* The daemon and its pipes.

TakeRequest ==
    /\ alive /\ busy = 0 /\ req # << >>
    /\ busy' = Head(req) /\ req' = Tail(req)
    /\ UNCHANGED <<state, inflight, resp, alive, begun, kills, shell, call, buf, result, last, cb, fate>>

Piece(q, end) == [id |-> q, end |-> end]

WriteBegin ==
    /\ alive /\ busy # 0 /\ ~begun
    /\ resp' = Append(resp, Piece(busy, FALSE)) /\ begun' = TRUE
    /\ UNCHANGED <<state, inflight, req, alive, busy, kills, shell, call, buf, result, last, cb, fate>>

WriteEnd ==
    /\ alive /\ begun
    /\ resp' = Append(resp, Piece(busy, TRUE)) /\ busy' = 0 /\ begun' = FALSE
    /\ UNCHANGED <<state, inflight, req, alive, kills, shell, call, buf, result, last, cb, fate>>

Kill ==
    /\ alive /\ kills < MaxKills
    /\ alive' = FALSE /\ kills' = kills + 1
    /\ UNCHANGED <<state, inflight, req, resp, busy, begun, shell, call, buf, result, last, cb, fate>>

-----------------------------------------------------------------------------
\* gitstatus_start, up to the answer to its first message.
gitstatus_start ==
    /\ shell = "idle" /\ state = 0
    /\ state' = 2 /\ alive' = TRUE
    /\ UNCHANGED <<inflight, req, resp, busy, begun, kills, shell, call, buf, result, last, cb, fate>>

Waiting == {q \in Queries : fate[q] \in {"sent", "late"}}

\* gitstatus_stop kills the daemon and forgets its answers.
gitstatus_stop ==
    /\ state' = 0 /\ inflight' = 0
    /\ req' = << >> /\ resp' = << >> /\ alive' = FALSE /\ busy' = 0 /\ begun' = FALSE
    /\ shell' = "idle" /\ buf' = << >> /\ result' = "none"
    /\ fate' = [q \in Queries |-> IF q \in Waiting THEN "lost" ELSE fate[q]]
    /\ UNCHANGED <<kills, call, last, cb>>

Stop == shell = "idle" /\ state = 2 /\ gitstatus_stop

-----------------------------------------------------------------------------
\* _gitstatus_process_response

ProcessResponse(who, id, timed) ==
    /\ shell' = "read" /\ caller' = who /\ req_id' = id /\ finite' = timed

\* A query with timeout 0 reads nothing.  If the daemon is gone its request
\* cannot be written, and nothing changes.
gitstatus_query(callback, timeout) ==
    /\ shell = "idle" /\ state = 2 /\ alive /\ last < MaxQueries
    /\ last' = last + 1 /\ cb' = IF callback THEN cb \cup {last'} ELSE cb
    /\ req' = Append(req, last') /\ inflight' = inflight + 1
    /\ IF timeout = "zero"
       THEN /\ result' = "tout" /\ fate' = [fate EXCEPT ![last'] = "late"]
            /\ UNCHANGED <<shell, call>>
       ELSE /\ ProcessResponse("query", last', timeout = "finite")
            /\ result' = "none" /\ fate' = [fate EXCEPT ![last'] = "sent"]
    /\ UNCHANGED <<state, resp, daemon, buf>>

gitstatus_process_results(timed) ==
    /\ shell = "idle" /\ state = 2 /\ inflight > 0
    /\ ProcessResponse("results", 0, timed)
    /\ UNCHANGED <<state, inflight, req, resp, daemon, buf, result, last, cb, fate>>

\* zle -F: there is something to read, or the end of the file.
Ready ==
    /\ shell = "idle" /\ state = 2 /\ resp # << >>
    /\ ProcessResponse("zle", 0, TRUE)
    /\ UNCHANGED <<state, inflight, req, resp, daemon, buf, result, last, cb, fate>>

HangUp == shell = "idle" /\ state = 2 /\ resp = << >> /\ ~alive /\ gitstatus_stop

\* The loops around it go on until the last answer is the query's own, or none
\* is left to come, each time with the whole timeout.
ReadsOn(who) == caller = who /\ result = "async" /\ (who = "query" \/ inflight > 0)

\* Without a query to time out, VCS_STATUS_RESULT stays what it was.
Timeout ==
    /\ shell = "read" /\ finite /\ resp = << >>
    /\ shell' = IF ReadsOn("results") THEN "read" ELSE "idle"
    /\ IF req_id # 0 THEN result' = "tout" /\ fate' = [fate EXCEPT ![req_id] = "late"]
                     ELSE UNCHANGED <<result, fate>>
    /\ UNCHANGED <<state, inflight, req, resp, daemon, call, buf, last, cb>>

\* sysread; the rest of an answer is waited for without a timeout.
Sysread(n) ==
    /\ shell \in {"read", "rest"} /\ n \in 1..Len(resp)
    /\ buf' = buf \o SubSeq(resp, 1, n) /\ resp' = SubSeq(resp, n + 1, Len(resp))
    /\ shell' = IF resp[n].end THEN "answers" ELSE "rest"
    /\ UNCHANGED <<state, inflight, req, daemon, call, result, last, cb, fate>>

EndOfFile_FirstReadOnly == shell = "read" /\ resp = << >> /\ ~alive /\ gitstatus_stop
EndOfFile == shell \in {"read", "rest"} /\ resp = << >> /\ ~alive /\ gitstatus_stop

\* One answer of those in buf: the query's own, or that of an earlier one,
\* whose callback is run.
IsOwn_Any(id) == req_id # 0
IsOwn(id) == id = req_id
Answer ==
    /\ shell = "answers" /\ buf # << >>
    /\ LET id == Head(buf).id
       IN  /\ result' = IF IsOwn(id) THEN "sync" ELSE "async"
           /\ fate' = [fate EXCEPT ![id] =
                 IF IsOwn(id) THEN IF @ = "sent" THEN "returned" ELSE "wrong"
                 ELSE IF @ = "late" THEN IF id \in cb THEN "called" ELSE "dropped" ELSE "wrong"]
    /\ inflight' = inflight - 1 /\ buf' = SubSeq(buf, 3, Len(buf))
    /\ UNCHANGED <<state, req, resp, daemon, shell, call, last, cb>>

Processed ==
    /\ shell = "answers" /\ buf = << >>
    /\ shell' = IF ReadsOn("query") \/ ReadsOn("results") THEN "read" ELSE "idle"
    /\ UNCHANGED <<state, inflight, req, resp, daemon, call, buf, result, last, cb, fate>>

Reads ==
    \/ \E n \in 1..Len(resp) : Sysread(n)
    \/ EndOfFile \/ Answer \/ Processed

ClientNext ==
    \/ TakeRequest \/ WriteBegin \/ WriteEnd \/ Kill
    \/ gitstatus_start \/ Stop
    \/ \E callback \in BOOLEAN, timeout \in {"zero", "finite", "infinite"} :
          gitstatus_query(callback, timeout)
    \/ \E timed \in BOOLEAN : gitstatus_process_results(timed)
    \/ Ready \/ HangUp \/ Timeout \/ Reads

ClientSpec == ClientInit /\ [][ClientNext]_clientVars

\* The daemon answers or dies, and the shell reads what there is to read.
ClientProgress == TakeRequest \/ WriteBegin \/ WriteEnd \/ Reads

-----------------------------------------------------------------------------
(* No answer goes astray.  A query that returns a result returns its own;  *)
(* the answer to a query that has timed out runs its callback, once, and   *)
(* nothing but the end of its daemon can keep it from doing so.            *)
(* _GITSTATUS_NUM_INFLIGHT is the number of answers the shell may still    *)
(* wait for, through timeouts, partial reads and new daemons.              *)
AnswersRight ==
    /\ inflight = Cardinality(Waiting)
    /\ \A q \in Queries : fate[q] # "wrong"
    /\ shell = "idle" => \A q \in Queries : fate[q] # "sent"
    /\ \A q \in Waiting :
          /\ state = 2
          /\ alive => q = busy \/ (\E k \in 1..Len(req) : req[k] = q)
                      \/ (\E k \in 1..Len(resp) : resp[k] = Piece(q, TRUE))
                      \/ (\E k \in 1..Len(buf) : buf[k] = Piece(q, TRUE))

(* A query returns, whether its daemon answers, dies before its answer or  *)
(* in the middle of it, and whatever earlier answers come first.           *)
QueryReturns == shell # "idle" ~> shell = "idle"
=============================================================================
