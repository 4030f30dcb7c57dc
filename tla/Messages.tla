------------------------------- MODULE Messages -------------------------------
(***************************************************************************)
(* The bytes on the two pipes of the daemon.  RequestReader (request.cc)   *)
(* makes requests of what it reads, which comes in pieces that know        *)
(* nothing of messages; ResponseWriter (response.cc) makes messages of     *)
(* fields that may contain anything, and takes back what it has of one if  *)
(* the request fails.  The module Daemon has the same reader and writer,   *)
(* with whole messages.                                                    *)
(*                                                                         *)
(* A message is a sequence of characters.                                  *)
(***************************************************************************)
EXTENDS Integers, Sequences, FiniteSets, SequencesExt

CONSTANTS
    kFieldSep, kMsgSep,     \* characters 31 and 30
    Colon, Zero, One,
    Control,                \* characters that cannot be printed
    kUnreadable,            \* the question mark
    ShellMessages,               \* messages the shell may write, without kMsgSep
    FieldValues,            \* fields an answer may have
    BufSize,                \* 256
    MaxRequests, MaxFields  \* bounds of a run

ASSUME MessagesAssumption ==
    /\ kFieldSep # kMsgSep /\ {kFieldSep, kMsgSep} \subseteq Control
    /\ Control \cap {kUnreadable, Colon, Zero, One} = {}
    /\ \A m \in ShellMessages \cup FieldValues : m \in Seq(Range(m))
    /\ \A m \in ShellMessages : ~Contains(m, kMsgSep)
    /\ BufSize \in Nat \ {0} /\ MaxRequests \in Nat /\ MaxFields \in Nat

VARIABLES
    pipe,         \* what the shell has written and the daemon has not read
    read_,        \* what the daemon has read and not used
    reading,      \* "enter" ReadRequest, "select", "write" an answer, or "exit"
    shell_open,   \* the shell has its end of the pipe
    strm_,        \* the answer to be
    done_,
    answer_fields,    \* history: the fields it has, without the first two
    stdout,
    messages,     \* history: what the shell has written
    got,          \* history: what became of each message, a request or "malformed"
    given         \* history: what was to be answered

msgVars == <<pipe, read_, reading, shell_open, strm_, done_, answer_fields, stdout, messages, got, given>>
writer == <<strm_, done_, answer_fields, stdout, given>>

MsgInit ==
    /\ pipe = << >> /\ read_ = << >> /\ reading = "enter" /\ shell_open = TRUE
    /\ strm_ = << >> /\ done_ = TRUE /\ answer_fields = << >> /\ stdout = << >>
    /\ messages = << >> /\ got = << >> /\ given = << >>

\* Where c is for the first time, or one beyond the end: std::find.
Find(s, c) ==
    IF Contains(s, c) THEN SelectInSeq(s, LAMBDA d : d = c) ELSE Len(s) + 1
Suffix(s, k) == SubSeq(s, k, Len(s))

-----------------------------------------------------------------------------
\* The shell, which may be gone before it has written all of a message.

WriteMessage(m) ==
    /\ shell_open /\ Len(messages) < MaxRequests
    /\ pipe' = pipe \o m \o <<kMsgSep>> /\ messages' = Append(messages, m)
    /\ UNCHANGED <<read_, reading, shell_open, writer, got>>

CloseShell(rest) ==
    /\ shell_open /\ shell_open' = FALSE /\ pipe' = pipe \o rest
    /\ UNCHANGED <<read_, reading, writer, messages, got>>

-----------------------------------------------------------------------------
\* ParseRequest

NoRequest == [id |-> << >>, dir |-> << >>, from_dotgit |-> FALSE, diff |-> FALSE, ok |-> FALSE]

ParseRequest(s) ==
    LET sep == Find(s, kFieldSep)
        colon == sep < Len(s) /\ s[sep + 1] = Colon
        begin == IF colon THEN sep + 2 ELSE sep + 1
        end == begin + Find(Suffix(s, begin), kFieldSep) - 1
        req(diff) == [id |-> SubSeq(s, 1, sep - 1), dir |-> SubSeq(s, begin, end - 1),
                      from_dotgit |-> colon, diff |-> diff, ok |-> TRUE]
    IN  IF sep > Len(s) THEN NoRequest
        ELSE IF end > Len(s) THEN req(TRUE)
        ELSE IF end + 1 = Len(s) /\ s[end + 1] \in {Zero, One} THEN req(s[end + 1] = Zero)
        ELSE NoRequest

\* A request that cannot be parsed has no answer.
TakeMessage(msg) ==
    LET req == ParseRequest(msg)
    IN  /\ got' = Append(got, req)
        /\ IF req.ok THEN reading' = "write" ELSE reading' = "enter"

-----------------------------------------------------------------------------
\* ReadRequest

ReadBuffered ==
    /\ reading = "enter" /\ Contains(read_, kMsgSep)
    /\ LET eol == Find(read_, kMsgSep)
       IN  TakeMessage(SubSeq(read_, 1, eol - 1)) /\ read_' = Suffix(read_, eol + 1)
    /\ UNCHANGED <<pipe, shell_open, writer, messages>>

SelectPipe ==
    /\ reading = "enter" /\ ~Contains(read_, kMsgSep) /\ reading' = "select"
    /\ UNCHANGED <<pipe, read_, shell_open, writer, messages, got>>

\* The end of the message is looked for in what is new.
Erased_KeepsEnd(msg) == Len(msg)
Erased(msg) == Len(msg) + 1
ReadBytes(n) ==
    /\ reading = "select" /\ n \in 1..BufSize /\ n <= Len(pipe)
    /\ pipe' = Suffix(pipe, n + 1)
    /\ LET buf == SubSeq(pipe, 1, n)
           eol == Find(buf, kMsgSep)
           all == read_ \o buf
           msg == SubSeq(all, 1, Len(all) - (n - (eol - 1)))
       IN  IF eol > n THEN read_' = all /\ UNCHANGED <<reading, got>>
           ELSE TakeMessage(msg) /\ read_' = Suffix(all, Erased(msg) + 1)
    /\ UNCHANGED <<shell_open, writer, messages>>

\* There is nothing for a second.
TimesOut ==
    /\ reading = "select" /\ pipe = << >> /\ shell_open /\ reading' = "enter"
    /\ UNCHANGED <<pipe, read_, shell_open, writer, messages, got>>

ReadsEof ==
    /\ reading = "select" /\ pipe = << >> /\ ~shell_open /\ reading' = "exit"
    /\ UNCHANGED <<pipe, read_, shell_open, writer, messages, got>>

-----------------------------------------------------------------------------
\* ResponseWriter

SafePrint(s) == [k \in DOMAIN s |-> IF s[k] \in Control THEN kUnreadable ELSE s[k]]
PrintField(s) == <<kFieldSep>> \o SafePrint(s)
AnswerId == got[Len(got)].id

BeginAnswer ==
    /\ reading = "write" /\ done_
    /\ strm_' = SafePrint(AnswerId) \o PrintField(<<One>>) /\ done_' = FALSE /\ answer_fields' = << >>
    /\ UNCHANGED <<pipe, read_, reading, shell_open, stdout, messages, got, given>>

PrintNext(val) ==
    /\ reading = "write" /\ ~done_ /\ Len(answer_fields) < MaxFields
    /\ strm_' = strm_ \o PrintField(val) /\ answer_fields' = Append(answer_fields, SafePrint(val))
    /\ UNCHANGED <<pipe, read_, reading, shell_open, done_, stdout, messages, got, given>>

DumpAs(text, answer) ==
    /\ done_' = TRUE /\ stdout' = stdout \o text \o <<kMsgSep>> /\ given' = Append(given, answer)
    /\ strm_' = << >> /\ answer_fields' = << >> /\ reading' = "enter"
    /\ UNCHANGED <<pipe, read_, shell_open, messages, got>>

DumpAnswer ==
    /\ reading = "write" /\ ~done_ /\ Len(answer_fields) = MaxFields
    /\ DumpAs(strm_, <<SafePrint(AnswerId), <<One>>>> \o answer_fields)

\* ~ResponseWriter, before everything was printed: strm_.str("").
AnswerDestroyed ==
    /\ reading = "write" /\ ~done_
    /\ DumpAs(SafePrint(AnswerId) \o PrintField(<<Zero>>), <<SafePrint(AnswerId), <<Zero>>>>)

MsgNext ==
    \/ \E m \in ShellMessages : WriteMessage(m) \/ \E k \in 0..Len(m) : CloseShell(SubSeq(m, 1, k))
    \/ ReadBuffered \/ SelectPipe \/ (\E n \in 1..BufSize : ReadBytes(n)) \/ TimesOut \/ ReadsEof
    \/ BeginAnswer \/ (\E val \in FieldValues : PrintNext(val)) \/ DumpAnswer \/ AnswerDestroyed

MsgSpec == MsgInit /\ [][MsgNext]_msgVars

-----------------------------------------------------------------------------
\* The parts of s between its separators.
SplitAt(s, c) ==
    LET ends == {0, Len(s) + 1} \cup {k \in DOMAIN s : s[k] = c}
    IN  [i \in 1..Cardinality(ends) - 1 |->
           LET lo == CHOOSE k \in ends : Cardinality({e \in ends : e < k}) = i - 1
               hi == CHOOSE k \in ends : Cardinality({e \in ends : e < k}) = i
           IN  SubSeq(s, lo + 1, hi - 1)]

\* What a message means (options.cc, INPUT).
Meant(m) ==
    LET f == SplitAt(m, kFieldSep)
        dotgit == Len(f) > 1 /\ f[2] # << >> /\ f[2][1] = Colon
    IN  IF Len(f) \in 2..3 /\ (Len(f) = 3 => f[3] \in {<<Zero>>, <<One>>})
        THEN [id |-> f[1], dir |-> IF dotgit THEN Tail(f[2]) ELSE f[2], from_dotgit |-> dotgit,
              diff |-> Len(f) = 2 \/ f[3] = <<Zero>>, ok |-> TRUE]
        ELSE NoRequest

(* However the pipe cuts the messages of the shell, each is read once, in  *)
(* order, and for what it says; the daemon does not leave at the end of    *)
(* the file with a message in its buffer.  The shell in turn finds in what *)
(* the daemon writes the fields of each answer, whatever is in them and    *)
(* however far an answer had come when its request failed.                 *)
MessagesExact ==
    /\ Len(got) <= Len(messages) /\ \A k \in DOMAIN got : got[k] = Meant(messages[k])
    /\ reading = "exit" => Len(got) = Len(messages)
    /\ LET answers == SplitAt(stdout, kMsgSep)
       IN  /\ Len(answers) = Len(given) + 1 /\ Last(answers) = << >>
           /\ \A k \in DOMAIN given : SplitAt(answers[k], kFieldSep) = given[k]
=============================================================================
