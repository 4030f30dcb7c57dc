-------------------------------- MODULE Options --------------------------------
(***************************************************************************)
(* The options of gitstatus_start (gitstatus.plugin.zsh) on their way to   *)
(* the limits of the daemon (options.cc, options.h).  The shell passes     *)
(* most of them on as they were given, and goes by -m itself when it reads *)
(* an answer: the two must mean the same by it.                            *)
(*                                                                         *)
(* An option is its letter and its value, which is 0 if it takes none.     *)
(***************************************************************************)
EXTENDS Integers, Sequences

CONSTANTS
    LongMax,       \* the largest long; size_t has one bit more
    Values,        \* what the user may give, -LongMax - 1 .. LongMax and beyond
    ThreadCounts,  \* what GITSTATUS_NUM_THREADS or the processors give
    IndexSizes,    \* sizes of an index
    MaxOptions     \* a bound of a run

ASSUME OptionsAssumption ==
    /\ LongMax \in Nat /\ Values \subseteq Int /\ ThreadCounts \subseteq Nat
    /\ IndexSizes \subseteq 0..LongMax /\ MaxOptions \in Nat

Limit == {"s", "u", "c", "d", "m"}    \* -s INT and so on
Flag == {"e", "U", "W", "D"}

VARIABLES
    phase,                  \* "shell", "getopt", "running" or "exited"
    args,                   \* what the shell passes on
    dirty_max_index_size,   \* the shell's own
    asked,                  \* history: the user's last word, << >> if none
    optind,                 \* how many of args getopt_long has returned
    limits, flags,          \* Options: the limits, and the flags that are set
    num_threads

optVars == <<phase, args, dirty_max_index_size, asked, optind, limits, flags, num_threads>>

SizeMax == 2 * LongMax + 1

\* The defaults of options.h.
Default == [l \in Limit |-> IF l = "m" THEN SizeMax ELSE 1]

OptInit ==
    /\ phase = "shell" /\ args = << >> /\ dirty_max_index_size = -1
    /\ asked = [o \in Limit \cup Flag |-> << >>]
    /\ optind = 0 /\ limits = Default /\ flags = {} /\ num_threads = 1

-----------------------------------------------------------------------------
\* gitstatus_start

StartLimit(o, n) ==
    /\ phase = "shell" /\ Len(args) < MaxOptions
    /\ args' = Append(args, <<o, n>>)
    /\ dirty_max_index_size' = IF o = "m" THEN n ELSE dirty_max_index_size
    /\ asked' = [asked EXCEPT ![o] = <<n>>]
    /\ UNCHANGED <<phase, optind, limits, flags, num_threads>>

StartFlag(o) ==
    /\ phase = "shell" /\ Len(args) < MaxOptions
    /\ args' = Append(args, <<o, 0>>) /\ asked' = [asked EXCEPT ![o] = <<0>>]
    /\ UNCHANGED <<phase, dirty_max_index_size, optind, limits, flags, num_threads>>

\* +e and so on: the code takes -+e out of args (opt keeps its sign), which
\* is never there, and leaves every -e in.
StartUnflag(o) ==
    /\ phase = "shell" /\ asked' = [asked EXCEPT ![o] = << >>]
    /\ UNCHANGED <<phase, args, dirty_max_index_size, optind, limits, flags, num_threads>>

\* _gitstatus_daemon adds -v, -t and, in front, -G.
Launch(threads) ==
    /\ phase = "shell" /\ phase' = "getopt"
    /\ args' = << <<"G", 0>> >> \o args \o << <<"v", 0>>, <<"t", threads>> >>
    /\ UNCHANGED <<dirty_max_index_size, asked, optind, limits, flags, num_threads>>

-----------------------------------------------------------------------------
\* ParseOptions

IsLong(n) == -LongMax - 1 <= n /\ n <= LongMax
ParseSizeT_Zero(n) == IF n >= 0 THEN n ELSE 0
ParseSizeT(n) == IF n >= 0 THEN n ELSE SizeMax

Exit == phase' = "exited" /\ UNCHANGED <<limits, flags, num_threads>>

\* One option.  The pattern of -G may not match the version.
ParseOption(matches) ==
    /\ phase = "getopt" /\ optind < Len(args)
    /\ optind' = optind + 1
    /\ LET o == args[optind + 1][1]
           n == args[optind + 1][2]
       IN  CASE o \in Limit /\ IsLong(n) ->
                  limits' = [limits EXCEPT ![o] = ParseSizeT(n)] /\ UNCHANGED <<phase, flags, num_threads>>
             [] o \in Flag ->
                  flags' = flags \cup {o} /\ UNCHANGED <<phase, limits, num_threads>>
             [] o = "t" /\ n > 0 ->
                  num_threads' = n /\ UNCHANGED <<phase, limits, flags>>
             [] o = "v" \/ (o = "G" /\ matches) -> UNCHANGED <<phase, limits, flags, num_threads>>
             [] OTHER -> Exit
    /\ UNCHANGED <<args, dirty_max_index_size, asked>>

Parsed ==
    /\ phase = "getopt" /\ optind = Len(args) /\ phase' = "running"
    /\ UNCHANGED <<args, dirty_max_index_size, asked, optind, limits, flags, num_threads>>

OptNext ==
    \/ \E o \in Limit, n \in Values : StartLimit(o, n)
    \/ \E o \in Flag : StartFlag(o) \/ StartUnflag(o)
    \/ \E threads \in ThreadCounts : Launch(threads)
    \/ \E matches \in BOOLEAN : ParseOption(matches)
    \/ Parsed

OptSpec == OptInit /\ [][OptNext]_optVars

-----------------------------------------------------------------------------
\* GetIndexStats scans for unstaged and untracked files, and the shell takes
\* the counts of an answer for known.
Scans(size) == size <= limits["m"]
Known(size) == ~(dirty_max_index_size >= 0 /\ size > dirty_max_index_size)

(* A running daemon scans the very repositories whose counts the shell     *)
(* takes for known, goes by the user's last word on every limit (a         *)
(* negative one is none at all), and has every flag the user left set.     *)
OptionsAgree ==
    phase = "running" =>
       /\ \A size \in IndexSizes : Scans(size) <=> Known(size)
       /\ \A o \in Limit : limits[o] = IF asked[o] = << >> THEN Default[o]
                                       ELSE IF asked[o][1] < 0 THEN SizeMax ELSE asked[o][1]
       /\ {o \in Flag : asked[o] # << >>} \subseteq flags
=============================================================================
