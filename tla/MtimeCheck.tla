------------------------------ MODULE MtimeCheck ------------------------------
(***************************************************************************)
(* CheckDirMtime (check_dir_mtime.cc): does making a directory or a file   *)
(* show in the mtime of the directory it is made in?  Each daemon that     *)
(* opens a repository tries it in a temporary directory in .git, which it  *)
(* leaves there if it is killed; later ones remove what is old.  Daemons   *)
(* of several shells run it on the same repository at the same time.       *)
(*                                                                         *)
(* A check is also the name of its temporary directory.  Each system call  *)
(* is a step, and may fail; but rmdir and unlink fail only of what has     *)
(* something in it.                                                        *)
(***************************************************************************)
EXTENDS Integers, Sequences, FiniteSets, SequencesExt

CONSTANTS
    Checks,         \* calls of CheckDirMtime
    FsKinds,        \* what may show in an mtime: sets of "file" and "dir"
    StaleAge,       \* 10 seconds
    MaxClock        \* a bound on the time of a run

\* What a check makes, in this order, "." being the temporary directory itself,
\* and in what each is.
Made == <<".", "/a", "/b", "/a/1", "/b/1">>
Parent ==
    [p \in {"/a", "/b", "/a/1", "/b/1"} |->
        IF p = "/a/1" THEN "/a" ELSE IF p = "/b/1" THEN "/b" ELSE "."]
KindOf(p) == IF p = "/b/1" THEN "file" ELSE "dir"

ASSUME CheckAssumption ==
    /\ Checks \subseteq Nat  \* in the order of the listing
    /\ FsKinds \subseteq SUBSET {"file", "dir"} /\ StaleAge \in Nat /\ MaxClock \in Nat

VARIABLES
    fs,             \* the file system: a member of FsKinds
    clock,
    tmp,            \* what there is of each temporary directory
    mtime,          \* of ".", "/a" and "/b" in each
    at_step,        \* where each check is
    now,            \* the time each has read before it lists .git
    todo,           \* the temporary directories it has found and yet to look at
    unlinks,        \* what it has yet to remove of the first, if that is stale
    a_st, b_st,     \* its stats of /a and /b
    outcome,        \* what it returns: "true" or "false"
    left            \* history: the stale directories nobody used when it looked at them

checkVars == <<fs, clock, now, tmp, mtime, at_step, todo, unlinks, a_st, b_st, outcome, left>>
files == <<tmp, mtime>>

CheckInit ==
    /\ fs \in FsKinds /\ clock = 0 /\ now = [c \in Checks |-> 0]
    /\ tmp = [c \in Checks |-> {}]
    /\ mtime = [c \in Checks |-> [p \in {".", "/a", "/b"} |-> 0]]
    /\ at_step = [c \in Checks |-> "start"]
    /\ todo = [c \in Checks |-> {}] /\ unlinks = [c \in Checks |-> << >>]
    /\ a_st = [c \in Checks |-> 0] /\ b_st = [c \in Checks |-> 0]
    /\ outcome = [c \in Checks |-> "none"] /\ left = [c \in Checks |-> {}]

Go(c, s) == at_step' = [at_step EXCEPT ![c] = s]

\* The mtimes in d after p has been made or removed.
Touched(d, p) ==
    [q \in DOMAIN mtime[d] |->
        IF q = p \/ (p # "." /\ q = Parent[p] /\ KindOf(p) \in fs) THEN clock ELSE mtime[d][q]]

Make(d, p) ==
    /\ tmp' = [tmp EXCEPT ![d] = @ \cup {p}] /\ mtime' = [mtime EXCEPT ![d] = Touched(d, p)]

Holds(d, p) == \E q \in tmp[d] \ {"."} : Parent[q] = p

\* unlink or rmdir, which does nothing if p is gone and fails if it is not
\* empty.
RemovePath(d, p) ==
    IF p \in tmp[d] /\ ~Holds(d, p)
    THEN tmp' = [tmp EXCEPT ![d] = @ \ {p}] /\ mtime' = [mtime EXCEPT ![d] = Touched(d, p)]
    ELSE UNCHANGED files

-----------------------------------------------------------------------------
\* RemoveStaleDirs.

\* To the check c.
Stale(c, d) == "." \in tmp[d] /\ mtime[d]["."] + StaleAge <= now[c]

RemovalOrder_RootFirst == <<"/b/1", "/a", "/a/1", "/b", ".">>
RemovalOrder == <<"/b/1", "/a/1", "/a", "/b", ".">>

Ended(c) == at_step[c] = "killed" \/ (at_step[c] = "clean" /\ unlinks[c] = << >>)

\* .git is listed, or cannot be.
FindDirs(c) ==
    /\ at_step[c] = "start" /\ Go(c, "sweep")
    /\ now' = [now EXCEPT ![c] = clock]
    /\ \E dirs \in {{}, {d \in Checks : "." \in tmp[d]}} : todo' = [todo EXCEPT ![c] = dirs]
    /\ unlinks' = [unlinks EXCEPT ![c] = << >>] /\ left' = [left EXCEPT ![c] = {}]
    /\ UNCHANGED <<fs, clock, files, a_st, b_st, outcome>>

IsNext(c, d) == at_step[c] = "sweep" /\ d \in todo[c] /\ \A e \in todo[c] : d <= e

\* The next has not been removed by then and is stale, or it is passed over.
StatNext(c, d) ==
    /\ IsNext(c, d) /\ unlinks[c] = << >>
    /\ \/ /\ Stale(c, d)
          /\ unlinks' = [unlinks EXCEPT ![c] = RemovalOrder]
          /\ left' = [left EXCEPT ![c] = IF Ended(d) THEN @ \cup {d} ELSE @]
          /\ UNCHANGED todo
       \/ /\ ~Stale(c, d)
          /\ todo' = [todo EXCEPT ![c] = @ \ {d}]
          /\ UNCHANGED <<unlinks, left>>
    /\ UNCHANGED <<fs, clock, now, files, at_step, a_st, b_st, outcome>>

\* A directory that is not empty ends the removal of its tree.
RemoveNext(c, d) ==
    /\ IsNext(c, d) /\ unlinks[c] # << >>
    /\ LET p == Head(unlinks[c])
           more == ~Holds(d, p) /\ Len(unlinks[c]) > 1
       IN  /\ RemovePath(d, p)
           /\ unlinks' = [unlinks EXCEPT ![c] = IF more THEN Tail(@) ELSE << >>]
           /\ todo' = [todo EXCEPT ![c] = IF more THEN @ ELSE @ \ {d}]
    /\ UNCHANGED <<fs, clock, now, at_step, a_st, b_st, outcome, left>>

-----------------------------------------------------------------------------
\* The check.

\* VERIFY: mkdtemp, mkdir, creat or lstat fails, because its path is gone or
\* otherwise, and the guards undo what was done.
Fail(c) ==
    /\ at_step[c] \in {"sweep", "/a", "a_st", "/b", "b_st", "/a/1", "a?", "/b/1", "b?"}
    /\ at_step[c] = "sweep" => todo[c] = {}
    /\ outcome' = [outcome EXCEPT ![c] = "false"]
    /\ unlinks' = [unlinks EXCEPT ![c] = Reverse(Made)] /\ Go(c, "clean")
    /\ UNCHANGED <<fs, clock, now, files, todo, a_st, b_st, left>>

Mkdtemp(c) ==
    /\ at_step[c] = "sweep" /\ todo[c] = {}
    /\ Make(c, ".") /\ Go(c, "/a")
    /\ UNCHANGED <<fs, clock, now, todo, unlinks, a_st, b_st, outcome, left>>

After ==
    [p \in DOMAIN Parent |->
        CASE p = "/a" -> "a_st" [] p = "/b" -> "b_st" [] p = "/a/1" -> "a?" [] p = "/b/1" -> "b?"]
MakeNext(c) ==
    /\ at_step[c] \in DOMAIN Parent /\ Parent[at_step[c]] \in tmp[c]
    /\ Make(c, at_step[c]) /\ Go(c, After[at_step[c]])
    /\ UNCHANGED <<fs, clock, now, todo, unlinks, a_st, b_st, outcome, left>>

StatA(c) ==
    /\ at_step[c] = "a_st" /\ "/a" \in tmp[c]
    /\ a_st' = [a_st EXCEPT ![c] = mtime[c]["/a"]] /\ Go(c, "/b")
    /\ UNCHANGED <<fs, clock, now, files, todo, unlinks, b_st, outcome, left>>

\* Then sleep(1).
StatB(c) ==
    /\ at_step[c] = "b_st" /\ "/b" \in tmp[c]
    /\ b_st' = [b_st EXCEPT ![c] = mtime[c]["/b"]] /\ Go(c, "sleep")
    /\ UNCHANGED <<fs, clock, now, files, todo, unlinks, a_st, outcome, left>>

Slept(c) ==
    /\ at_step[c] = "sleep" /\ clock > b_st[c]
    /\ Go(c, "/a/1")
    /\ UNCHANGED <<fs, clock, now, files, todo, unlinks, a_st, b_st, outcome, left>>

StatChanged(c, p, prev) == mtime[c][p] # prev

Judge(c, p, prev, next) ==
    /\ p \in tmp[c]
    /\ IF StatChanged(c, p, prev)
       THEN Go(c, next) /\ outcome' = [outcome EXCEPT ![c] = IF p = "/b" THEN "true" ELSE @]
       ELSE Go(c, "clean") /\ outcome' = [outcome EXCEPT ![c] = "false"]
    /\ unlinks' = [unlinks EXCEPT ![c] = Reverse(Made)]
    /\ UNCHANGED <<fs, clock, now, files, todo, a_st, b_st, left>>

CheckA(c) == at_step[c] = "a?" /\ Judge(c, "/a", a_st[c], "/b/1")
CheckB(c) == at_step[c] = "b?" /\ Judge(c, "/b", b_st[c], "clean")

\* The scope guards, whose calls may fail without notice.
CleanUp(c) ==
    /\ at_step[c] = "clean" /\ unlinks[c] # << >>
    /\ RemovePath(c, Head(unlinks[c]))
    /\ unlinks' = [unlinks EXCEPT ![c] = Tail(@)]
    /\ UNCHANGED <<fs, clock, now, at_step, todo, a_st, b_st, outcome, left>>

\* A daemon is killed: its directory stays, what it knows is gone.
Killed(c) ==
    /\ at_step[c] # "killed" /\ Go(c, "killed")
    /\ now' = [now EXCEPT ![c] = 0] /\ unlinks' = [unlinks EXCEPT ![c] = << >>]
    /\ a_st' = [a_st EXCEPT ![c] = 0] /\ b_st' = [b_st EXCEPT ![c] = 0]
    /\ UNCHANGED <<fs, clock, files, todo, outcome, left>>  \* todo for StaleRemoved

Tick ==
    /\ clock < MaxClock /\ clock' = clock + 1
    /\ UNCHANGED <<fs, now, files, at_step, todo, unlinks, a_st, b_st, outcome, left>>

CheckNext ==
    \/ \E c \in Checks :
          \/ FindDirs(c) \/ \E d \in Checks : StatNext(c, d) \/ RemoveNext(c, d)
          \/ Mkdtemp(c) \/ MakeNext(c) \/ StatA(c) \/ StatB(c) \/ Slept(c)
          \/ CheckA(c) \/ CheckB(c) \/ Fail(c) \/ CleanUp(c) \/ Killed(c)
    \/ Tick

CheckSpec == CheckInit /\ [][CheckNext]_checkVars

-----------------------------------------------------------------------------
(* The cache is enabled only where both a new directory and a new file     *)
(* show, even if another daemon takes the temporary directory for a stale  *)
(* one and removes it during the check.                                    *)
CheckSound == \A c \in Checks : outcome[c] = "true" => fs = {"file", "dir"}

(* A check leaves nothing behind, and what a killed one has left is        *)
(* removed by the next check that finds it old, whatever there was of it,  *)
(* and although two of them remove it together.                            *)
StaleRemoved ==
    \A c \in Checks :
       /\ at_step[c] = "clean" /\ unlinks[c] = << >> => tmp[c] = {}
       /\ \A d \in left[c] \ todo[c] : tmp[d] = {}

(* Both of these, whatever the daemons do to each other.                   *)
CheckRight == CheckSound /\ StaleRemoved
=============================================================================
