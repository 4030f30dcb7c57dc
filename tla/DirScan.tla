------------------------------- MODULE DirScan -------------------------------
(***************************************************************************)
(* One directory of the work tree, scanned by one request after another    *)
(* while programs change it (index.cc: the loop of ScanDirs; dir.cc: its   *)
(* listing; repo.cc: untracked_cache_).  A request stats the files of the  *)
(* index, and finds what is new either by listing the directory or, if its *)
(* stat is that of the last listing, in what that listing found.           *)
(*                                                                         *)
(* Names are numbers in the order of Str::Cmp; a sorted list of names is   *)
(* the set of them, which is walked through from the least on.  A stat of  *)
(* the directory is the number of its last change that shows in it:        *)
(* timestamps are fresh.                                                   *)
(***************************************************************************)
EXTENDS Integers

CONSTANTS
    Names, DotGit,
    FileNames, DirNames,   \* the files and subdirectories of the index
    FileSystems,           \* what may show in a directory's stat when made or
                           \* removed there: sets of "file" and "dir"
    TrustFilemode,         \* RepoCaps::trust_filemode
    Self,                  \* the path of the directory itself as a candidate
    NoStat,                \* dir.st = {}
    MaxChanges             \* a bound on the changes of a run

ASSUME DirAssumption ==
    /\ Names \subseteq Nat /\ DotGit \in Names \ (FileNames \cup DirNames)
    /\ FileNames \subseteq Names /\ DirNames \subseteq Names
    /\ FileSystems \subseteq SUBSET {"file", "dir"}
    /\ TrustFilemode \in BOOLEAN /\ MaxChanges \in Nat
    /\ Self \notin Names /\ NoStat \notin Nat

\* What a name may be: "indexed" is a file with the stat of its entry,
\* "chmod" differs from it in its mode only, and "file" is any other one.
Kinds == {"none", "file", "indexed", "chmod", "dir"}

VARIABLES
    shows,            \* the file system: a member of FileSystems
    disk,             \* what each name is
    there,            \* the directory can be opened
    stamp, changes,   \* its stat, and how many changes there were
    untracked_cache_, \* Tribool
    st, unmatched,    \* IndexDir::st, IndexDir::unmatched
    at_,              \* where ScanDirs is
    opts,             \* its ScanOpts
    unread,           \* what ListDir has not read
    list, listed_dirs,   \* what is left of the listing; the directories in it
    file, subdir,     \* what is left of dir.files and dir.subdirs
    found,            \* its candidates
    steady, failed    \* history: names as they were when the request began;
                      \* a system call has failed since

dirVars == <<shows, disk, there, stamp, changes, untracked_cache_, st, unmatched, at_, opts,
             unread, list, listed_dirs, file, subdir, found, steady, failed>>
outside == <<shows, disk, there, stamp, changes>>
cache   == <<untracked_cache_, st, unmatched>>
merge   == <<unread, list, listed_dirs, file, subdir>>

Start ==
    [n \in Names |-> IF n \in FileNames THEN "indexed"
                     ELSE IF n \in DirNames \cup {DotGit} THEN "dir" ELSE "none"]

DirInit ==
    /\ shows \in FileSystems
    /\ disk = Start /\ there = TRUE /\ stamp = 0 /\ changes = 0
    /\ untracked_cache_ \in {"unknown", "false"} /\ st = NoStat /\ unmatched = {}
    /\ at_ = "idle" /\ opts = [include_untracked |-> FALSE, untracked_cache |-> "unknown"]
    /\ unread = {} /\ list = {} /\ listed_dirs = {} /\ file = {} /\ subdir = {}
    /\ found = {} /\ steady = {} /\ failed = FALSE

-----------------------------------------------------------------------------
\* Other programs.

Entry_(kind) == IF kind = "dir" THEN {"dir"} ELSE IF kind = "none" THEN {} ELSE {"file"}

\* Making, removing and replacing a name may show in the directory; writing
\* to a file does not.
Change(n, kind) ==
    /\ changes < MaxChanges /\ kind # disk[n]
    /\ n \notin FileNames => kind \notin {"indexed", "chmod"}
    /\ disk' = [disk EXCEPT ![n] = kind] /\ changes' = changes + 1
    /\ stamp' = IF Entry_(kind) # Entry_(disk[n])
                   /\ (Entry_(kind) \cup Entry_(disk[n])) \cap shows # {}
                THEN changes + 1 ELSE stamp
    /\ steady' = steady \ {n}
    /\ UNCHANGED <<shows, there, cache, at_, opts, merge, found, failed>>

ChangeAccess ==
    /\ changes < MaxChanges /\ changes' = changes + 1 /\ there' = ~there
    /\ UNCHANGED <<shows, disk, stamp, cache, at_, opts, merge, found, steady, failed>>

\* The task of Repo's constructor: CheckDirMtime has made a directory and a
\* file, and has seen whether each shows; or it has failed.
CheckOutcome_DirsOnly == "dir" \in shows
CheckOutcome == {"dir", "file"} \subseteq shows
CheckDirMtime(ok) ==
    /\ untracked_cache_ = "unknown"
    /\ untracked_cache_' = IF ok /\ CheckOutcome THEN "true" ELSE "false"
    /\ UNCHANGED <<outside, st, unmatched, at_, opts, merge, found, steady, failed>>

-----------------------------------------------------------------------------
\* A scan.

Begin(include) ==
    /\ at_ \in {"idle", "done"}
    /\ opts' = [include_untracked |-> include, untracked_cache |-> untracked_cache_]
    /\ at_' = "open" /\ found' = {} /\ steady' = Names /\ failed' = FALSE
    /\ file' = FileNames /\ subdir' = DirNames /\ unread' = Names
    /\ list' = {} /\ listed_dirs' = {}
    /\ UNCHANGED <<outside, cache>>

\* AddUnmatched(""): the whole directory is a candidate, and the next listing
\* may not be left out.
AddUnreadable ==
    /\ st' = NoStat /\ unmatched' = {Self}
    /\ found' = found \cup {Self} /\ failed' = TRUE
    /\ at_' = "done"
    /\ UNCHANGED <<outside, untracked_cache_, opts, merge, steady>>

OpenFails == at_ = "open" /\ AddUnreadable
FstatFails == at_ = "stat" /\ AddUnreadable
ListDirFails == at_ = "list" /\ AddUnreadable

Open ==
    /\ at_ = "open" /\ there
    /\ at_' = IF ~opts.include_untracked THEN "files"
             ELSE IF opts.untracked_cache # "false" THEN "stat" ELSE "list"
    /\ UNCHANGED <<outside, cache, opts, merge, found, steady, failed>>

\* The cache is right: the files, then what was unmatched last time.
CacheHit ==
    /\ at_ = "stat" /\ opts.untracked_cache = "true" /\ st = stamp
    /\ at_' = "files" /\ found' = found \cup unmatched
    /\ UNCHANGED <<outside, cache, opts, merge, steady, failed>>

\* Otherwise the stat is taken before the listing.
Fstat ==
    /\ at_ = "stat" /\ ~(opts.untracked_cache = "true" /\ st = stamp)
    /\ st' = stamp /\ at_' = "list"
    /\ UNCHANGED <<outside, untracked_cache_, unmatched, opts, merge, found, steady, failed>>

\* ListDir, without dots and sorted, each name with its type.  It reads some
\* entries at a time, in the order of the file system.
ReadEntry(n) ==
    /\ at_ = "list" /\ n \in unread
    /\ unread' = unread \ {n}
    /\ list' = IF disk[n] = "none" THEN list ELSE list \cup {n}
    /\ listed_dirs' = IF disk[n] = "dir" THEN listed_dirs \cup {n} ELSE listed_dirs
    /\ UNCHANGED <<outside, cache, at_, opts, file, subdir, found, steady, failed>>

ListDirReturns ==
    /\ at_ = "list" /\ unread = {}
    /\ unmatched' = {} /\ at_' = "merge"
    /\ UNCHANGED <<outside, untracked_cache_, st, opts, merge, found, steady, failed>>

\* IsModified: of a file with the stat of its entry only the mode may differ
\* unnoticed.
IsModified(kind) == kind \in {"file", "dir"} \/ (kind = "chmod" /\ TrustFilemode)

\* fstatat of the first file left; it fails if the file is gone.
StatOf(n) == IF disk[n] = "none" \/ IsModified(disk[n]) THEN {n} ELSE {}

\* The first of a sorted list.
First(n, names) == n \in names /\ \A m \in names : n <= m

StatFile(n) ==
    /\ at_ = "files" /\ First(n, file)
    /\ found' = found \cup StatOf(n) /\ file' = file \ {n}
    /\ UNCHANGED <<outside, cache, at_, opts, unread, list, listed_dirs, subdir, steady, failed>>

\* A file in front of the first entry left is not in the listing.
Deleted(n) ==
    /\ at_ = "merge" /\ First(n, file) /\ \A m \in list : n < m
    /\ found' = found \cup {n} /\ file' = file \ {n}
    /\ UNCHANGED <<outside, cache, at_, opts, unread, list, listed_dirs, subdir, steady, failed>>

MatchFile(n) ==
    /\ at_ = "merge" /\ First(n, list) /\ First(n, file)
    /\ found' = found \cup StatOf(n)
    /\ file' = file \ {n} /\ list' = list \ {n}
    /\ UNCHANGED <<outside, cache, at_, opts, unread, listed_dirs, subdir, steady, failed>>

\* No file has this name.  If no subdirectory has it, it is new, unless it is
\* the directory .git.
New(n) == IF n \in subdir \/ (n = DotGit /\ n \in listed_dirs) THEN {} ELSE {n}
MatchSubdir(n) ==
    /\ at_ = "merge" /\ First(n, list) /\ \A m \in file : n < m
    /\ unmatched' = unmatched \cup New(n) /\ found' = found \cup New(n)
    /\ subdir' = {m \in subdir : m > n} /\ list' = list \ {n}
    /\ UNCHANGED <<outside, untracked_cache_, st, at_, opts, unread, listed_dirs, file, steady, failed>>

Done_StatsAgain ==
    /\ at_ \in {"files", "merge"} /\ file = {} /\ list = {}
    /\ at_' = "done" /\ st' = IF at_ = "merge" THEN stamp ELSE st
    /\ UNCHANGED <<outside, untracked_cache_, unmatched, opts, merge, found, steady, failed>>
Done ==
    /\ at_ \in {"files", "merge"} /\ file = {} /\ list = {}
    /\ at_' = "done"
    /\ UNCHANGED <<outside, cache, opts, merge, found, steady, failed>>

DirNext ==
    \/ \E n \in Names, kind \in Kinds : Change(n, kind)
    \/ ChangeAccess
    \/ \E ok \in BOOLEAN : CheckDirMtime(ok)
    \/ \E include \in BOOLEAN : Begin(include)
    \/ OpenFails \/ FstatFails \/ ListDirFails
    \/ Open \/ CacheHit \/ Fstat \/ ListDirReturns
    \/ \E n \in Names :
          ReadEntry(n) \/ StatFile(n) \/ Deleted(n) \/ MatchFile(n) \/ MatchSubdir(n)
    \/ Done

DirSpec == DirInit /\ [][DirNext]_dirVars

-----------------------------------------------------------------------------
\* How a name differs from the index.
Differs(n) ==
    IF n \in FileNames THEN disk[n] = "none" \/ IsModified(disk[n])
    ELSE /\ opts.include_untracked /\ n \notin DirNames /\ disk[n] # "none"
         /\ n = DotGit => disk[n] # "dir"

(* What was so throughout a request is reported as it was, whether the     *)
(* directory was listed or not, on every file system, with changes at any  *)
(* moment of this request and of earlier ones: a name is a candidate if    *)
(* and only if it differs from the index.  The directory as a whole is a   *)
(* candidate only if this request could not read it.                       *)
CandidatesExact ==
    at_ = "done" =>
       /\ Self \in found <=> failed
       /\ ~failed => \A n \in steady : n \in found <=> Differs(n)

(* A listing is used again only for the requests it is right for: if       *)
(* nothing has changed since, it names everything new, and it is never     *)
(* trusted on a file system where a change may not show.                   *)
CacheSound ==
    /\ untracked_cache_ = "true" => shows = {"file", "dir"}
    /\ at_ \in {"idle", "done"} /\ shows = {"file", "dir"} /\ st = stamp =>
          unmatched = {n \in Names \ (FileNames \cup DirNames) :
                          disk[n] # "none" /\ ~(n = DotGit /\ disk[n] = "dir")}
=============================================================================
