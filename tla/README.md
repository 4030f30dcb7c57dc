# gitstatusd, specified

TLA+ specifications, model-checking runs and machine-checked proofs for the
programs of this repository. The repository is a set of Arch Linux dotfiles: an
installer, desktop settings and scripts, the shell environment (oh-my-zsh,
powerlevel10k), and one program of its own weight, **gitstatusd**, a
multi-threaded C++ daemon that answers "what is the git status of this
directory?" for every prompt the shell prints
(`source/home/.cache/gitstatus/`). The daemon, with the shell code that talks to
it, is where the concurrency, the caches and the partial failures are, so it is
what this project is about.

Paths such as `repo.cc:186` are relative to
`src/source/home/.cache/gitstatus/src/`.

- [1. The system](#1-the-system)
- [2. The modules](#2-the-modules)
- [3. The runs](#3-the-runs)
- [4. Fairness](#4-fairness)
- [5. What is proved](#5-what-is-proved)
- [6. Disagreements with the code](#6-disagreements-with-the-code)
- [7. What is not modelled](#7-what-is-not-modelled)
- [8. Plan](#8-plan)

To repeat the checks, in this directory:

    tlc -workers 2 -config MCDaemon_loop.cfg MCDaemon
    tlapm ThreadPoolProofs.tla

## 1. The system

### How the parts interact

    zsh/bash client --- request pipe ---> main loop (gitstatus.cc, request.cc)
          ^                                   |  Open / Free
          |                                   v
          +--- response pipe -- response   repository cache + LRU (repo_cache.cc)
                                              |  one Repo per .git
                                              v
                       libgit2 <--- git.cc   Repo (repo.cc) --- owns ---> TagDb (tag_db.cc)
                                              |  |   RunAsync                |  Schedule
                                   owns       |  +--------> thread pool <----+
                                              v            (thread_pool.cc)
                                            Index (index.cc, dir.cc) -- Arena (arena.cc)

One main thread reads requests, one at a time. For each it opens a repository
through the cache, starts a tag lookup on the pool, asks git about HEAD and its
upstream, scans the index and the working tree in shards on the pool, waits, and
writes one response. Pool threads and the main thread share atomic counters, a
few fields under mutexes, and the cache of `packed-refs`. Outside, git changes the
same files at any moment, other daemons check the same repositories, and the
shell may go away at any moment.

### The components

**Thread pool** (`thread_pool.cc`, `thread_pool.h`). *State:* a priority queue of
timed tasks, `num_inflight_`, `exit_`, `have_sleeper_`, three condition variables
on one mutex. *Operations:* `Schedule`, `Wait`, the destructor, the threads'
`Loop`/`Next`. *Hard:* the notification comes after the unlock; which of two
condition variables is notified was decided under the lock; one thread sleeps
until the earliest task while all others are parked. *Correct when:* no task
that is due waits beside an idle thread, tasks start in order and not before
their time, `Wait` returns when and only when nothing runs, the destructor
returns.

**Repository scan** (`repo.cc`). *State:* `git_index_`, `head_`, `lim_`, the atomic
counters, `error_`, `inflight_`, `untracked_cache_`, `shards_`. *Operations:*
`GetIndexStats`, `UpdateShards`, `StartStagedScan`, `StartDirtyScan`, `OnDelta`,
`RunAsync`, `DecInflight`, `Wait`, the constructor's delayed task, `~Repo`. *Hard:*
scans skip statuses and stop early on values of counters that other scans
change; staged counters are reused from request to request; any step may throw
while scans are running; the cuts between shards are made in the order of paths,
with or without their case. *Correct when:* every reported count is the true one
cut at its limit, every path is in one shard, a failed scan never yields an
answer, `Wait` ends and then nothing is running.

**Tag database** (`tag_db.cc`). *State:* the parsed `packed-refs` (`name2id_`, and
`id2name_`, sorted later by another task), its stat, `id2name_dirty_`, the list of
loose tags. *Operations:* `TagForCommit`, `UpdatePack`, `ParsePack`, `TagHasTarget`,
`Wait`, `~TagDb`. *Hard:* git rewrites the files between any two reads; the sort of
one request runs beside the next request; a pool task waits for another pool
task; a file of text is parsed in place. *Correct when:* without interference the
answer is the last tag of the commit, the sort is never raced, the wait ends.

**Main loop and repository cache** (`gitstatus.cc`, `request.cc`, `response.cc`,
`repo_cache.cc`). *State:* `cache_` (gitdir to entry), `lru_` (time to iterator of
`cache_`), the bytes read but not used, the current request and its response.
*Operations:* `ReadRequest`, `ProcessRequest`, `Open`, `Free`, `Erase`, `Print`, `Dump`
and `~ResponseWriter`. *Hard:* a request is left in a dozen ways; the two containers
point into each other; repositories vanish between requests; pipes cut messages
anywhere; the shell dies while its end of the pipe stays open. *Correct when:* one
response per request, cache and LRU agree, a repository is neither freed under a
request nor kept for ever, messages are read as they were written, the daemon
exits when its shell is gone and not before.

**Directory scan and untracked cache** (`index.cc`, `dir.cc`, `check_dir_mtime.cc`).
*State:* a tree of directories, each with the stat and the unmatched names of its
last listing; for each task a window of open descriptors; temporary directories
in `.git`. *Operations:* `InitDirs`, `InitSplits`, `ScanDirs` with `OpenTail`,
`StatFiles`, `ListDir` and the merge; `GetDirtyCandidates`, which gives the splits to the
pool and collects what its tasks find; `CheckDirMtime`. *Hard:* names are in one order
in the index, paths in another; the names of a listing are sorted in the kernel's own
buffers, eight bytes at a time; files change while they are listed; the stat of a
directory says that nothing was added only on some file systems; daemons remove
each other's temporary directories. *Correct when:* a name is a candidate if and
only if it differs from the index, a listing is reused only if it is still
right, each descriptor is that of the directory it is used for, no task outlives the
call that started it and no failure is missed, and a file system is called safe only
if it is.

**git queries** (`git.cc`). *State:* none but the answer. *Operations:* `Head`,
`LocalBranchName`, `GetRemote`, `GetPushRemote`, `RepoState`, `CountRange`,
`NumStashes`. *Hard:* each asks again what git has by now, HEAD more than once.
*Correct when:* an answer never goes back in time, its remotes are those of its branch,
its counts are those of its commit unless HEAD or a reference moves, and a request is left
without an answer only for a reason.

**Arenas** (`arena.cc`, `arena.h`, `bits.h`). *State:* blocks with their tips, the
number of reusable blocks, the current block. *Operations:* `Allocate`,
`AllocateSlow`, `AddBlock`, `Reuse`. *Correct when:* allocations are aligned, in
memory that has not been freed, and apart.

**Options** (`options.cc`, `options.h`, and `gitstatus_start` in the client).
*Correct when:* shell and daemon mean the same by a limit.

**zsh client** (`gitstatus.plugin.zsh`). *State:* per daemon: its state, file
descriptors, the number of requests in flight. *Operations:* `gitstatus_start`,
`_query`, `_process_results`, `_stop`, and the handler of the pipe. *Hard:* answers
that arrive after their query has timed out, a daemon that dies in the middle of
an answer. *Correct when:* a query returns, with its own answer or none, and a
late answer runs its callback.

**powerlevel10k worker** (`internal/worker.zsh`). *State:*
`_p9k__worker_request_map`, which holds for each segment that a request is running
and the last one asked for meanwhile. *Operations:* `_p9k_worker_invoke`,
`_p9k_worker_receive`, the worker's loop, `_p9k_worker_async`. *Correct when:* the last
request of a segment is run, and never two at once.

**Logging, printing, strings; bash client; powerlevel10k prompt and wizard;
oh-my-zsh; installer (`install.sh`, `update.sh`, `installer/`); desktop scripts and
root helpers** are not modelled: see section 7.

`PROJECT.json` lists under "hazards" what in this code is hard to test, each at
the line where it bites, with the properties that cover it.

## 2. The modules

| module | what it is |
|---|---|
| `ThreadPool` | the pool, one step per critical section |
| `TaskPool` | what the pool promises, without threads or locks |
| `ThreadPoolProofs` | proofs about `ThreadPool`, among them that it implements the safety part of `TaskPool` |
| `RepoScan`, `RepoScanProofs` | one `Repo`: `GetIndexStats` on the main thread and the scans on the pool |
| `Shards`, `ShardsProofs` | `UpdateShards`, and how `StartDirtyScan` divides the candidates |
| `TagDb`, `TagDbProofs` | one `TagDb`, beside a git that changes refs |
| `TagRefs` | the parsing of `packed-refs`, the reading of loose tags, the lookups |
| `Daemon` | the main loop with the cache and its LRU |
| `Messages` | the bytes of requests and responses |
| `Queries` | what a request asks libgit2, beside a git that commits, switches and rebases |
| `DaemonProofs` | proofs about `Daemon`, `Queries` and `TagRefs` |
| `IndexTree` | the tree of directories, its division among tasks, the descriptors |
| `DirScan` | one directory, scanned by one request after another while it changes |
| `Listing` | `ListDir` with its sort, byte by byte |
| `Collect` | `GetDirtyCandidates`: the tasks of a scan and their results |
| `MtimeCheck` | `CheckDirMtime` in several daemons at once |
| `ScanProofs` | proofs about `DirScan`, `MtimeCheck`, `Collect` and `Listing` |
| `Arena` | the allocator |
| `IndexProofs` | proofs about `Arena` and `IndexTree` |
| `Client` | the zsh client |
| `Worker` | the worker of powerlevel10k |
| `Options` | limits and flags on their way from the shell to the daemon |
| `ShellProofs` | proofs about `Client`, `Worker`, `Options` and `Messages` |
| `MCThreadPool`, `MCRepoScan`, `MCTagDb` | instances for TLC |
| `MCDaemon` | instances of `Daemon`, `Client`, `Worker` and `Options` |
| `MCIndex` | instances of `Shards`, `IndexTree`, `DirScan`, `MtimeCheck`, `Arena`, `TagRefs`, `Messages`, `Queries`, `Listing` and `Collect` |

Each component sees its neighbours through what they promise. `RepoScan` and
`TagDb` take from the pool only what `TaskPool` states: a task starts at some
point on one of `NumThreads` threads, in the order of the queue where that order
matters. `Daemon` takes from `RepoScan` and `TagDb` that a step of a request ends
well or throws, and that a tag lookup ends (`RequestEnds`, `TagArrives`), and from
`Messages` that requests come whole. `RepoScan` takes from `Shards` that every path is
in one shard, from `IndexTree` and `DirScan` that the candidates contain what is dirty.
`DirScan` takes from `MtimeCheck` what it may trust, and from `Listing` that entries are
sorted; `Shards` takes from `Collect` that candidates are, and that no two neighbours are
equal. `TagDb` takes from `TagRefs` that
the packed tags are those of the file. `Client` takes from `Daemon` one answer per
request, in order, by a daemon that may be killed.

`MCIndex` and `MCDaemon` put together parts that **share no state**: the constant
`Parts` lists them, a behaviour runs one of them, and the rest keep one initial
state. The state graph is the disjoint union of the graphs of the parts, so that a
run checks each part as a run of its own would.

### ThreadPool

A step of a thread is one critical section, from the acquisition of `mutex_` to the
`wait` or unlock that gives it up. `notify_one` after an unlock is a step of
its own (`wake` records the debt), so that other threads run in between. A thread
is `enter` (about to lock in `Next`), on `cv` or `sleeper`, `cvAwake` or
`sleeperAwake` (notified, timed out or woken spuriously, the mutex not yet
reacquired), `run`, or `gone`. `Body` is one round of `Next`'s loop:
`Leave`, `ParkEmpty`, `ParkBehindSleeper`, `Sleep` or `Take`; it is reached from
`EnterNext` (which decrements `num_inflight_` and may notify `idle_cv_`),
`CvReturns` and `SleeperReturns` (which clears `have_sleeper_`). Functions may
call `Schedule` from pool threads. Spurious wakeups of all three condition
variables are modelled, and so is destruction, although the daemon keeps its
pool for ever. `NotifySleeper` finds at most one thread, because there is at
most one sleeper; that is itself an invariant (`SingleSleeper`).

`TaskPool` is the abstract specification: `Submit`, `Start` in the order of (time,
number of submission) and not before the time, `Complete`, `Close`; its fairness
says that a due task and a free slot meet, **even if functions in other slots
never return**.

### RepoScan

A scan is modelled delta by delta: libgit2 finds the changes of a shard in an
arbitrary order (a constant says how many of each status there are) and calls
`notify_cb` for each. `Found` is the increment in `OnDelta` with the fetched old
value; `Decide` is the comparison, which reads the *other* counter later: two
steps, as the two atomics are. `skip` is the set of statuses that libgit2 leaves
out once a verdict has turned positive. `DecInflight` and `Catch` are two steps of a
failed scan, in the order the destructor of the scope guard and the catch have
(`repo.cc:460-467`). Faults are a constant: reading the index, reading the
commit, a scan, `GetDirtyCandidates`. `round` distinguishes the scans of two
requests, which coexist after `GetDirtyCandidates` has thrown.

What libgit2 finds is data and is drawn when the request begins: within a request
the working tree does not change. An answer about a tree that changes while it
is read has no reference to be compared with; what changes show in the listings
of directories is the subject of `DirScan`.

### Shards

A path is a sequence of character codes, compared with or without its case.
`UpdateShards` walks through the index in steps of the size of a shard and cuts
(`Cut`) behind the directory of the entry there, if the next entry is in another one;
`NextShard`, `RunScan` and `Scanned` are the loop of `StartDirtyScan` with its
iterator into `shards_`. The CHECKs of both are part of what `ShardsRight` says.

### TagDb and TagRefs

Tags are numbers in the order of their names. In `TagDb` the `stat` of `packed-refs`
is abstracted to "this is the stat of the file there is now", a Boolean for
`pack_stat_` and one for the local `st`, that git falsifies by replacing the
file. git acts one file at a time (`SetTag`, `RemoveLoose`, `RemovePacked`,
`PackRefs`), in the order git itself has: a packed tag is pruned after it is in
`packed-refs`, a deleted one leaves `packed-refs` first. The pool is a FIFO queue
with `NumThreads` threads because `TagForCommit` waits in a pool thread for a sort
that is a pool task. A lookup in an `id2name_` that is being sorted may find
anything.

`TagRefs` has the same code without time but with the files as they are: a header or
none, a file cut off in its first line, lines of tags and of other references, with
`^` or without, with carriage returns, with a last line that is cut; loose tags that
are symbolic, annotated (tags of tags, up to `kMaxDerefCount` and beyond) or in a
directory. `RefLookup` finds loose files only, as libgit2 does with the option that
`gitstatus.cc:194` sets; packed tags come from `packed-refs` alone. It takes both lookups, of a
sorted `id2name_` and of a dirty one.

### Daemon and Messages

A repository is the directory that holds its `.git`. `lru` is a set of (gitdir,
age) pairs; an age stops at `Ttl`, so that no bound on the clock is needed.
Within the model a cached entry is either an age (the iterator into the LRU) or
`Null`, the null pointer `Open` emplaces before it has opened the object database.
`written` counts the responses of the current request, `Leave` and `NoRepo` run
`~ResponseWriter`. `ReadRequest`, `SelectTimesOut` and `ReadEof` are the three
outcomes of `ReadRequest` at its `select`.

`Messages` has reader and writer byte by byte: `ReadBytes(n)` brings any part of the
pipe, and the separator is looked for in the new bytes alone (`request.cc:120-125`);
`PrintField` makes control characters readable; an answer that was begun is
rewritten when its request fails.

### Queries

Each question of `ProcessRequest` to libgit2 is a step, in the order of
`gitstatus.cc:61-163`, and a count of commits one step for each reference it reads, from
left to right: `ref..HEAD` is `LookupRef`, then `LookupHeadAgain`, which finds a commit or
the name of a branch, and then `FollowHead`; `HEAD..ref` has `LookupRef` last. `walk` is
what a count has found of its range so far. Between any two steps git may move a reference,
switch, merge, stash, or go on with a rebase.

`past` is the sequence of what git has had since the request began. An answer need not be
true at any one moment, for HEAD is looked up by name up to five times. `QueriesExact` says
what holds all the same: there are moments that never go back at which each part was
read (`SinceHead`, `SinceRemote`, ... are the moments by which the parts so far may have been,
with two or three moments for one count); remotes are configured for the branch in the
answer; while HEAD, its tip and the reference rest, the counts are those of the commit in the
answer (`CountsRight`); at rest (`AtRest`) every request is answered that can be. That the
counts are those of the branch in the answer, as the documentation says, is not so
(section 6) and not claimed. `git_repository_state` and `git_stash_foreach`
read several files and are one step each: of the state only `AtRest` speaks, and a number of
stashes is that of the last file read.

### IndexTree, DirScan, Listing, Collect, MtimeCheck

`IndexTree` adds the entries of the index one by one to a stack of directories
(`AddEntry`), as `InitDirs` does, sorts the subdirectories, computes the splits, and then
walks through one split with its window of descriptors: `OpenFromParent` and
`OpenFromRoot` are the two branches of `OpenTail`, either of which may fail.

`DirScan` is one directory through several requests: `Open`, `CacheHit` or `Fstat` and
`ListDir`, `ReadEntry` by `ReadEntry`, then the walk through files and subdirectories
beside the sorted listing (`StatFile`, `Deleted`, `MatchFile`, `MatchSubdir`), and `Done`,
which keeps or drops the stat. Programs change any name between any two system calls
(`Change`). A stat is the number of the last change that shows on this file system.

`Listing` has the buffers of `ListDir` as bytes. The kernel returns some of the remaining
entries, in any order (`GetDents`); `SortEntries` turns the first word of each name around
in place (`SwapBytes`), sorts by it as a number and then by `memcmp` from the fifth byte on
(`MemLess`), and turns it back. Of a short name, what follows it is turned and compared as
well: the rest of its padding, the next entry's header, or what was in the buffer before.

`Collect` is the main thread in `GetDirtyCandidates` and one task per split, a section
under their mutex per step: a task scans, inserts or stores the error, and runs its
scope guard last; the main thread waits, throws, or sorts what it got.

`MtimeCheck` runs `CheckDirMtime` in several daemons on one repository, one system
call per step: `.git` is listed (`FindDirs`), then each temporary directory found is
looked at when its turn comes (`StatNext`) and removed path by path if it is stale
(`RemoveNext`). Calls may fail, `rmdir` and `unlink` only of what has something in
it; a daemon may be killed between any two.

### Arena

An address is a number below 2^`Width`. `AllocateCall` begins a call, `Allocate` moves the
tip if the block is large enough, otherwise `AddBlockReused` or `AddBlockNew` comes
first; `operator new` may return any address or throw. `live` remembers what callers
hold until `Reuse`.

### Client, Worker, Options

In `Client` an answer comes in two pieces, its beginning and its end, and a read returns
at least one. `Reads` is the loop of `_gitstatus_process_response`, which returns to
one of three callers: a query that waits, `gitstatus_process_results`, or the handler of
zle. `ReadsOn` is the loop of the first two: `gitstatus_process_results` reads on after a
timeout too, if `VCS_STATUS_RESULT` is still that of an earlier callback. The daemon may be
killed at any moment and started again.

`Worker` has two processes and two pipes; `WorkProgress` is what either does without
the user, `_p9k_worker_invoke` what the prompt does, `AsyncEnds` the end of a subprocess.

`Options` takes each option from `gitstatus_start` through the command line to
`ParseOptions`; a `long` has few values, so that its ends are reached.

## 3. The runs

| run | question | distinct states | time |
|---|---|---|---|
| `pool_promise` | are the pool's invariants kept, does it implement `TaskPool`, do `Wait` and the destructor return? 2 threads, 3 tasks, times 0..1 | 180 026 | 60 s |
| `scan_exact` | are all counts of an answer exact when nothing fails? 2 shards, 2 commits, 2 indexes, 2 trees, 4 threads | 880 623 | 35 s |
| `scan_faults` | does every request end, and are the counters read undisturbed, if anything may fail? 2 shards, 2 threads | 362 505 | 175 s |
| `scan_error` | is a request with a failed scan refused? | *violated* | 1 s |
| `scan_reuse` | are reused counters those of the commit, if commits may be unreadable? | *violated* | 2 s |
| `daemon_loop` | one answer per request? do cache and LRU agree? what is freed, when does it exit? does a query get its own answer, the worker run the last request? do shell and daemon agree on limits? | 153 840 | 105 s |
| `daemon_null` | is every request answered, if an object database may fail to open? | *violated* | 3 s |
| `tags_quiet` | is the tag exact when git rests; is the sort never raced? 2 tags, 2 commits, 2 threads | 881 827 | 30 s |
| `tags_live` | does a request get its tag from a pool of a single thread? | 47 068 | 7 s |
| `tags_held` | is a tag found that points to the commit all the time? | *violated* | 1 s |
| `index_parts` | shards, tree, descriptors, directories, mtimes, arena, refs, messages, queries, listing, tasks: is each right on every small input? | 2 507 060 | 130 s |
| `index_splits` | are there as many splits as there may be? | *violated* | 1 s |

Every run that passes is exhaustive within its bounds. Which properties a run
checks is in its `.cfg`; each definition's comment says what it means.

**Bounds, and why they are enough.**

- *Pool:* two threads give a sleeper or a parked thread beside one that runs; three
  tasks let one be running, one be top and one be inserted before or after it. A
  lost wakeup needs no more than a parked thread and a queue. What is special to
  three threads (one sleeps, one is parked, one takes) is covered by the proofs:
  every invariant of the pool is a theorem for any number of threads.
- *Scan:* two shards are the least that share counters; the limits 2 and 1 and the
  deltas of `MCRepoScan` are such that limits are reached within a shard, only
  together, and not at all. `i2` exceeds `dirtyMaxIndexSize`. Git config lowers
  limits to 0 from request to request. Two commits and two indexes are needed for
  wrong reuse. `scan_faults` has a single commit and index, for there the question
  is who is running, not what is counted; its pool has two threads, so that a
  failed scan can still be in its catch while another starts.
- *Shards:* up to 4 entries and 2 candidates among the paths `a.b`, `a/b`, `a/b/a`, `A/b`,
  `b/a`: one that sorts between a directory and its contents, a directory in a
  directory, two names for one where case is ignored. 2 entries per shard and 1
  or 2 threads give one, two or three shards, cuts that are found at once, later,
  or never. Any number is proved.
- *Tree:* up to 4 entries of 9 paths, 4 deep, with names that are one without their
  case and with `a.b`; a window of 2 descriptors, so that both ends of it are
  passed; 2 shards at least, of weight 4 at least.
- *Directory:* 4 names, of which one is `.git`, one a file and one a subdirectory of the
  index, and one new; 2 changes, at any moment, since one may hide behind another;
  the three kinds of file systems (every change shows, those of directories do,
  none does).
- *Listing:* words of 4 bytes and names that are shorter than, as long as, and longer than a
  word, with prefixes of each other, with a case, and the dots; up to 3 of them, in up to
  3 buffers; the rest of a buffer is 0 or not.
- *Collect:* 3 splits with at most one candidate each, of 3 paths, two of which differ
  only in case: equal paths may lie apart, with the other one in between.
- *Mtimes:* two daemons, which may be each other's victim; three kinds of file
  systems; a directory is stale after 1 tick of 2.
- *Arena:* 64 addresses, 3 blocks, 3 allocations: reused blocks, blocks of their own,
  and the top in front, among, and behind them.
- *Daemon:* `inner` lies inside `outer`, so that a directory may be found to belong to
  either; `store` may be a bare repository; a ttl of 1 gives entries that are in
  use, recent, and old; one request in the pipe is enough since the main thread
  handles one at a time.
- *Tags:* two tags with the same commit (which is the last?), different commits
  (one hides the other in `packed-refs`), or moved. One version of the file before
  and one after is what a Boolean stat distinguishes. `TagRefs`: 3 tags, one of them in
  a directory, another reference, 2 commits, a tag of a commit and a tag of a tag
  with `kMaxDerefCount` 2 (so that one chain is too long); up to 3 references, packed
  and loose.
- *Messages:* 8 messages, well formed and not; 2 requests and one cut off; 3 bytes per
  read, so that an end of a message may come alone, in front of and behind others.
- *Queries:* 3 commits that fork; a branch that is its own upstream, has one on a remote,
  one whose name contains a slash, one that is no branch, or none; one write by
  git during a request, which is enough to set any two questions apart, and two if HEAD is
  a branch with its upstream in a remote (`SecondWrite`), so that HEAD may move between the
  two ends of a range and the reference before or behind it. Only a detached HEAD is
  rebased, as git does it.
- *Client:* 3 queries, so that one waits behind two late answers; one daemon killed.
  *Worker:* 2 segments, 3 requests of each (one runs, one is replaced), 2 subprocesses.
  *Options:* 2 options given, so that one overrides another; a `long` ends at 7.

A run without deadlock checking is one where the system may stop for good: a
destroyed pool, a freed repository, a daemon that has exited, an input that has
been dealt with.

## 4. Fairness

- `ThreadPool`: the operating system runs every thread that can run, a notification a
  thread is about to send is sent, time passes. Functions need **not** return:
  `Refines` holds without it. `WaitReturns` and `DtorReturns` assume
  `Terminating`, for `Wait` and `join` wait for functions.
- `RepoScan`: the main thread runs, every job makes its steps (the pool promises to
  start it, libgit2 ends), catches and the constructor's task run. That a scan
  fails is never assumed.
- `TagDb`: the main thread, the pool and its tasks run. `TagArrives` assumes
  besides that git comes to rest: a git that replaces `packed-refs` between every
  stat and read keeps `UpdatePack` in its retry loop (`tag_db.cc:187-201`) for ever.
- `Daemon`: the main thread runs, the pool ends its tasks, time passes. Nothing is
  assumed of git and of the shell; `IdleFrees` and `OrphanExits` speak of shells
  that stop sending, because `select` must time out for either
  (`request.cc:101-112`, `options.h:59-63`).
- `Client`: a daemon that is alive goes on, and a shell that is reading goes on
  reading. No timeout is assumed to fire, no daemon to live, and the user does what
  he likes.
- `Worker`: both processes go on and subprocesses end. The user need not ask for
  anything.

## 5. What is proved

For all constants that satisfy the assumptions of the modules, such as
`PoolAssumption` and `ScanAssumption` (finitely many threads, shards; names that
mean nothing are not among those that do), `DaemonAssumption` (`Path` gives each
directory's ancestors, beginning with itself) and `ArenaAssumption` (alignments
are powers of two, `operator new` aligns for `max_align_t`, a minimal block is not larger
than a maximal one); in `Shards` a shard has room for two entries. `DataAssumption` of
`RepoScan` says that an index and a working tree have natural numbers of entries in
every shard, `CheckAssumption` that daemons are numbered, `WorkerAssumption` that a prompt
has finitely many segments, `QueriesAssumption` that the names of references and remotes are
sequences, those of references not empty, and `TreeAssumption` that the paths of an index are
sequences of names, not empty, that no path is the descriptor -1, and of the order of names that
two names are at one place only if they are the same but for an ignored case, whether or not a `/`
follows both, and never if it follows one of them alone. `MessagesAssumption` says that
the separators of fields and messages are two control characters, that the bytes with a meaning of
their own are others, and that a message does not contain its separator (the shell writes one
behind each). `TagRefsAssumption` says that there are finitely many objects and names, that a
commit is no tag, and that tags of tags go in no circle (`EndsWithin`): an object names the others
by their hashes. `ListingAssumption` has the sizes of `dir.cc` as the code relies on them: a name is
shorter than the 256 bytes saved in each buffer, the header of an entry is longer than a word, and the
least entry has `Luck` bytes for its name. None is more than the code has.

Some statements have a hypothesis of their own, because the code does not do without it:
`StagedAlwaysExact` and `DirtyAlwaysExact` are about requests in which nothing fails
but reading the index (`scan_reuse` and `scan_error` are the counterexamples if a commit
or a scan fails, see section 6), and `QuietAlwaysExact` about a `packed-refs` whose header is
complete or missing (with another one `ParsePack` says that it will not resolve tags,
and does). `TagsAlwaysExact` is about files as git writes them (`Plain`), with tags of tags at
most `kMaxDerefCount` deep: `TagHasTarget` gives up on deeper ones.

Where a definition loops over data (the bytes of a message, the lines of a file, the entries of a
buffer) its theorem needs an induction, and the library states those with a parameter no prover here can
give a value. A least counterexample stands in for it: of the numbers at which the claim fails
there is a least one, because `<` is well-founded on `Nat` (`NatLessThanWellFounded`,
`WFMin`), and there the step before contradicts it. `SmallestNat`, `LeastOf` and `UpTo` put this into
a form that can be cited.

**ThreadPoolProofs.** Each of the pool's invariants is a theorem: `TypeCorrect`,
`SingleSleeperAlways`, `InflightAlwaysExact`, `SleeperAlwaysCovers`,
`AlwaysHandedOver`, `NoWakeupIsLost`, `NoWaiterForgotten`, `ExitAlwaysReachesAll`, and
`NobodyIsForgotten`, which puts the last ones together; the action property
`WaitIsSound`; and `PoolKeepsPromise`, that `ThreadPool` implements the safety part of
`TaskPool`. The argument:

- All steps through `Next` are one kind of step (`StepIsRound`), so that each
  preservation proof splits on what `Body` does rather than on nine actions.
- `Owes`: only a thread that runs a function owes a notification. Without it a
  parked thread might owe one and `HandedOver` would not be kept.
- `InflightExact` needs the counting lemma `RoundCount` about one thread's move
  between places; it implies that the counter is never negative, the part of
  `TypeOK` that is not about types.
- `SleeperCovers` uses `SingleSleeper`: the notification finds *the* sleeper.
- `NoLostWakeup` is not inductive. It follows from `HandedOver` (somebody comes
  for a queue that is not empty) and `SleeperCovers` (if that is the sleeper, it
  does not sleep past a due task).
- `Leaving` says how `ExitReachesAll` comes about, one notification after the other;
  the last one wakes a single thread, which suffices by `SingleSleeper`.
- For the refinement, `Indexed` says that the index of a scheduled task is between 1 and
  `lastIdx` and that no two are equal: with it the top of the heap is the abstract
  minimum.

**DaemonProofs.** `TypesAlways`, `LruAlwaysExact`, `OneAnswerAlways`,
`TagAlwaysInsideRequest`, `AlwaysExitsForCause` and `RecentAlwaysKept`, whatever throws,
the opening of the object database included. The inductive invariant strengthens
`LruExact` by `Aged` (an age is a number or the null pointer: `Expired` compares it),
`TagInsideRequest` by `InUse` (the repository is in the cache from `Open` on, not only
while the tag is looked up) and `OneAnswer` by `Answers` (what has been written at every
point of a request).

**RepoScanProofs.** `InflightAlwaysExact`, `ScansAlwaysDone`, `NeverTaskAfterFree`, and
`TasksAlwaysWaitedFor` that joins them, for any index, shards and limits, whatever
fails. `InflightExact` is not inductive: `RunAsync` adds as many to `inflight_` as there
are scans, which is right only if none of them exists already. `Fresh` says so: until
the step that starts them a request has no scan of its own, although those of an
earlier request may still run. `ScansDone` then follows where `Wait` sees 0, and is
kept because only the main thread starts scans.

`TypesAlways` bounds the counters by what the shards can add. `StagedAlwaysExact` and
`DirtyAlwaysExact` say that the counts of an answer are the true ones, cut at the limits.
`ExactIInv` conserves, counter by counter: what it holds and what its scans have left to
find are together what there is to find; a scan that stops leaves something over
only beyond a limit (`JobsRight`), and with the limit reached the sum no longer matters.
`StagedKnown` carries this from the request that counted to those that reuse its
counters, for which no scan runs. The sums over shards are the folds of the community modules
(`SumFunctionOnSet`); what is needed of them (a sum splits off a member, a sum of smaller
terms is smaller) is proved by taking a least counterexample of the well-founded order of
cardinalities (`WFMin`), which does without the induction theorems.

**TagDbProofs.** `DirtyAlwaysMeansSorting` and `PackIsStable`, for any git. `Tasked`
relates the pool's queue to `pc` and `sort`; `Scoped` says that between `Reset` and
`Load` nothing is being sorted, because `Reset` has waited, and that a freed
database has no request. Both are needed to see that no step replaces `name2id_`
under a sort.

`QuietAlwaysExact`: if git changes nothing during a request its answer is the last tag of the
commit. `Cached` says when the cache of `packed-refs` is what the file says (the stat is that
of the file, and `UpdatePack` is not in between), `Walked` that the loose tags looked up
so far come before the others, so that the greatest of the two halves is the greatest.

**IndexProofs.** `ArenaShapeAlways` (what the comments at `reusable_` and `top_` say, and
that `Allocate` succeeds after `AddBlock`) and `NeverOverlaps`. The overlap is excluded
by the tip alone: all that is live in a block lies below it, and only `Reuse`, after
which nothing is live, moves it back. What makes this inductive is the shape: a
block that is taken up again is behind the current one, and hence empty.

`FdsAlwaysRight`, for any index, any division among tasks and any size of a task's stack of
descriptors: what `ScanDirs` takes for the descriptor of a directory is one, whichever opens
fail, and the descriptors open are those a task holds. It rests on what `InitDirs` leaves
behind. While it runs, the stack holds the directories the last entry is in (`Stacked`), and
of what has been popped each directory can be reached from the one after it (`Popping`): its
parent is that one, or one above it (`Follows`). Reversed, this is what a walk of `dirs_` meets
(`Chained`), for children a level deeper as for siblings and uncles. `Divided` says that
`splits_` goes from 0 to the number of directories and leaves no task without one: this needs
that the fold that cuts `dirs_` only ever goes forward (`GatherCuts`). `Holding` is then that the
descriptor at distance *k* in the stack is that of the *k*-th ancestor, or closed: `SlideHeld`
proves it of the move from one directory to the next, by the arithmetic of the rotation. A
case-insensitive repository has two spellings of a directory, so "the same path" is `Alike`
all along. A least counterexample takes the place of induction where a fold or a depth calls
for it (`SmallestNat`).

`TreeAlwaysExact`, for any sorted index, says what the walk walks through. Its invariant `Growing` is
the statement for the entries so far: each directory on the stack or in `dirs_` holds those of
them that are in it and the subdirectories they call for (`Grown`); a directory that was popped has
entries, but not the last one (`LeftBehind`); each directory of an entry so far is there, and no two are the
same. The step rests on the order of the index. Entries between two that are in a directory are in it
too (`StandTogether`, from `Between`: a path that differs from both in their common names lies outside
them), so that the next entry is in no directory that was left, and a directory that is
entered now has had no entry before (`NextApart`). That is where `DirRank` matters: `a.b` stands between
`a` and `a/b`, but not between two paths below `a/`. The subdirectories are then distinct, and
sorting them puts them in strict order (`NamesSorted`).

**ShardsProofs.** `AlwaysOneShardEach`, for every set of paths, index, size of a shard
and number of threads: the paths below `last_s` have their shards and the others none, and
a cut at a directory separates the paths below it from the rest, with or without their
case. `ShardsAlwaysRight`: the shards cut so far form a chain (`Chain`), each beginning where the
last one ends. None is empty because there are never more shards than entries: this is where
it matters that a shard has room for two (`MostShards`, `IndexAdvances`). The loop over the
candidates needs `InOrder`, that what is in a shard is below the next one, and that the
candidates are sorted: then the iterator never has to go back (`ScanInv`).

**ScanProofs.** `CandidatesAlwaysExact` and `CacheAlwaysSound` of the scan of a directory, for any
names and any changes at any moment. The merge walks the names in order; `Merged` says of
each name whether it is still ahead or has been reported as it should, and `CacheRight` that a
stat that has not changed means an unmatched list that is right. Only names that are
`Known`, those unchanged since before they were read, are spoken of: this is what
makes it inductive beside a directory that changes. `CheckAlwaysRight` of
`CheckDirMtime`, for any number of daemons: `GuardsRight` says what a check that is at some
step has made and not yet removed, and `SweepRight` that of the directories a daemon has
found stale only the first is left, which it removes from the leaves to the root, even if
another one does the same.
`CollectAlwaysRight` of `GetDirtyCandidates`, for any number of splits: the count of tasks is the
number of those that have not left (`BarrierRight`), and a failure is in `error` before
its task leaves (`ErrorRight`).

`ListAlwaysRight` of `ListDir`, for names and buffers of any size, in any order and any number of
calls of `getdents64`, whatever bytes are left behind the entries. `ListIInv` gives each entry its name
(`Returned`): the bytes at the entry are those of the name with a 0 behind them (`HasName`), no two
entries overlap (`Apart`), and the names are those returned so far but the dots. The sort by `memcmp`
turns the first word of each name around in place: since words do not overlap, turning them twice
restores the buffer (`SwapTwice`), and what is read as a number has the bytes of the name
for its digits, the first one in front (`SwappedBytes`), so that the first byte in which two names
differ decides (`LessInFront`). If that byte is behind the word, the words are equal and `memcmp` finds it:
it begins `Luck` bytes into the name, within the word, where both names have the same bytes turned around,
and what follows of a name is in no other entry's word (`OrderKept`).

**ShellProofs.** `AnswersAlwaysRight` of the client, for any number of queries and killed
daemons. What is on its way, `buf \o resp`, is not changed by a read that moves bytes from one
to the other (`Stream`); it consists of pairs of pieces, a beginning and an end
(`Paired`), in the order of the requests (`InOrder`), and the query that waits is the last
one, so that whatever comes before it is late (`Held`, `Fated`). `AlwaysOneAtATime` of the
worker: a segment is in one place at most (`WorkOnce`), and the map of the shell knows in
which (`WorkWhere`). `OptionsAlwaysAgree`: what has been passed on is the last word on
each option (`AskedPassed`), and what has been parsed is the last of what was passed on
(`LimitsFollow`).

`MessagesAlwaysExact`, for messages and fields of any bytes and any length, pipes that cut them
anywhere, and any size of the buffer. `MessagesExact` says what each reading is; `MsgIInv` must
say what is still on its way: the buffer and the pipe together, cut at their separators (`Parts`),
are the messages that have no reading yet (`InPipe`), and the output is the answers, cut the same
way (`Answered`). What makes this an invariant is that a sequence can be cut at its separators in one
way only, so that the first separator is the end of the first message, and that the reader goes back to
`select` only when its buffer has none (`GotRight`), so that the first one is in what it reads next.

**DaemonProofs, the queries.** `QueriesAlwaysExact`, for any history, references and remotes and
whatever git writes between two reads. `MomentsPart` says, for each place of the request, that
what has been found so far has moments by which it was read, in the order of the reads, and of a
count that has one end that this end has them too (`WalksAhead`, `WalksBehind`). It is kept by
git because moments are never taken away (`HeadSeenGrows`, `CountsSeenGrow`, `MomentsGrow`), and
by a read because it reads what is there now, and no moment is later (`ReadNow`, `FirstMoments`,
`CountMoments`, `LastMoments`). `RemotePart` and `PushPart` say that a remote is that of the branch
in the answer, and its branch what is left of the reference behind the name of the remote,
`StepsPart` that the steps of a rebase come in pairs. `CountsRight` follows from the moments
(`CountsOfRest`): if HEAD and the references rest, all moments give the same commits. `RestPart`,
with `RestFound` and `RestCounts`, shows that a request that git leaves alone is not left without a
reason: both ends of a count are commits.

**DaemonProofs, the references.** `TagsAlwaysExact`, for any references, tags of tags and lines of
`packed-refs`. `RefsIInv` says that after *n* lines the two lists hold the tags of these lines and no
others, each with the object it peels to, and that each list is sorted once the file has been read
(`InOrder`). That there is an object it peels to is because tags lead in no circle (`Peel` is the end of
a chain), and it is the same whether the file gives it in a `^` line or `TagHasTarget` follows
the chain. `equal_range` returns all tags of a commit because the list is sorted by object; the
greatest of the tags found loose and of those found packed is the greatest of all.

Four of these statements need no run of their own: `InflightExact`, `ExitsForCause` and the
type invariants of `ThreadPool` and `Daemon` are proved for all constants, and a run would
repeat what the theorem says. (`SleeperCovers` is a conjunct of `NobodyForgotten`.)

**Only model-checked:** all liveness properties and the fairness part of `Refines`
(`ENABLED` is beyond the prover). Every safety invariant and every action property of the passing runs
is proved.

## 6. Disagreements with the code

Five runs are counterexamples to what the code says of itself.

1. `scan_error`: `RunAsync` decrements `inflight_` before its catch stores `error_`
   (`repo.cc:460`, `463`). The last scan, failing, lets `Wait` return; the main thread
   passes `VERIFY(!Load(error_))` (229) and answers with incomplete counts.
   `Index::GetDirtyCandidates` (`index.cc:425-440`) has the order right.
2. `scan_reuse`: `head_` is set (`repo.cc:186`) before the commit is looked up
   (328-331). If that throws, the next request with the same HEAD believes the
   zeroed counters.
3. `daemon_null`: `Open` emplaces a null entry (`repo_cache.cc:127`) before it opens the
   object database. If that throws, the next request for the repository follows the
   null pointer (110).
4. `tags_held`: `TagForCommit` lists loose tags first and reads each last
   (`tag_db.cc:120-131`). A tag packed and pruned in between is found in neither
   place.
5. `index_splits`: `InitSplits` rounds the weight of a shard down (`index.cc:388`).
   Shards that gather just that much each leave something over, and
   `CHECK(splits_.size() <= kNumShards + 1)` (402) ends the daemon. With the code's own
   numbers and one thread: 16 directories of weight 512 (the top with 495 files and
   16 subdirectories, 15 more with 511 files), and one with 1 to 14 files that comes
   last. `TreeExact` makes no claim about an index on which the CHECK fails.
Another is in the model without a run of its own, and `QueriesExact` claims no more than what is
left:

- The branch and the commit of an answer are read first (`gitstatus.cc:61-66`), its counts
  by the name HEAD (127, 129, 161, 163). If git switches branches in between, the commits
  ahead are those of the new branch, and not of the `current branch` (`options.cc:171`) the
  answer names; `head_target` would have been at hand.

Two more are errors the models leave out, because they would only hide others:

- A symbolic tag in `refs/tags` is never found: `TagHasTarget` (`tag_db.cc:304`) looks up
  the tag's own name again, not its target's. `TagsExact` makes no claim if a loose tag
  is symbolic, or in a directory (which the TODO at `tag_db.cc:158-159` admits).
- `+e`, `+U`, `+W` and `+D` of `gitstatus_start` do not cancel `-e` and the like: getopts
  gives `+e`, and `-+e` is removed (`gitstatus.plugin.zsh:532`), whereas `+a` works (516).
  `StartUnflag` does what the code does; `OptionsAgree` speaks of flags the user left set.

The others are texts that differ from the code: the comment on the number of
conflicts (`gitstatus.cc:119`), `has_staged` without a HEAD (`repo.h:71`), the warning
about an unexpected header (`tag_db.cc:237`), the documentation of `-t`, `Will block for
at most this long` (`gitstatus.plugin.zsh:70`; the rest of a partial answer is awaited
without a timeout, 297, and each late answer starts the timeout anew, 209-212; so does a timeout of
`gitstatus_process_results`, 266-269), and
`install_all_groups`, which leaves out a group (`install-dependencies.sh:53`).

## 7. What is not modelled

Of the modelled components:

- *Repositories found through a `.git` file* (worktrees, submodules), and the
  comment at `repo_cache.cc:92-94` about them. The cache is keyed by gitdir; in the
  model a gitdir and the directory that holds it are the same.
- *`req.diff`.* A request that asks for no index information skips
  `GetIndexStats` (`gitstatus.cc:111`) and leaves the `Repo` as it is; `RepoScan` begins
  where `GetIndexStats` does.
- *The assume-unchanged counter*, which is reset and incremented exactly where the
  skip-worktree one is.
- *Timestamps that do not advance.* `DirScan` numbers the changes: a directory changed
  twice within the granularity of its file system after the `fstat` has the same stat
  (`stat.h:17`), and the code would trust the older listing.
- *`ListDir` elsewhere than on Linux* (`dir.cc:142-235`) with the Unicode composition of
  names, which is not built here; symbolic links.
- *Object ids that are malformed* in `packed-refs`.
- *URLs of remotes and the commit message*, which are passed on as they are.
- *The handshake of `gitstatus_start`*, its lock and its download of the daemon; the options that
  do not concern limits. A start succeeds.
- *The death of the worker*, which drops all of its requests.
- *A shell that asks every second.* `select` then never times out, nothing is freed, and
  neither lock nor parent is looked at (`request.cc:101-112`); the code promises no more.
- *Out of memory*, as in a `Schedule` that throws (`Arena` models it for its own blocks).
- *The reference into `work_` that `wait_until` keeps* (`thread_pool.cc:64`): the
  library may read a moved deadline to decide on its return value, which `Next`
  ignores.
- *What a scan does to memory that is gone* after a failed request: the model stops
  at that point (`main = "undefined"`, or the scans of a freed repository rest).

Whole components:

- *Logging, printing, string helpers:* formatting, without behaviour over time.
- *bash client:* the protocol of `Client`, but synchronous: one request at a time.
- *powerlevel10k prompt and wizard, oh-my-zsh:* third-party code that renders text
  or loads plugins.
- *Installer, desktop scripts, root helpers:* a few calls of external programs one after
  the other, with no state but the files those write.

The repository holds the sources of gitstatus **twice**: under `source/home/.cache/gitstatus/`
and, the same files, under
`source/home/.oh-my-zsh/custom/themes/powerlevel10k/gitstatus/`. `PROJECT.json` maps
definitions to the first copy only, so a share of mapped lines counted over all files is
about half of the share of the code there is.

## 8. Plan

Done: the pool and its promise, the scan and its shards, the tags and their files,
the main loop and its messages, the queries, the tree of directories, their listing and
the tasks that scan them, the untracked cache and the check it rests on, the arena, the
client, the worker, the options; the
proofs of section 5.

What remains, in this order:

1. An abstract specification of the daemon as the client sees it (a request, one
   answer, in order), with `Daemon` shown to implement it and `Client` built on it.
2. The death of the worker and its restart; the lock of `gitstatus_start`.
3. `Dotfiles`: the round trip of `update.sh` and `install.sh`, every step of which
   may fail.
