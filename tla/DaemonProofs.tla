---------------------------- MODULE DaemonProofs ----------------------------
(***************************************************************************)
(* Proofs about the main loop of gitstatusd: its cache of repositories for *)
(* any directories, any requests and any ttl, whatever throws; what a      *)
(* request asks of git, for any history, whatever git writes meanwhile;    *)
(* and the tag of its commit, for any packed and loose tags.               *)
(***************************************************************************)
EXTENDS Daemon, Queries, TagRefs, SequenceTheorems, FiniteSetTheorems, WellFoundedInduction, TLAPS

\* Every entry has an age, or is a null pointer.
Aged == \A g \in DOMAIN cache : cache[g] \in Nat \cup {Null}

\* TagInsideRequest is not inductive alone: the repository must be in the cache
\* from the moment Open returns it.
InUse ==
    /\ tag \in BOOLEAN
    /\ tag = TRUE => main \in {"stats", "leave"}
    /\ main \in {"config", "stats", "leave"} => cur.dir \in DOMAIN cache

\* OneAnswer, with what has been written at every point of a request.
Answers ==
    /\ main \in {"select", "exited"} /\ cur # NoRequest => written = 1
    /\ main \in {"discover", "lookup", "config", "stats"} => written = 0
    /\ main = "leave" => written \in {0, 1}

\* The repositories of the cache.
Live == {x \in DOMAIN cache : cache[x] # Null}

IInv == Aged /\ LruExact /\ InUse /\ Answers /\ ExitsForCause

\* The steps that leave the cache alone.
OtherStep ==
    \/ ReadRequest \/ ReadEof \/ Config \/ Dump \/ StatsThrow \/ Leave \/ TagDone
    \/ \E d \in Dirs : GitInit(d) \/ GitRemove(d)
    \/ \E r \in Request \cup {Malformed} : Send(r)
    \/ Hangup

LEMMA Steps ==
  ASSUME Next
  PROVE  OtherStep \/ Tick \/ SelectTimesOut \/ Discover \/ Lookup
BY DEF Next, MainStep, OtherStep

LEMMA InitIInv == Init => IInv
<1> SUFFICES ASSUME Init PROVE IInv
  OBVIOUS
<1>1. DOMAIN cache = {}
  BY DEF Init
<1>2. Aged
  BY <1>1 DEF Aged
<1>3. lru = {} /\ Live = {}
  BY <1>1 DEF Init, Live
<1>4. LruExact
  BY <1>3 DEF LruExact, Live
<1>5. InUse /\ Answers /\ ExitsForCause
  BY DEF Init, InUse, Answers, ExitsForCause
<1>6. QED
  BY <1>2, <1>4, <1>5 DEF IInv

-----------------------------------------------------------------------------
(***************************************************************************)
(* The cache and its LRU.                                                  *)
(***************************************************************************)

\* LruExact of a state that has not crashed.
Paired == lru = {<<g, cache[g]>> : g \in Live}

\* Erase keeps them in step, as long as it meets no null pointer.
LEMMA EraseLinked ==
  ASSUME Aged, Paired, NEW G, ~HasNull(G), Erase(G)
  PROVE  Aged' /\ Paired' /\ DOMAIN cache' = DOMAIN cache \ G
<1> DEFINE found == G \cap DOMAIN cache
<1>1. /\ cache' = [g \in DOMAIN cache \ found |-> cache[g]]
      /\ lru' = lru \ {<<g, cache[g]>> : g \in found}
  BY DEF Erase
<1>2. \A x \in DOMAIN cache \ found : cache'[x] = cache[x]
  BY <1>1
<1>3. DOMAIN cache' = DOMAIN cache \ found
  BY <1>1
<1>4. Live' = Live \ found
  BY <1>2, <1>3 DEF Live
<1>5. lru' = {<<g, cache'[g]>> : g \in Live'}
  BY <1>1, <1>2, <1>3, <1>4 DEF Paired, Live
<1>6. QED
  BY <1>2, <1>3, <1>5 DEF Aged, Paired

LEMMA TickLinked == Aged /\ Paired /\ Tick => Aged' /\ Paired'
<1> SUFFICES ASSUME Aged, Paired, Tick PROVE Aged' /\ Paired'
  OBVIOUS
<1>1. DOMAIN cache' = DOMAIN cache /\ \A g \in DOMAIN cache : cache'[g] = Older(cache[g])
  BY DEF Tick
<1>2. \A g \in DOMAIN cache : /\ Older(cache[g]) \in Nat \cup {Null}
                              /\ Older(cache[g]) = Null <=> cache[g] = Null
  BY DaemonAssumption DEF Aged, Older, Null
<1>3. Live' = Live
  BY <1>1, <1>2 DEF Live
<1>4. lru' = {<<p[1], Older(p[2])>> : p \in lru}
  BY DEF Tick
<1>5. lru' = {<<g, Older(cache[g])>> : g \in Live}
  <2>1. ASSUME NEW g \in Live PROVE <<g, Older(cache[g])>> \in lru'
    <3>1. <<g, cache[g]>> \in lru
      BY DEF Paired
    <3>2. PICK p \in lru : p = <<g, cache[g]>>
      BY <3>1
    <3>3. p[1] = g /\ p[2] = cache[g]
      BY <3>2
    <3>4. QED
      BY <1>4, <3>3
  <2>2. ASSUME NEW q \in lru' PROVE \E g \in Live : q = <<g, Older(cache[g])>>
    <3>1. PICK p \in lru : q = <<p[1], Older(p[2])>>
      BY <1>4
    <3>2. PICK g \in Live : p = <<g, cache[g]>>
      BY DEF Paired
    <3>3. p[1] = g /\ p[2] = cache[g]
      BY <3>2
    <3>4. QED
      BY <3>1, <3>3
  <2>3. QED
    BY <2>1, <2>2
<1>6. Paired'
  BY <1>1, <1>3, <1>5 DEF Paired, Live
<1>7. QED
  BY <1>1, <1>2, <1>6 DEF Aged

LEMMA FreeLinked ==
  ASSUME Aged, Paired, main # "crashed", Free
  PROVE  /\ Aged' /\ Paired'
         /\ main' = main
         /\ \A p \in erased' : p[2] >= Ttl
<1> DEFINE out == {p[1] : p \in Expired}
<1>1. \A g \in out : g \in Live /\ cache[g] >= Ttl
  BY DEF Expired, Paired
<1>2. out \subseteq DOMAIN cache
  BY <1>1 DEF Live
<1>3. Erase(out) /\ main' = main
  BY <1>2 DEF Free
<1>4. ~HasNull(out)
  BY <1>1 DEF HasNull, Live
<1>5. Aged' /\ Paired'
  BY <1>3, <1>4, EraseLinked
<1>6. \A p \in erased' : p[2] >= Ttl
  BY <1>1, <1>3 DEF Erase
<1>7. QED
  BY <1>3, <1>5, <1>6

\* A hit moves the pair of its repository, a miss adds one, or none for a null
\* pointer.
LEMMA LookupLinked ==
  ASSUME Aged, Paired, main = "lookup", Lookup
  PROVE  /\ Aged'
         /\ main' # "crashed" => Paired'
         /\ main' \in {"crashed", "select", "config"}
         /\ main' = "config" => cur.dir \in DOMAIN cache'
<1> DEFINE g == cur.dir
<1>1. CASE Hit
  <2>1. CASE cache[g] = Null
    BY <1>1, <2>1 DEF Hit, Crash, Aged
  <2>2. CASE cache[g] # Null
    <3>1. /\ g \in DOMAIN cache
          /\ lru' = (lru \ {<<g, cache[g]>>}) \cup {<<g, 0>>}
          /\ cache' = [cache EXCEPT ![g] = 0]
          /\ main' = "config"
      BY <1>1, <2>2 DEF Hit, Touched
    <3>2. /\ DOMAIN cache' = DOMAIN cache /\ cache'[g] = 0
          /\ \A x \in DOMAIN cache \ {g} : cache'[x] = cache[x]
      BY <3>1
    <3>3. Live' = Live /\ g \in Live
      BY <2>2, <3>1, <3>2 DEF Live, Null
    <3>4. lru' = {<<x, cache'[x]>> : x \in Live}
      BY <3>1, <3>2, <3>3 DEF Paired, Live
    <3>5. QED
      BY <3>1, <3>2, <3>3, <3>4 DEF Aged, Paired
  <2>3. QED
    BY <2>1, <2>2
<1>2. CASE MissInVain
  BY <1>2 DEF MissInVain, NoRepo, Aged, Paired, Live
<1>3. CASE Miss
  <2>1. PICK age \in {0, Null} :
           /\ cache' = Insert(g, age)
           /\ lru' = IF age = 0 THEN lru \cup {<<g, 0>>} ELSE lru
           /\ main' = IF age = 0 THEN "config" ELSE "select"
    <3>1. CASE /\ cache' = Insert(g, 0)
               /\ lru' = lru \cup {<<g, 0>>}
               /\ main' = "config"
      BY <3>1
    <3>2. CASE /\ cache' = Insert(g, Null)
               /\ lru' = lru
               /\ main' = "select"
      BY <3>2 DEF Null
    <3>3. QED
      BY <1>3, <3>1, <3>2 DEF Miss, NoRepo
  <2>2. g \notin DOMAIN cache
    BY <1>3 DEF Miss
  <2>3. /\ DOMAIN cache' = DOMAIN cache \cup {g} /\ cache'[g] = age
        /\ \A x \in DOMAIN cache : cache'[x] = cache[x]
    BY <2>1, <2>2 DEF Insert
  <2>4. Live' = IF age = 0 THEN Live \cup {g} ELSE Live
    BY <2>2, <2>3 DEF Live, Null
  <2>5. Paired'
    BY <2>1, <2>2, <2>3, <2>4 DEF Paired, Live
  <2>6. QED
    BY <2>1, <2>3, <2>5 DEF Aged
<1>4. QED
  BY <1>1, <1>2, <1>3 DEF Lookup

-----------------------------------------------------------------------------
(***************************************************************************)
(* The invariant and the action property, one kind of step at a time.      *)
(***************************************************************************)

\* What a step owes: the invariant after it, and what it took out of the cache.
Kept == IInv' /\ \A p \in erased' : p[2] >= Ttl \/ p[1] \notin git

LEMMA OtherKept == IInv /\ OtherStep => Kept
<1> SUFFICES ASSUME IInv, OtherStep PROVE Kept
  OBVIOUS
<1>1. UNCHANGED <<cache, lru>> /\ erased' = {}
  BY DEF OtherStep, ReadRequest, ReadEof, Config, Dump, StatsThrow, Leave, TagDone, GitInit,
         GitRemove, Send, Hangup
<1>2. main # "crashed" <=> main' # "crashed"
  BY DEF OtherStep, ReadRequest, ReadEof, Config, NoRepo, Dump, StatsThrow, Leave, TagDone,
         GitInit, GitRemove, Send, Hangup
<1>3. Aged' /\ LruExact'
  BY <1>1, <1>2 DEF IInv, Aged, LruExact
<1>4. InUse'
  <2>1. CASE ReadRequest \/ ReadEof
    BY <1>1, <2>1 DEF IInv, InUse, ReadRequest, ReadEof
  <2>2. CASE Config
    BY <1>1, <2>2 DEF IInv, InUse, Config, NoRepo
  <2>3. CASE Dump \/ StatsThrow
    BY <1>1, <2>3 DEF IInv, InUse, Dump, StatsThrow
  <2>4. CASE Leave
    <3>1. tag = FALSE /\ UNCHANGED <<tag, cur>> /\ main' = "select"
      BY <2>4 DEF IInv, InUse, Leave, MayLeave
    <3>2. QED
      BY <3>1 DEF InUse
  <2>5. CASE TagDone
    BY <1>1, <2>5 DEF IInv, InUse, TagDone
  <2>6. ASSUME UNCHANGED <<main, cur, tag>> PROVE InUse'
    BY <1>1, <2>6 DEF IInv, InUse
  <2>7. QED
    BY <2>1, <2>2, <2>3, <2>4, <2>5, <2>6 DEF OtherStep, GitInit, GitRemove, Send, Hangup
<1>5. Answers'
  BY DEF IInv, Answers, OtherStep, ReadRequest, Malformed, ReadEof, Config, NoRepo,
         AnswersOnLeave, Dump, StatsThrow, Leave, TagDone, GitInit, GitRemove, Send, Hangup
<1>6. ExitsForCause'
  BY DEF IInv, ExitsForCause, OtherStep, ReadRequest, ReadEof, Config, NoRepo, Dump,
         StatsThrow, Leave, TagDone, GitInit, GitRemove, Send, Hangup
<1>7. QED
  BY <1>1, <1>3, <1>4, <1>5, <1>6 DEF Kept, IInv

LEMMA TickKept == IInv /\ Tick => Kept
<1> SUFFICES ASSUME IInv, Tick PROVE Kept
  OBVIOUS
<1>1. /\ DOMAIN cache' = DOMAIN cache /\ erased' = {}
      /\ UNCHANGED <<pipe, client, main, cur, tag, written>>
  BY DEF Tick
<1>2. Aged' /\ LruExact'
  <2>1. CASE main = "crashed"
    <3>1. \A g \in DOMAIN cache : cache'[g] = Older(cache[g])
      BY DEF Tick
    <3>2. QED
      BY <1>1, <2>1, <3>1 DEF IInv, Aged, Older, Null, LruExact
  <2>2. CASE main # "crashed"
    BY <1>1, <2>2, TickLinked DEF IInv, LruExact, Paired, Live
  <2>3. QED
    BY <2>1, <2>2
<1>3. InUse' /\ Answers' /\ ExitsForCause'
  BY <1>1 DEF IInv, InUse, Answers, ExitsForCause
<1>4. QED
  BY <1>1, <1>2, <1>3 DEF Kept, IInv

LEMMA SelectKept == IInv /\ SelectTimesOut => Kept
<1> SUFFICES ASSUME IInv, SelectTimesOut PROVE Kept
  OBVIOUS
<1>1. main = "select" /\ pipe = << >> /\ UNCHANGED <<git, pipe, client, cur, tag, written>>
  BY DEF SelectTimesOut
<1>2. CASE Orphaned \/ Ttl < 0
  <2>1. /\ UNCHANGED <<cache, lru>> /\ erased' = {}
        /\ main' = main \/ (client = "dead" /\ main' = "exited")
    BY <1>2, DaemonAssumption DEF SelectTimesOut, Orphaned
  <2>2. Aged' /\ LruExact' /\ InUse' /\ Answers' /\ ExitsForCause'
    BY <1>1, <2>1 DEF IInv, Aged, LruExact, InUse, Answers, ExitsForCause
  <2>3. QED
    BY <2>1, <2>2 DEF Kept, IInv
<1>3. CASE ~Orphaned /\ Ttl >= 0
  <2>1. Free
    BY <1>3 DEF SelectTimesOut
  <2>2. /\ Aged' /\ Paired' /\ main' = main
        /\ \A p \in erased' : p[2] >= Ttl
    BY <1>1, <2>1, FreeLinked DEF IInv, LruExact, Paired, Live
  <2>3. LruExact'
    BY <2>2 DEF LruExact, Paired, Live
  <2>4. InUse' /\ Answers' /\ ExitsForCause'
    BY <1>1, <2>2 DEF IInv, InUse, Answers, ExitsForCause
  <2>5. QED
    BY <2>2, <2>3, <2>4 DEF Kept, IInv
<1>4. QED
  BY <1>2, <1>3, DaemonAssumption

LEMMA DiscoverKept == IInv /\ Discover => Kept
<1> SUFFICES ASSUME IInv, Discover PROVE Kept
  OBVIOUS
<1>1. /\ main = "discover" /\ tag = FALSE /\ written = 0
      /\ UNCHANGED <<git, pipe, client, tag>>
  BY DEF IInv, InUse, Answers, Discover
<1>2. CASE /\ main' \in {"lookup", "select", "crashed"}
           /\ erased' = {} /\ UNCHANGED <<cache, lru>>
           /\ main' = "lookup" => written' = 0
           /\ main' = "select" => written' = 1
  <2>1. Aged' /\ LruExact'
    BY <1>1, <1>2 DEF IInv, Aged, LruExact
  <2>2. InUse' /\ Answers' /\ ExitsForCause'
    BY <1>1, <1>2 DEF InUse, Answers, ExitsForCause
  <2>3. QED
    BY <1>2, <2>1, <2>2 DEF Kept, IInv
<1>3. CASE /\ \A d \in Range(Search(cur)) : d \notin git
           /\ ~HasNull(Range(Search(cur))) /\ Erase(Range(Search(cur))) /\ NoRepo(FALSE)
  <2> DEFINE G == Range(Search(cur))
  <2>1. Aged' /\ Paired'
    BY <1>1, <1>3, EraseLinked DEF IInv, LruExact, Paired, Live
  <2>2. LruExact'
    BY <2>1 DEF LruExact, Paired, Live
  <2>3. main' = "select" /\ written' = 1
    BY <1>1, <1>3 DEF NoRepo, AnswersOnLeave
  <2>4. InUse' /\ Answers' /\ ExitsForCause'
    BY <1>1, <2>3 DEF InUse, Answers, ExitsForCause
  <2>5. \A p \in erased' : p[1] \notin git
    BY <1>3 DEF Erase
  <2>6. QED
    BY <2>1, <2>2, <2>4, <2>5 DEF Kept, IInv
<1>4. QED
  BY <1>1, <1>2, <1>3 DEF Discover, Crash, NoRepo, AnswersOnLeave

LEMMA LookupKept == IInv /\ Lookup => Kept
<1> SUFFICES ASSUME IInv, Lookup PROVE Kept
  OBVIOUS
<1>1. /\ main = "lookup" /\ tag = FALSE /\ written = 0 /\ erased' = {}
      /\ UNCHANGED <<git, pipe, client, cur, tag>>
  BY DEF IInv, InUse, Answers, Lookup, Hit, Crash, MissInVain, Miss
<1>2. /\ Aged' /\ (main' # "crashed" => Paired')
      /\ main' \in {"crashed", "select", "config"}
      /\ main' = "config" => cur.dir \in DOMAIN cache'
  BY <1>1, LookupLinked DEF IInv, LruExact, Paired, Live
<1>3. LruExact'
  BY <1>2 DEF LruExact, Paired, Live
<1>4. InUse' /\ ExitsForCause'
  BY <1>1, <1>2 DEF InUse, ExitsForCause
<1>5. Answers'
  BY <1>1, <1>2 DEF Answers, Lookup, Hit, Crash, MissInVain, Miss, NoRepo, AnswersOnLeave
<1>6. QED
  BY <1>1, <1>2, <1>3, <1>4, <1>5 DEF Kept, IInv

LEMMA StutterKept == IInv /\ UNCHANGED vars => IInv'
BY DEF IInv, Aged, LruExact, InUse, Answers, ExitsForCause, vars

LEMMA NextKept == IInv /\ Next => Kept
BY Steps, OtherKept, TickKept, SelectKept, DiscoverKept, LookupKept

-----------------------------------------------------------------------------
(***************************************************************************)
(* Types: those of the cache with its LRU, and the others.                 *)
(***************************************************************************)

CacheTyped ==
    /\ DOMAIN cache \subseteq Dirs
    /\ \A g \in DOMAIN cache : cache[g] \in Ages \cup {Null}
    /\ lru \subseteq Dirs \X Ages
    /\ erased \subseteq Dirs \X Ages

RestTyped ==
    /\ git \subseteq Dirs
    /\ pipe \in Seq(Request \cup {Malformed}) /\ Len(pipe) <= MaxPending
    /\ client \in {"open", "closed", "dead"}
    /\ main \in {"select", "discover", "lookup", "config", "stats", "leave", "exited",
                 "crashed"}
    /\ cur \in Request \cup {NoRequest}
    /\ tag \in BOOLEAN
    /\ written \in {0, 1}

LEMMA Split == TypeOK <=> CacheTyped /\ RestTyped
BY DEF TypeOK, CacheTyped, RestTyped

LEMMA AgesTyped == Ages \subseteq Nat /\ 0 \in Ages /\ Null \notin Ages
BY DaemonAssumption DEF Ages, Null

\* What Erase takes out has an age, if it meets no null pointer.
LEMMA EraseTyped ==
  ASSUME CacheTyped, NEW G, ~HasNull(G), Erase(G)
  PROVE  CacheTyped'
<1> DEFINE found == G \cap DOMAIN cache
<1>1. /\ cache' = [g \in DOMAIN cache \ found |-> cache[g]]
      /\ lru' = lru \ {<<g, cache[g]>> : g \in found}
      /\ erased' = {<<g, cache[g]>> : g \in found}
  BY DEF Erase
<1>2. \A g \in found : g \in Dirs /\ cache[g] \in Ages
  BY DEF CacheTyped, HasNull
<1>3. erased' \subseteq Dirs \X Ages
  BY <1>1, <1>2
<1>4. DOMAIN cache' \subseteq DOMAIN cache /\ \A g \in DOMAIN cache' : cache'[g] = cache[g]
  BY <1>1
<1>5. lru' \subseteq lru
  BY <1>1
<1>6. QED
  BY <1>3, <1>4, <1>5 DEF CacheTyped

LEMMA TickTyped == CacheTyped /\ Tick => CacheTyped'
<1> SUFFICES ASSUME CacheTyped, Tick PROVE CacheTyped'
  OBVIOUS
<1>1. \A x \in Ages : Older(x) \in Ages
  BY DaemonAssumption DEF Ages, Older, Null
<1>2. Older(Null) = Null
  BY DEF Older
<1>3. /\ DOMAIN cache' = DOMAIN cache
      /\ \A g \in DOMAIN cache : cache'[g] \in Ages \cup {Null}
  BY <1>1, <1>2 DEF Tick, CacheTyped
<1>4. lru' \subseteq Dirs \X Ages
  <2>1. lru' = {<<p[1], Older(p[2])>> : p \in lru}
    BY DEF Tick
  <2>2. \A p \in lru : p[1] \in Dirs /\ p[2] \in Ages
    BY DEF CacheTyped
  <2>3. QED
    BY <1>1, <2>1, <2>2
<1>5. QED
  BY <1>3, <1>4 DEF Tick, CacheTyped

LEMMA SelectTyped == IInv /\ TypeOK /\ SelectTimesOut => TypeOK'
<1> SUFFICES ASSUME IInv, TypeOK, SelectTimesOut PROVE TypeOK'
  OBVIOUS
<1>1. main = "select" /\ UNCHANGED <<git, pipe, client, cur, tag, written>>
  BY DEF SelectTimesOut
<1>2. CASE Free
  <2> DEFINE out == {p[1] : p \in Expired}
  <2>1. \A g \in out : g \in Live
    BY <1>1 DEF Expired, IInv, LruExact, Live
  <2>2. out \subseteq DOMAIN cache /\ ~HasNull(out)
    BY <2>1 DEF Live, HasNull
  <2>3. Erase(out) /\ main' = main
    BY <1>2, <2>2 DEF Free
  <2>4. CacheTyped'
    BY <2>2, <2>3, EraseTyped, Split
  <2>5. RestTyped'
    BY <1>1, <2>3, Split DEF RestTyped
  <2>6. QED
    BY <2>4, <2>5, Split DEF CacheTyped, RestTyped, TypeOK
<1>3. CASE UNCHANGED <<cache, lru>> /\ erased' = {} /\ main' \in {main, "exited"}
  BY <1>1, <1>3 DEF TypeOK
<1>4. QED
  BY <1>2, <1>3 DEF SelectTimesOut

LEMMA DiscoverTyped == IInv /\ TypeOK /\ Discover => TypeOK'
<1> SUFFICES ASSUME IInv, TypeOK, Discover PROVE TypeOK'
  OBVIOUS
<1>1. main = "discover" /\ written = 0 /\ UNCHANGED <<git, pipe, client, tag>>
  BY DEF Discover, IInv, Answers
<1>2. Search(cur) \in Seq(Dirs) \/ cur.dir \notin Dirs \cup {Relative}
  BY DaemonAssumption DEF Search
<1>3. cur \in Request \cup {NoRequest}
  BY DEF TypeOK
<1>4. CASE /\ \E i \in DOMAIN Search(cur) :
                FoundAt(cur, i) /\ cur' = [cur EXCEPT !.dir = Search(cur)[i]]
           /\ main' = "lookup" /\ erased' = {} /\ UNCHANGED <<written, cache, lru>>
  <2>1. PICK i \in DOMAIN Search(cur) :
           FoundAt(cur, i) /\ cur' = [cur EXCEPT !.dir = Search(cur)[i]]
    BY <1>4
  <2>2. Search(cur)[i] \in Dirs
    BY <2>1 DEF FoundAt, TypeOK
  <2>3. cur' \in Request
    <3>1. cur \in [dir : Dirs \cup {Relative, NoDir}, dotgit : BOOLEAN]
      <4>1. CASE cur \in Request
        BY <4>1 DEF Request
      <4>2. CASE cur = NoRequest
        BY <4>2 DEF NoRequest
      <4>3. QED
        BY <1>3, <4>1, <4>2
    <3>2. cur' \in [dir : Dirs \cup {Relative}, dotgit : BOOLEAN]
      BY <2>1, <2>2, <3>1
    <3>3. QED
      BY <3>2 DEF Request
  <2>4. QED
    BY <1>1, <1>4, <2>3 DEF TypeOK
<1>5. CASE ~HasNull(Range(Search(cur))) /\ Erase(Range(Search(cur))) /\ NoRepo(FALSE) /\ cur' = cur
  <2>1. CacheTyped'
    BY <1>5, EraseTyped, Split
  <2>2. RestTyped'
    BY <1>1, <1>5, Split DEF RestTyped, NoRepo, AnswersOnLeave
  <2>3. QED
    BY <2>1, <2>2 DEF CacheTyped, RestTyped, TypeOK
<1>6. CASE /\ UNCHANGED <<cur, cache, lru>> /\ erased' = {}
           /\ main' \in {"select", "crashed"} /\ written' \in {0, 1}
  BY <1>1, <1>6 DEF TypeOK
<1>7. QED
  BY <1>1, <1>4, <1>5, <1>6 DEF Discover, Crash, NoRepo, AnswersOnLeave

LEMMA LookupTyped == IInv /\ TypeOK /\ Lookup => TypeOK'
<1> SUFFICES ASSUME IInv, TypeOK, Lookup PROVE TypeOK'
  OBVIOUS
<1>1. main = "lookup" /\ written = 0 /\ UNCHANGED <<git, pipe, client, cur, tag>>
  BY DEF Lookup, IInv, Answers
<1>2. /\ erased' = {} /\ written' \in {0, 1}
      /\ main' \in {"config", "select", "crashed"}
  BY <1>1 DEF Lookup, Hit, Crash, MissInVain, Miss, NoRepo, AnswersOnLeave
<1>3. CASE Hit
  <2>1. cur.dir \in Dirs
    BY <1>3 DEF Hit, TypeOK
  <2>2. lru' \subseteq lru \cup {<<cur.dir, 0>>}
    BY <1>3 DEF Hit, Crash, Touched
  <2>3. /\ DOMAIN cache' = DOMAIN cache
        /\ \A g \in DOMAIN cache : cache'[g] \in {0, cache[g]}
    BY <1>3 DEF Hit, Crash
  <2>4. QED
    BY <1>1, <1>2, <2>1, <2>2, <2>3, AgesTyped DEF TypeOK
<1>4. CASE MissInVain
  BY <1>1, <1>2, <1>4 DEF MissInVain, TypeOK
<1>5. CASE Miss
  <2>1. cur.dir \in Dirs
    BY <1>5 DEF Miss, TypeOK
  <2>2. lru' \subseteq lru \cup {<<cur.dir, 0>>}
    BY <1>5 DEF Miss
  <2>3. /\ DOMAIN cache' = DOMAIN cache \cup {cur.dir}
        /\ \A g \in DOMAIN cache' :
              cache'[g] \in {0, Null} \/ (g \in DOMAIN cache /\ cache'[g] = cache[g])
    <3>1. PICK age \in {0, Null} : cache' = Insert(cur.dir, age)
      BY <1>5 DEF Miss
    <3>2. QED
      BY <3>1 DEF Insert
  <2>4. QED
    BY <1>1, <1>2, <2>1, <2>2, <2>3, AgesTyped DEF TypeOK
<1>6. QED
  BY <1>3, <1>4, <1>5 DEF Lookup

LEMMA OtherTyped == IInv /\ TypeOK /\ OtherStep => TypeOK'
<1> SUFFICES ASSUME IInv, TypeOK, OtherStep PROVE TypeOK'
  OBVIOUS
<1>1. UNCHANGED <<cache, lru>> /\ erased' = {}
  BY DEF OtherStep, ReadRequest, ReadEof, Config, Dump, StatsThrow, Leave, TagDone, GitInit,
         GitRemove, Send, Hangup
<1>2. CacheTyped'
  BY <1>1 DEF TypeOK, CacheTyped
<1>3. CASE ReadRequest
  <2>1. Head(pipe) \in Request \cup {Malformed} /\ Tail(pipe) \in Seq(Request \cup {Malformed})
    BY <1>3 DEF ReadRequest, TypeOK
  <2>2. Len(Tail(pipe)) <= MaxPending
    BY <1>3, DaemonAssumption DEF ReadRequest, TypeOK
  <2>3. RestTyped'
    BY <1>3, <2>1, <2>2 DEF ReadRequest, TypeOK, RestTyped, Malformed
  <2>4. QED
    BY <1>2, <2>3 DEF CacheTyped, RestTyped, TypeOK
<1>4. ASSUME NEW r \in Request \cup {Malformed}, Send(r) PROVE TypeOK'
  <2>1. pipe' \in Seq(Request \cup {Malformed}) /\ Len(pipe') <= MaxPending
    BY <1>4, DaemonAssumption DEF Send, TypeOK
  <2>2. RestTyped'
    BY <1>4, <2>1 DEF Send, TypeOK, RestTyped
  <2>3. QED
    BY <1>2, <2>2 DEF CacheTyped, RestTyped, TypeOK
<1>5. CASE ReadEof \/ Config \/ Dump \/ StatsThrow \/ Leave \/ TagDone \/ Hangup
  <2>1. UNCHANGED <<git, pipe, cur>> /\ client' \in {"open", "closed", "dead"}
    BY <1>5 DEF ReadEof, Config, Dump, StatsThrow, Leave, TagDone, Hangup, TypeOK
  <2>2. main' \in {"select", "stats", "leave", "exited", main}
    BY <1>5 DEF ReadEof, Config, NoRepo, Dump, StatsThrow, Leave, TagDone, Hangup
  <2>3. tag' \in {TRUE, FALSE, tag}
    BY <1>5 DEF ReadEof, Config, Dump, StatsThrow, Leave, TagDone, Hangup
  <2>4. written' \in {0, 1}
    BY <1>5 DEF IInv, Answers, ReadEof, Config, NoRepo, AnswersOnLeave, Dump, StatsThrow, Leave,
                TagDone, Hangup, TypeOK
  <2>5. RestTyped'
    BY <2>1, <2>2, <2>3, <2>4 DEF TypeOK, RestTyped
  <2>6. QED
    BY <1>2, <2>5 DEF CacheTyped, RestTyped, TypeOK
<1>6. ASSUME NEW d \in Dirs, GitInit(d) \/ GitRemove(d) PROVE TypeOK'
  <2>1. RestTyped'
    BY <1>6 DEF GitInit, GitRemove, TypeOK, RestTyped
  <2>2. QED
    BY <1>2, <2>1 DEF CacheTyped, RestTyped, TypeOK
<1>7. QED
  BY <1>3, <1>4, <1>5, <1>6 DEF OtherStep

LEMMA NextTyped == IInv /\ TypeOK /\ [Next]_vars => TypeOK'
<1> SUFFICES ASSUME IInv, TypeOK, [Next]_vars PROVE TypeOK'
  OBVIOUS
<1>1. CASE UNCHANGED vars
  BY <1>1 DEF vars, TypeOK
<1>2. CASE Tick
  <2>1. CacheTyped' /\ RestTyped'
    BY <1>2, TickTyped, Split DEF Tick, RestTyped
  <2>2. QED
    BY <2>1 DEF CacheTyped, RestTyped, TypeOK
<1>3. QED
  BY <1>1, <1>2, Steps, OtherTyped, SelectTyped, DiscoverTyped, LookupTyped

-----------------------------------------------------------------------------
(***************************************************************************)
(* The theorems.                                                           *)
(***************************************************************************)

\* The inductive invariant holds in every run.
THEOREM DaemonInvariant == Spec => []IInv
<1>1. IInv /\ [Next]_vars => IInv'
  BY NextKept, StutterKept DEF Kept
<1>2. QED
  BY <1>1, InitIInv, PTL DEF Spec

\* Every part of the state keeps its type: no age exceeds the ttl, no request
\* gets two responses, and what leaves the cache is never a null pointer.
THEOREM TypesAlways == Spec => []TypeOK
<1>1. Init => TypeOK
  <2> SUFFICES ASSUME Init PROVE TypeOK
    OBVIOUS
  <2>1. DOMAIN cache = {}
    BY DEF Init
  <2>2. pipe \in Seq(Request \cup {Malformed}) /\ Len(pipe) <= MaxPending
    BY DaemonAssumption DEF Init
  <2>3. QED
    BY <2>1, <2>2 DEF Init, TypeOK
<1>2. QED
  BY <1>1, NextTyped, DaemonInvariant, PTL DEF Spec

\* cache_ and lru_ (repo_cache.cc) never disagree before a null entry is followed.
THEOREM LruAlwaysExact == Spec => []LruExact
<1>1. IInv => LruExact
  BY DEF IInv
<1>2. QED
  BY <1>1, DaemonInvariant, PTL

\* The destructor of ResponseWriter and Dump write one response between them.
THEOREM OneAnswerAlways == Spec => []OneAnswer
<1>1. IInv => OneAnswer
  BY DEF IInv, Answers, OneAnswer
<1>2. QED
  BY <1>1, DaemonInvariant, PTL

\* The wait of ProcessRequest for the tag keeps its repository alive.
THEOREM TagAlwaysInsideRequest == Spec => []TagInsideRequest
<1>1. IInv => TagInsideRequest
  BY DEF IInv, InUse, TagInsideRequest
<1>2. QED
  BY <1>1, DaemonInvariant, PTL

\* The loop of RequestReader is only left for a shell that is gone.
THEOREM AlwaysExitsForCause == Spec => []ExitsForCause
<1>1. IInv => ExitsForCause
  BY DEF IInv
<1>2. QED
  BY <1>1, DaemonInvariant, PTL

\* Free and Open drop nothing that is fresh and still there.
THEOREM RecentAlwaysKept == Spec => RecentKept
<1>1. IInv /\ [Next]_vars => [\A p \in erased' : p[2] >= Ttl \/ p[1] \notin git]_vars
  BY NextKept DEF Kept
<1>2. QED
  BY <1>1, DaemonInvariant, PTL DEF Spec, RecentKept
-----------------------------------------------------------------------------
(***************************************************************************)
(* What a request asks of git, while git goes on writing.                  *)
(***************************************************************************)
RepoType ==
    [head : [ref : GitRefs \cup {NoRef}, commit : GitCommits \cup {0}],
     tips : [GitRefs -> GitCommits \cup {0}],
     rebase : [dir : {"none", "rebase-merge", "rebase-apply"}, next : 0..2, last : 0..2],
     merging : BOOLEAN, stashes : 0..1]

RemoteType == [name : Remotes \cup {Here}, branch : Seq(STRING), ref : GitRefs \cup {NoRef}]
WalkType == [from : GitCommits \cup {0}, via : GitRefs \cup {NoRef}]
Counts == {0} \cup {CountRange(c, d) : c, d \in GitCommits}

AnswerType ==
    [symbolic : GitRefs \cup {NoRef}, target : GitCommits \cup {0}, local : Seq(STRING),
     remote : RemoteType, ahead : Counts, behind : Counts,
     dir : {"none", "rebase-merge", "rebase-apply"}, next : 0..2, last : 0..2,
     action : {"none", "merge", "rebase-merge", "rebase-apply"}, stashes : 0..1,
     push : RemoteType, push_ahead : Counts, push_behind : Counts]

Configs == [Branches -> Upstreams \cup {NoUpstream}]

\* The last moment of a history.
Latest(p, n) == n \in DOMAIN p /\ n \in Nat /\ \A i \in DOMAIN p : i \in Nat /\ i <= n

QueriesTyped ==
    /\ past \in Seq(RepoType) /\ Latest(past, Len(past)) /\ past[Len(past)] = repo
    /\ ans \in AnswerType /\ walk \in WalkType /\ upstream \in Configs /\ push_upstream \in Configs
    /\ asking \notin Counting => walk = NoWalk

Pushing == {"push config", "push lookup", "push ahead", "push behind", "done"}
Ended == {"left", "threw"}

\* What is known of the remotes, by the configuration of the branch.
RemotePart ==
    /\ asking \notin {"head", "resolve", "config"} \cup Ended => ans.local = LocalBranchName
    /\ asking \notin {"behind", "stash", "threw"} \cup Pushing => ans.ahead = 0
    /\ asking \notin {"stash", "threw"} \cup Pushing => ans.behind = 0
    /\ ans.remote = NoRemote /\ asking # "threw" => ans.ahead = 0 /\ ans.behind = 0
    /\ asking \notin {"head", "resolve", "config"} \cup Ended => RemoteRight(upstream, ans.remote)
    /\ asking \in {"head", "resolve", "config"} => ans.remote = NoRemote
    /\ ans.remote = NoRemote \/ ans.remote.ref \in GitRefs
    /\ asking # "threw" => BranchRight(ans.remote)
    /\ asking \in {"lookup", "ahead", "behind"} => ans.remote # NoRemote

PushPart ==
    /\ asking \notin {"push behind", "done", "threw"} => ans.push_ahead = 0
    /\ asking \notin {"done", "threw"} => ans.push_behind = 0
    /\ ans.push = NoRemote /\ asking # "threw" => ans.push_ahead = 0 /\ ans.push_behind = 0
    /\ asking \in Pushing => RemoteRight(push_upstream, ans.push)
    /\ asking \notin {"push lookup", "push ahead", "push behind", "done", "threw"} => ans.push = NoRemote
    /\ ans.push = NoRemote \/ ans.push.ref \in GitRefs
    /\ asking \in {"push lookup", "push ahead", "push behind"} => ans.push # NoRemote

\* The steps are of the directory that was found.
StepsPart ==
    /\ asking \in {"next", "last"} => ans.dir # "none"
    /\ asking \in {"head", "resolve", "config", "lookup", "merge dir", "apply dir", "left"} => ans.dir = "none"
    /\ ans.dir = "none" \/ asking = "next" => ans.next = 0
    /\ ans.dir = "none" \/ asking \in {"next", "last"} => ans.last = 0
    /\ asking \in {"ahead", "behind", "stash"} \cup Pushing => ((ans.next = 0) = (ans.last = 0))

\* What the walk of "ref..HEAD" has found behind the moments of S, and that of
\* "HEAD..ref".
WalksAhead(p, S, ref, w) ==
    /\ w.from = 0 => S # {} /\ w.via = NoRef
    /\ w.from # 0 /\ w.via = NoRef =>
          \E m \in S, i \in DOMAIN p : m <= i /\ p[i].tips[ref] = w.from
    /\ w.from # 0 /\ w.via # NoRef =>
          \E m \in S, i, j \in DOMAIN p : m <= i /\ i <= j /\ p[i].tips[ref] = w.from /\ p[j].head.ref = w.via
WalksBehind(p, S, w) ==
    /\ w.from = 0 /\ w.via = NoRef => S # {}
    /\ w.from = 0 /\ w.via # NoRef =>
          \E m \in S, i \in DOMAIN p : m <= i /\ p[i].head.ref = w.via
    /\ w.from # 0 =>
          w.via = NoRef /\ \E m \in S, i, j \in DOMAIN p : m <= i /\ i <= j /\ HeadAt(p, i, j) = w.from

SinceAhead == AheadSeen(past, SinceLast, ans.remote.ref, ans.ahead)
SincePushAhead == AheadSeen(past, SincePush, ans.push.ref, ans.push_ahead)

\* By some moment all of the answer so far has been read, in its order.
MomentsPart ==
    /\ asking = "resolve" => \E n \in DOMAIN past : past[n].head = [ref |-> ans.symbolic, commit |-> ans.target]
    /\ asking \in {"config", "lookup"} => SinceHead # {}
    /\ asking \in {"merge dir", "apply dir", "next"} => SinceRemote # {}
    /\ asking = "last" => SinceNext # {}
    /\ asking = "state" => SinceLast # {}
    /\ asking = "ahead" => WalksAhead(past, SinceLast, ans.remote.ref, walk)
    /\ asking = "behind" => WalksBehind(past, SinceAhead, walk)
    /\ asking = "stash" => SinceCounts # {}
    /\ asking \in {"push config", "push lookup"} => SinceStashes # {}
    /\ asking = "push ahead" => WalksAhead(past, SincePush, ans.push.ref, walk)
    /\ asking = "push behind" => WalksBehind(past, SincePushAhead, walk)
    /\ asking = "done" => SincePushCounts # {}

\* As long as git has changed nothing.
RestPart ==
    Len(past) = 1 =>
       /\ asking = "left" => repo.head.ref = NoRef /\ repo.head.commit = 0
       /\ asking = "threw" =>
             LET u == upstream[repo.head.ref]
             IN  HasBranchName(u.ref) /\ ~IsStrictPrefix(<<u.ref[1]>> \o u.remote, u.ref)
       /\ asking \in {"ahead", "behind", "stash"} \cup Pushing => ans.action = Action(repo)

QueriesIInv == QueriesTyped /\ RemotePart /\ PushPart /\ StepsPart /\ MomentsPart /\ RestPart

-----------------------------------------------------------------------------
\* Moments: more of them, and the last.
Extends(p, q) == DOMAIN p \subseteq DOMAIN q /\ \A i \in DOMAIN p : q[i] = p[i]

LEMMA NotBeforeGrows ==
  ASSUME NEW S, NEW T, NEW U, NEW V, S \subseteq U, T \subseteq V
  PROVE  NotBefore(S, T) \subseteq NotBefore(U, V)
BY DEF NotBefore

LEMMA HeadSeenGrows ==
  ASSUME NEW p, NEW q, Extends(p, q), NEW ref, NEW c
  PROVE  HeadSeen(p, ref, c) \subseteq HeadSeen(q, ref, c)
BY DEF Extends, HeadSeen, NotBefore

LEMMA RemoteSeenGrows ==
  ASSUME NEW p, NEW q, Extends(p, q), NEW S, NEW U, S \subseteq U, NEW r
  PROVE  RemoteSeen(p, S, r) \subseteq RemoteSeen(q, U, r)
BY DEF Extends, RemoteSeen, NotBefore

LEMMA StepsSeenGrow ==
  ASSUME NEW p, NEW q, Extends(p, q), NEW S, NEW U, S \subseteq U, NEW dir, NEW k
  PROVE  /\ NextSeen(p, S, dir, k) \subseteq NextSeen(q, U, dir, k)
         /\ LastSeen(p, S, dir, k) \subseteq LastSeen(q, U, dir, k)
<1>1. NextSeen(p, S, dir, k) \subseteq NextSeen(q, U, dir, k)
  BY DEF Extends, NextSeen, NotBefore
<1>2. LastSeen(p, S, dir, k) \subseteq LastSeen(q, U, dir, k)
  BY DEF Extends, LastSeen, NotBefore
<1>3. QED
  BY <1>1, <1>2

LEMMA StashesSeenGrow ==
  ASSUME NEW p, NEW q, Extends(p, q), NEW S, NEW U, S \subseteq U, NEW k
  PROVE  StashesSeen(p, S, k) \subseteq StashesSeen(q, U, k)
BY DEF Extends, StashesSeen, NotBefore

LEMMA HeadAtStays ==
  ASSUME NEW p, NEW q, Extends(p, q), NEW i \in DOMAIN p, NEW j \in DOMAIN p
  PROVE  HeadAt(q, i, j) = HeadAt(p, i, j)
BY DEF Extends, HeadAt

LEMMA AheadSeenGrows ==
  ASSUME NEW p, NEW q, Extends(p, q), NEW S, NEW U, S \subseteq U, NEW ref, NEW count
  PROVE  AheadSeen(p, S, ref, count) \subseteq AheadSeen(q, U, ref, count)
<1> SUFFICES ASSUME NEW k \in AheadSeen(p, S, ref, count)
             PROVE  k \in AheadSeen(q, U, ref, count)
  OBVIOUS
<1>1. k \in DOMAIN p
  BY DEF AheadSeen
<1>2. PICK i, j \in DOMAIN p :
          /\ \E m \in S : m <= i /\ i <= j /\ j <= k
          /\ p[i].tips[ref] # 0 /\ HeadAt(p, j, k) # 0 /\ count = OnlyIn(HeadAt(p, j, k), p[i].tips[ref])
  BY DEF AheadSeen
<1>3. HeadAt(q, j, k) = HeadAt(p, j, k) /\ q[i] = p[i] /\ {i, j, k} \subseteq DOMAIN q
  BY <1>1, <1>2, HeadAtStays DEF Extends
<1>4. QED
  BY <1>2, <1>3 DEF AheadSeen

LEMMA BehindSeenGrows ==
  ASSUME NEW p, NEW q, Extends(p, q), NEW S, NEW U, S \subseteq U, NEW ref, NEW count
  PROVE  BehindSeen(p, S, ref, count) \subseteq BehindSeen(q, U, ref, count)
<1> SUFFICES ASSUME NEW k \in BehindSeen(p, S, ref, count)
             PROVE  k \in BehindSeen(q, U, ref, count)
  OBVIOUS
<1>1. k \in DOMAIN p
  BY DEF BehindSeen
<1>2. PICK i, j \in DOMAIN p :
          /\ \E m \in S : m <= i /\ i <= j /\ j <= k
          /\ p[k].tips[ref] # 0 /\ HeadAt(p, i, j) # 0 /\ count = OnlyIn(p[k].tips[ref], HeadAt(p, i, j))
  BY DEF BehindSeen
<1>3. HeadAt(q, i, j) = HeadAt(p, i, j) /\ q[k] = p[k] /\ {i, j, k} \subseteq DOMAIN q
  BY <1>1, <1>2, HeadAtStays DEF Extends
<1>4. QED
  BY <1>2, <1>3 DEF BehindSeen

LEMMA CountsSeenGrow ==
  ASSUME NEW p, NEW q, Extends(p, q), NEW S, NEW U, S \subseteq U, NEW r, NEW a, NEW b
  PROVE  CountsSeen(p, S, r, a, b) \subseteq CountsSeen(q, U, r, a, b)
<1>1. AheadSeen(p, S, r.ref, a) \subseteq AheadSeen(q, U, r.ref, a)
  BY AheadSeenGrows
<1>2. BehindSeen(p, AheadSeen(p, S, r.ref, a), r.ref, b) \subseteq BehindSeen(q, AheadSeen(q, U, r.ref, a), r.ref, b)
  BY <1>1, BehindSeenGrows
<1>3. QED
  BY <1>2 DEF CountsSeen

LEMMA WalksGrow ==
  ASSUME NEW p, NEW q, Extends(p, q), NEW S, NEW U, S \subseteq U, NEW ref, NEW w
  PROVE  /\ WalksAhead(p, S, ref, w) => WalksAhead(q, U, ref, w)
         /\ WalksBehind(p, S, w) => WalksBehind(q, U, w)
<1>1. WalksAhead(p, S, ref, w) => WalksAhead(q, U, ref, w)
  BY DEF Extends, WalksAhead
<1>2. ASSUME WalksBehind(p, S, w) PROVE WalksBehind(q, U, w)
  <2>1. w.from = 0 => (w.via = NoRef => U # {})
    BY <1>2 DEF WalksBehind
  <2>2. w.from = 0 /\ w.via # NoRef => \E m \in U, i \in DOMAIN q : m <= i /\ q[i].head.ref = w.via
    BY <1>2 DEF WalksBehind, Extends
  <2>3. ASSUME w.from # 0
        PROVE  w.via = NoRef /\ \E m \in U, i, j \in DOMAIN q : m <= i /\ i <= j /\ HeadAt(q, i, j) = w.from
    <3>1. w.via = NoRef
      BY <1>2, <2>3 DEF WalksBehind
    <3>2. PICK m \in S, i, j \in DOMAIN p : m <= i /\ i <= j /\ HeadAt(p, i, j) = w.from
      BY <1>2, <2>3 DEF WalksBehind
    <3>3. HeadAt(q, i, j) = w.from
      BY <3>2, HeadAtStays
    <3>4. QED
      BY <3>1, <3>2, <3>3 DEF Extends
  <2>4. QED
    BY <2>1, <2>2, <2>3 DEF WalksBehind
<1>3. QED
  BY <1>1, <1>2

\* All of them are moments of the history.
LEMMA SeenWithin ==
  ASSUME NEW p
  PROVE  /\ \A ref, c : HeadSeen(p, ref, c) \subseteq DOMAIN p
         /\ \A S, r : S \subseteq DOMAIN p => RemoteSeen(p, S, r) \subseteq DOMAIN p
         /\ \A S, dir, k : S \subseteq DOMAIN p => NextSeen(p, S, dir, k) \subseteq DOMAIN p
         /\ \A S, dir, k : S \subseteq DOMAIN p => LastSeen(p, S, dir, k) \subseteq DOMAIN p
         /\ \A S, ref, a : AheadSeen(p, S, ref, a) \subseteq DOMAIN p
         /\ \A S, r, a, b : S \subseteq DOMAIN p => CountsSeen(p, S, r, a, b) \subseteq DOMAIN p
         /\ \A S, k : StashesSeen(p, S, k) \subseteq DOMAIN p
<1>1. \A ref, c : HeadSeen(p, ref, c) \subseteq DOMAIN p
  BY DEF HeadSeen, NotBefore
<1>2. \A S, r : S \subseteq DOMAIN p => RemoteSeen(p, S, r) \subseteq DOMAIN p
  BY DEF RemoteSeen, NotBefore
<1>3. \A S, dir, k : S \subseteq DOMAIN p => NextSeen(p, S, dir, k) \subseteq DOMAIN p
  BY DEF NextSeen, NotBefore
<1>4. \A S, dir, k : S \subseteq DOMAIN p => LastSeen(p, S, dir, k) \subseteq DOMAIN p
  BY DEF LastSeen, NotBefore
<1>5. \A S, ref, a : AheadSeen(p, S, ref, a) \subseteq DOMAIN p
  BY DEF AheadSeen
<1>6. \A S, r, a, b : S \subseteq DOMAIN p => CountsSeen(p, S, r, a, b) \subseteq DOMAIN p
  <2>1. \A S, ref, b : BehindSeen(p, S, ref, b) \subseteq DOMAIN p
    BY DEF BehindSeen
  <2>2. QED
    BY <2>1 DEF CountsSeen
<1>7. \A S, k : StashesSeen(p, S, k) \subseteq DOMAIN p
  BY DEF StashesSeen, NotBefore
<1>8. QED
  BY <1>1, <1>2, <1>3, <1>4, <1>5, <1>6, <1>7

LEMMA SinceWithin ==
  /\ SinceHead \subseteq DOMAIN past /\ SinceRemote \subseteq DOMAIN past /\ SinceNext \subseteq DOMAIN past
  /\ SinceLast \subseteq DOMAIN past /\ SinceAhead \subseteq DOMAIN past /\ SinceCounts \subseteq DOMAIN past
  /\ SinceStashes \subseteq DOMAIN past /\ SincePush \subseteq DOMAIN past /\ SincePushAhead \subseteq DOMAIN past
<1>1. SinceHead \subseteq DOMAIN past
  BY SeenWithin DEF SinceHead
<1>2. SinceRemote \subseteq DOMAIN past
  BY <1>1, SeenWithin DEF SinceRemote
<1>3. SinceNext \subseteq DOMAIN past
  BY <1>2, SeenWithin DEF SinceNext
<1>4. SinceLast \subseteq DOMAIN past
  BY <1>3, SeenWithin DEF SinceLast
<1>5. SinceAhead \subseteq DOMAIN past
  BY SeenWithin DEF SinceAhead
<1>6. SinceCounts \subseteq DOMAIN past
  BY <1>4, SeenWithin DEF SinceCounts
<1>7. SinceStashes \subseteq DOMAIN past
  BY SeenWithin DEF SinceStashes
<1>8. SincePush \subseteq DOMAIN past
  BY <1>7, SeenWithin DEF SincePush
<1>9. SincePushAhead \subseteq DOMAIN past
  BY SeenWithin DEF SincePushAhead
<1>10. QED
  BY <1>1, <1>2, <1>3, <1>4, <1>5, <1>6, <1>7, <1>8, <1>9

\* What has been read by some moment was begun by some.
LEMMA SeenBegun ==
  ASSUME NEW p, NEW S
  PROVE  /\ \A r : RemoteSeen(p, S, r) # {} => S # {}
         /\ \A dir, k : NextSeen(p, S, dir, k) # {} => S # {}
         /\ \A dir, k : LastSeen(p, S, dir, k) # {} => S # {}
         /\ \A k : StashesSeen(p, S, k) # {} => S # {}
         /\ \A ref, a : AheadSeen(p, S, ref, a) # {} => S # {}
         /\ \A ref, b : BehindSeen(p, S, ref, b) # {} => S # {}
         /\ \A r, a, b : CountsSeen(p, S, r, a, b) # {} => S # {}
         /\ \A ref, w : WalksAhead(p, S, ref, w) => S # {}
         /\ \A w : WalksBehind(p, S, w) => S # {}
<1>1. \A r : RemoteSeen(p, S, r) # {} => S # {}
  BY DEF RemoteSeen, NotBefore
<1>2. \A dir, k : NextSeen(p, S, dir, k) # {} => S # {}
  BY DEF NextSeen, NotBefore
<1>3. \A dir, k : LastSeen(p, S, dir, k) # {} => S # {}
  BY DEF LastSeen, NotBefore
<1>4. \A k : StashesSeen(p, S, k) # {} => S # {}
  BY DEF StashesSeen, NotBefore
<1>5. \A U, ref, a : AheadSeen(p, U, ref, a) # {} => U # {}
  BY DEF AheadSeen
<1>6. \A U, ref, b : BehindSeen(p, U, ref, b) # {} => U # {}
  BY DEF BehindSeen
<1>7. \A r, a, b : CountsSeen(p, S, r, a, b) # {} => S # {}
  BY <1>5, <1>6 DEF CountsSeen
<1>8. \A ref, w : WalksAhead(p, S, ref, w) => S # {}
  BY DEF WalksAhead
<1>9. \A w : WalksBehind(p, S, w) => S # {}
  BY DEF WalksBehind
<1>10. QED
  BY <1>1, <1>2, <1>3, <1>4, <1>5, <1>6, <1>7, <1>8, <1>9

\* A read that is made now.
LEMMA ReadNow ==
  ASSUME NEW p, NEW n, Latest(p, n), NEW S, S # {}, S \subseteq DOMAIN p, NEW T, n \in T
  PROVE  n \in NotBefore(S, T)
BY DEF Latest, NotBefore

LEMMA WalkAheadNow ==
  ASSUME NEW p, NEW n, Latest(p, n), NEW S, S \subseteq DOMAIN p, NEW ref, NEW w \in WalkType, WalksAhead(p, S, ref, w)
  PROVE  /\ w.from = 0 /\ p[n].tips[ref] # 0 => WalksAhead(p, S, ref, [from |-> p[n].tips[ref], via |-> NoRef])
         /\ w.from # 0 /\ w.via = NoRef /\ p[n].head.ref # NoRef =>
               WalksAhead(p, S, ref, [w EXCEPT !.via = p[n].head.ref])
         /\ w.from # 0 /\ w.via = NoRef /\ p[n].head.ref = NoRef /\ p[n].head.commit # 0 =>
               n \in AheadSeen(p, S, ref, OnlyIn(p[n].head.commit, w.from))
         /\ w.from # 0 /\ w.via # NoRef /\ p[n].tips[w.via] # 0 =>
               n \in AheadSeen(p, S, ref, OnlyIn(p[n].tips[w.via], w.from))
<1>1. n \in DOMAIN p /\ n <= n /\ \A i \in DOMAIN p : i <= n
  BY DEF Latest
<1>2. ASSUME w.from = 0, p[n].tips[ref] # 0
      PROVE  WalksAhead(p, S, ref, [from |-> p[n].tips[ref], via |-> NoRef])
  <2>1. PICK v : v = [from |-> p[n].tips[ref], via |-> NoRef]
    OBVIOUS
  <2>2. PICK m \in S : TRUE
    BY <1>2 DEF WalksAhead
  <2>3. v.from = p[n].tips[ref] /\ v.via = NoRef /\ m <= n
    BY <1>1, <2>1, <2>2
  <2>4. QED
    BY <1>1, <1>2, <2>1, <2>3 DEF WalksAhead
<1>3. ASSUME w.from # 0, w.via = NoRef, p[n].head.ref # NoRef
      PROVE  WalksAhead(p, S, ref, [w EXCEPT !.via = p[n].head.ref])
  <2>1. PICK v : v = [w EXCEPT !.via = p[n].head.ref]
    OBVIOUS
  <2>2. v.from = w.from /\ v.via = p[n].head.ref
    BY <2>1 DEF WalkType
  <2>3. PICK m \in S, i \in DOMAIN p : m <= i /\ p[i].tips[ref] = w.from
    BY <1>3 DEF WalksAhead
  <2>4. QED
    BY <1>1, <1>3, <2>1, <2>2, <2>3 DEF WalksAhead
<1>4. ASSUME w.from # 0, w.via = NoRef, p[n].head.ref = NoRef, p[n].head.commit # 0
      PROVE  n \in AheadSeen(p, S, ref, OnlyIn(p[n].head.commit, w.from))
  <2>1. PICK m \in S, i \in DOMAIN p : m <= i /\ p[i].tips[ref] = w.from
    BY <1>4 DEF WalksAhead
  <2>2. HeadAt(p, n, n) = p[n].head.commit
    BY <1>4 DEF HeadAt
  <2>3. QED
    BY <1>1, <1>4, <2>1, <2>2 DEF AheadSeen
<1>5. ASSUME w.from # 0, w.via # NoRef, p[n].tips[w.via] # 0
      PROVE  n \in AheadSeen(p, S, ref, OnlyIn(p[n].tips[w.via], w.from))
  <2>1. PICK m \in S, i, j \in DOMAIN p : m <= i /\ i <= j /\ p[i].tips[ref] = w.from /\ p[j].head.ref = w.via
    BY <1>5 DEF WalksAhead
  <2>2. HeadAt(p, j, n) = p[n].tips[w.via]
    BY <1>5, <2>1 DEF HeadAt
  <2>3. QED
    BY <1>1, <1>5, <2>1, <2>2 DEF AheadSeen
<1>6. QED
  BY <1>2, <1>3, <1>4, <1>5

LEMMA WalkBehindNow ==
  ASSUME NEW p, NEW n, Latest(p, n), NEW S, S \subseteq DOMAIN p, NEW ref, NEW w \in WalkType, WalksBehind(p, S, w)
  PROVE  /\ w.from = 0 /\ w.via = NoRef /\ p[n].head.ref # NoRef =>
               WalksBehind(p, S, [w EXCEPT !.via = p[n].head.ref])
         /\ w.from = 0 /\ w.via = NoRef /\ p[n].head.ref = NoRef /\ p[n].head.commit # 0 =>
               WalksBehind(p, S, [from |-> p[n].head.commit, via |-> NoRef])
         /\ w.from = 0 /\ w.via # NoRef /\ p[n].tips[w.via] # 0 =>
               WalksBehind(p, S, [from |-> p[n].tips[w.via], via |-> NoRef])
         /\ w.from # 0 /\ p[n].tips[ref] # 0 =>
               n \in BehindSeen(p, S, ref, OnlyIn(p[n].tips[ref], w.from))
<1>1. n \in DOMAIN p /\ n <= n /\ \A i \in DOMAIN p : i <= n
  BY DEF Latest
<1>2. ASSUME w.from = 0, w.via = NoRef, p[n].head.ref # NoRef
      PROVE  WalksBehind(p, S, [w EXCEPT !.via = p[n].head.ref])
  <2>1. PICK v : v = [w EXCEPT !.via = p[n].head.ref]
    OBVIOUS
  <2>2. v.from = 0 /\ v.via = p[n].head.ref
    BY <1>2, <2>1 DEF WalkType
  <2>3. PICK m \in S : TRUE
    BY <1>2 DEF WalksBehind
  <2>4. QED
    BY <1>1, <1>2, <2>1, <2>2, <2>3 DEF WalksBehind
<1>3. ASSUME w.from = 0, NEW i \in DOMAIN p, NEW m \in S, m <= i, HeadAt(p, i, n) # 0
      PROVE  WalksBehind(p, S, [from |-> HeadAt(p, i, n), via |-> NoRef])
  <2>1. PICK v : v = [from |-> HeadAt(p, i, n), via |-> NoRef]
    OBVIOUS
  <2>2. v.from = HeadAt(p, i, n) /\ v.via = NoRef
    BY <2>1
  <2>3. QED
    BY <1>1, <1>3, <2>1, <2>2 DEF WalksBehind
<1>4. ASSUME w.from = 0, w.via = NoRef, p[n].head.ref = NoRef, p[n].head.commit # 0
      PROVE  WalksBehind(p, S, [from |-> p[n].head.commit, via |-> NoRef])
  <2>1. HeadAt(p, n, n) = p[n].head.commit
    BY <1>4 DEF HeadAt
  <2>2. PICK m \in S : TRUE
    BY <1>4 DEF WalksBehind
  <2>3. WalksBehind(p, S, [from |-> HeadAt(p, n, n), via |-> NoRef])
    BY <1>1, <1>3, <1>4, <2>1, <2>2
  <2>4. QED
    BY <2>1, <2>3
<1>5. ASSUME w.from = 0, w.via # NoRef, p[n].tips[w.via] # 0
      PROVE  WalksBehind(p, S, [from |-> p[n].tips[w.via], via |-> NoRef])
  <2>1. PICK m \in S, i \in DOMAIN p : m <= i /\ p[i].head.ref = w.via
    BY <1>5 DEF WalksBehind
  <2>2. HeadAt(p, i, n) = p[n].tips[w.via]
    BY <1>5, <2>1 DEF HeadAt
  <2>3. WalksBehind(p, S, [from |-> HeadAt(p, i, n), via |-> NoRef])
    BY <1>3, <1>5, <2>1, <2>2
  <2>4. QED
    BY <2>2, <2>3
<1>6. ASSUME w.from # 0, p[n].tips[ref] # 0
      PROVE  n \in BehindSeen(p, S, ref, OnlyIn(p[n].tips[ref], w.from))
  <2>1. PICK m \in S, i, j \in DOMAIN p : m <= i /\ i <= j /\ HeadAt(p, i, j) = w.from
    BY <1>6 DEF WalksBehind
  <2>2. QED
    BY <1>1, <1>6, <2>1 DEF BehindSeen
<1>7. QED
  BY <1>2, <1>4, <1>5, <1>6

LEMMA PrefixByPoints ==
  ASSUME NEW s \in Seq(STRING), NEW t \in Seq(STRING)
  PROVE  IsPrefix(s, t) <=> Len(s) <= Len(t) /\ \A i \in 1..Len(s) : s[i] = t[i]
<1>1. Len(s) \in Nat /\ Len(t) \in Nat
  OBVIOUS
<1>2. CASE Len(s) <= Len(t)
  <2>1. /\ SubSeq(s, 1, Len(s)) \in Seq(STRING) /\ Len(SubSeq(s, 1, Len(s))) = Len(s)
        /\ \A i \in 1..Len(s) : SubSeq(s, 1, Len(s))[i] = s[i]
    OBVIOUS
  <2>2. \A i \in 1..Len(s) : t[i] \in STRING
    BY <1>1, <1>2
  <2>3. /\ SubSeq(t, 1, Len(s)) \in Seq(STRING) /\ Len(SubSeq(t, 1, Len(s))) = Len(s)
        /\ \A i \in 1..Len(s) : SubSeq(t, 1, Len(s))[i] = t[i]
    BY <1>1, <1>2, <2>2
  <2>4. ASSUME \A i \in 1..Len(s) : s[i] = t[i]
        PROVE  SubSeq(s, 1, Len(s)) = SubSeq(t, 1, Len(s))
    BY <2>1, <2>3, <2>4, SeqEqual
  <2>5. QED
    BY <1>2, <2>1, <2>3, <2>4 DEF IsPrefix
<1>3. QED
  BY <1>2 DEF IsPrefix

LEMMA FirstAndRest ==
  ASSUME NEW r \in Seq(STRING), r # << >>
  PROVE  /\ r[1] \in STRING /\ Tail(r) \in Seq(STRING)
         /\ Len(r) \in Nat \ {0} /\ Len(Tail(r)) = Len(r) - 1
         /\ \A i \in 1..Len(Tail(r)) : Tail(r)[i] = r[i + 1]
         /\ r = <<r[1]>> \o Tail(r)
<1>1. /\ r[1] \in STRING /\ Tail(r) \in Seq(STRING)
      /\ Len(r) \in Nat \ {0} /\ Len(Tail(r)) = Len(r) - 1
      /\ \A i \in 1..Len(Tail(r)) : Tail(r)[i] = r[i + 1]
  BY HeadTailProperties, EmptySeq
<1>2. SubSeq(r, 1, Len(r)) = <<r[1]>> \o SubSeq(r, 2, Len(r))
  BY <1>1, SubSeqRecursiveFirst
<1>3. QED
  BY <1>1, <1>2, SubSeqFull, TailIsSubSeq


LEMMA EndOfSequence ==
  ASSUME NEW s \in Seq(STRING), NEW m \in Nat \ {0}, m <= Len(s) + 1, NEW e, e = SubSeq(s, m, Len(s))
  PROVE  /\ e \in Seq(STRING) /\ Len(e) = Len(s) + 1 - m
         /\ \A i \in 1..(Len(s) + 1 - m) : e[i] = s[i + m - 1]
<1>1. Len(s) \in Nat /\ \A i \in m..Len(s) : s[i] \in STRING
  OBVIOUS
<1>2. /\ e \in Seq(STRING) /\ Len(e) = IF m <= Len(s) THEN Len(s) - m + 1 ELSE 0
      /\ \A i \in 1..(Len(s) - m + 1) : e[i] = s[m + i - 1]
  BY <1>1, SubSeqProperties
<1>3. Len(e) = Len(s) + 1 - m
  BY <1>1, <1>2
<1>4. Len(s) + 1 - m = Len(s) - m + 1 /\ \A i \in 1..(Len(s) - m + 1) : m + i - 1 = i + m - 1
  BY <1>1
<1>5. QED
  BY <1>2, <1>3, <1>4

LEMMA PrefixAndEnd ==
  ASSUME NEW s \in Seq(STRING), NEW t \in Seq(STRING), IsPrefix(s, t)
  PROVE  t = s \o SubSeq(t, Len(s) + 1, Len(t))
<1>1. /\ Len(s) \in Nat /\ Len(t) \in Nat /\ Len(s) <= Len(t)
      /\ \A i \in 1..Len(s) : s[i] = t[i]
  BY PrefixByPoints
<1>2. PICK e : e = SubSeq(t, Len(s) + 1, Len(t))
  OBVIOUS
<1>3. /\ e \in Seq(STRING) /\ Len(e) = Len(t) + 1 - (Len(s) + 1)
      /\ \A i \in 1..(Len(t) + 1 - (Len(s) + 1)) : e[i] = t[i + (Len(s) + 1) - 1]
  BY <1>1, <1>2, EndOfSequence
<1>4. PICK c : c = s \o e
  OBVIOUS
<1>5. /\ c \in Seq(STRING) /\ Len(c) = Len(s) + Len(e)
      /\ \A i \in 1..(Len(s) + Len(e)) : c[i] = IF i <= Len(s) THEN s[i] ELSE e[i - Len(s)]
  BY <1>3, <1>4, ConcatProperties
<1>6. Len(c) = Len(t)
  BY <1>1, <1>3, <1>5
<1>7. ASSUME NEW i \in 1..Len(t) PROVE c[i] = t[i]
  <2>1. CASE i <= Len(s)
    BY <1>1, <1>3, <1>5, <2>1
  <2>2. CASE ~(i <= Len(s))
    <3>1. i - Len(s) \in 1..(Len(t) + 1 - (Len(s) + 1)) /\ (i - Len(s)) + (Len(s) + 1) - 1 = i
      BY <1>1, <2>2
    <3>2. e[i - Len(s)] = t[(i - Len(s)) + (Len(s) + 1) - 1]
      BY <1>3, <3>1
    <3>3. c[i] = e[i - Len(s)]
      BY <1>1, <1>3, <1>5, <2>2
    <3>4. QED
      BY <3>1, <3>2, <3>3
  <2>3. QED
    BY <2>1, <2>2
<1>8. c = t
  BY <1>5, <1>6, <1>7, SeqEqual
<1>9. QED
  BY <1>2, <1>4, <1>8

\* What comes behind the name of a remote is the name of the branch.
LEMMA BranchBehindRemote ==
  ASSUME NEW r \in Seq(STRING), r # << >>, NEW n \in Seq(STRING), IsStrictPrefix(n, Tail(r))
  PROVE  /\ BranchWithin(r, n) \in Seq(STRING)
         /\ r = <<r[1]>> \o n \o BranchWithin(r, n)
<1>1. PICK T : T = Tail(r)
  OBVIOUS
<1>2. /\ r[1] \in STRING /\ T \in Seq(STRING) /\ Len(n) \in Nat
      /\ Len(r) \in Nat \ {0} /\ Len(T) = Len(r) - 1
      /\ \A i \in 1..Len(T) : T[i] = r[i + 1]
  BY <1>1, FirstAndRest
<1>3. r = <<r[1]>> \o T
  BY <1>1, FirstAndRest
<1>4. T = n \o SubSeq(T, Len(n) + 1, Len(T))
  BY <1>1, <1>2, PrefixAndEnd DEF IsStrictPrefix
<1>5. Len(n) <= Len(T)
  BY <1>1, <1>2, PrefixByPoints DEF IsStrictPrefix
<1>6. PICK b : b = SubSeq(r, 2 + Len(n), Len(r))
  OBVIOUS
<1>7. PICK e : e = SubSeq(T, Len(n) + 1, Len(T))
  OBVIOUS
<1>8. /\ b \in Seq(STRING) /\ Len(b) = Len(r) + 1 - (2 + Len(n))
      /\ \A i \in 1..(Len(r) + 1 - (2 + Len(n))) : b[i] = r[i + (2 + Len(n)) - 1]
  BY <1>2, <1>5, <1>6, EndOfSequence
<1>9. /\ e \in Seq(STRING) /\ Len(e) = Len(T) + 1 - (Len(n) + 1)
      /\ \A i \in 1..(Len(T) + 1 - (Len(n) + 1)) : e[i] = T[i + (Len(n) + 1) - 1]
  BY <1>2, <1>5, <1>7, EndOfSequence
<1>10. Len(b) = Len(e)
  BY <1>2, <1>8, <1>9
<1>11. ASSUME NEW i \in 1..Len(e) PROVE b[i] = e[i]
  <2>1. i + (Len(n) + 1) - 1 \in 1..Len(T) /\ (i + (Len(n) + 1) - 1) + 1 = i + (2 + Len(n)) - 1
    BY <1>2, <1>9
  <2>2. T[i + (Len(n) + 1) - 1] = r[i + (2 + Len(n)) - 1]
    BY <1>2, <2>1
  <2>3. b[i] = r[i + (2 + Len(n)) - 1] /\ e[i] = T[i + (Len(n) + 1) - 1]
    BY <1>8, <1>9, <1>10
  <2>4. QED
    BY <2>2, <2>3
<1>12. b = e
  BY <1>8, <1>9, <1>10, <1>11, SeqEqual
<1>13. r = <<r[1]>> \o (n \o b)
  BY <1>3, <1>4, <1>7, <1>12
<1>14. <<r[1]>> \in Seq(STRING)
  BY <1>2
<1>15. <<r[1]>> \o (n \o b) = (<<r[1]>> \o n) \o b
  BY <1>8, <1>14, ConcatAssociative
<1>16. QED
  BY <1>6, <1>8, <1>13, <1>15 DEF BranchWithin

LEMMA OneIsSequence ==
  ASSUME NEW S, NEW x \in S
  PROVE  <<x>> \in Seq(S)
OBVIOUS

\* Behind the same first component.
LEMMA PrefixBehindFirst ==
  ASSUME NEW x \in STRING, NEW s \in Seq(STRING), NEW t \in Seq(STRING),
         IsStrictPrefix(<<x>> \o s, <<x>> \o t)
  PROVE  IsStrictPrefix(s, t)
<1>1. PICK S, T : S = <<x>> \o s /\ T = <<x>> \o t
  OBVIOUS
<1>2. PICK X : X = <<x>>
  OBVIOUS
<1>3. X \in Seq(STRING) /\ Len(X) = 1
  <2>1. <<x>> \in Seq(STRING)
    BY OneIsSequence
  <2>2. Len(<<x>>) = 1
    OBVIOUS
  <2>3. QED
    BY <1>2, <2>1, <2>2
<1>4. /\ S \in Seq(STRING) /\ Len(S) = Len(X) + Len(s)
      /\ \A i \in 1..(Len(X) + Len(s)) : S[i] = IF i <= Len(X) THEN X[i] ELSE s[i - Len(X)]
  BY <1>1, <1>2, <1>3, ConcatProperties
<1>5. /\ T \in Seq(STRING) /\ Len(T) = Len(X) + Len(t)
      /\ \A i \in 1..(Len(X) + Len(t)) : T[i] = IF i <= Len(X) THEN X[i] ELSE t[i - Len(X)]
  BY <1>1, <1>2, <1>3, ConcatProperties, ZenonT(20)
<1>6. Len(S) <= Len(T) /\ \A i \in 1..Len(S) : S[i] = T[i]
  BY <1>1, <1>4, <1>5, PrefixByPoints DEF IsStrictPrefix
<1>7. s # t
  BY DEF IsStrictPrefix
<1>8. Len(s) \in Nat /\ Len(t) \in Nat /\ Len(s) <= Len(t)
  BY <1>3, <1>4, <1>5, <1>6
<1>9. ASSUME NEW i \in 1..Len(s) PROVE s[i] = t[i]
  <2>1. i + 1 \in 1..Len(S) /\ i + 1 \in 1..(Len(X) + Len(t)) /\ ~(i + 1 <= Len(X)) /\ (i + 1) - Len(X) = i
    BY <1>3, <1>4, <1>8
  <2>2. S[i + 1] = s[(i + 1) - Len(X)] /\ T[i + 1] = t[(i + 1) - Len(X)]
    BY <1>4, <1>5, <2>1
  <2>3. QED
    BY <1>6, <2>1, <2>2
<1>10. QED
  BY <1>7, <1>8, <1>9, PrefixByPoints DEF IsStrictPrefix

-----------------------------------------------------------------------------
LEMMA NothingTyped == Nothing \in AnswerType /\ NoRemote \in RemoteType /\ NoWalk \in WalkType
<1>1. 0 \in Counts /\ 0 \in GitCommits \cup {0} /\ NoRef \in GitRefs \cup {NoRef} /\ 0 \in 0..2 /\ 0 \in 0..1
  BY DEF Counts
<1>2. << >> \in Seq(STRING)
  OBVIOUS
<1>3. NoRemote \in RemoteType
  BY <1>1, <1>2 DEF NoRemote, RemoteType
<1>4. NoWalk \in WalkType
  BY <1>1 DEF NoWalk, WalkType
<1>5. QED
  BY <1>1, <1>2, <1>3, <1>4 DEF Nothing, AnswerType

LEMMA RepoTyped == QueriesTyped => repo \in RepoType
<1> SUFFICES ASSUME QueriesTyped PROVE repo \in RepoType
  OBVIOUS
<1>1. past \in Seq(RepoType) /\ Len(past) \in DOMAIN past /\ past[Len(past)] = repo
  BY DEF QueriesTyped, Latest
<1>2. QED
  BY <1>1

LEMMA QueriesInitHolds == QueriesInit => QueriesIInv
<1> SUFFICES ASSUME QueriesInit PROVE QueriesIInv
  OBVIOUS
<1>1. asking = "head" /\ ans = Nothing /\ walk = NoWalk /\ past = <<repo>>
  BY DEF QueriesInit
<1>2. QueriesTyped
  <2>1. PICK head \in HeadRefs, tips \in [GitRefs -> GitCommits \cup {0}], rebase \in Rebases :
           repo = [head |-> head, tips |-> tips, rebase |-> rebase, merging |-> FALSE, stashes |-> 0]
    BY DEF QueriesInit
  <2>2. head \in [ref : GitRefs \cup {NoRef}, commit : GitCommits \cup {0}]
    BY DEF HeadRefs
  <2>3. rebase \in [dir : {"none", "rebase-merge", "rebase-apply"}, next : 0..2, last : 0..2]
    BY DEF Rebases, NoRebase
  <2>4. repo \in RepoType
    BY <2>1, <2>2, <2>3 DEF RepoType
  <2>5. past \in Seq(RepoType) /\ Latest(past, Len(past)) /\ past[Len(past)] = repo
    BY <1>1, <2>4 DEF Latest
  <2>6. upstream \in Configs /\ push_upstream \in Configs
    BY DEF QueriesInit, Configs
  <2>7. QED
    BY <1>1, <2>5, <2>6, NothingTyped DEF QueriesTyped
<1>3. RemotePart
  BY <1>1 DEF RemotePart, Pushing, Ended, Nothing, NoRemote, BranchRight
<1>4. PushPart
  BY <1>1 DEF PushPart, Pushing, Nothing
<1>5. StepsPart /\ MomentsPart /\ RestPart
  <2>1. asking = "head" /\ ans.dir = "none" /\ ans.next = 0 /\ ans.last = 0
    BY <1>1 DEF Nothing
  <2>2. StepsPart
    BY <2>1 DEF StepsPart, Pushing
  <2>3. MomentsPart
    BY <2>1 DEF MomentsPart
  <2>4. RestPart
    BY <2>1 DEF RestPart, Pushing
  <2>5. QED
    BY <2>2, <2>3, <2>4
<1>6. QED
  BY <1>2, <1>3, <1>4, <1>5 DEF QueriesIInv

-----------------------------------------------------------------------------
\* Git writes: what has been read by some moment still has.
LEMMA SinceGrow ==
  ASSUME ans' = ans, Extends(past, past')
  PROVE  /\ SinceHead \subseteq SinceHead' /\ SinceRemote \subseteq SinceRemote' /\ SinceNext \subseteq SinceNext'
         /\ SinceLast \subseteq SinceLast' /\ SinceAhead \subseteq SinceAhead' /\ SinceCounts \subseteq SinceCounts'
         /\ SinceStashes \subseteq SinceStashes' /\ SincePush \subseteq SincePush'
         /\ SincePushAhead \subseteq SincePushAhead' /\ SincePushCounts \subseteq SincePushCounts'
<1>1. SinceHead \subseteq SinceHead'
  BY HeadSeenGrows DEF SinceHead
<1>2. SinceRemote \subseteq SinceRemote'
  BY <1>1, RemoteSeenGrows DEF SinceRemote
<1>3. SinceNext \subseteq SinceNext'
  BY <1>2, StepsSeenGrow DEF SinceNext
<1>4. SinceLast \subseteq SinceLast'
  BY <1>3, StepsSeenGrow DEF SinceLast
<1>5. SinceAhead \subseteq SinceAhead'
  BY <1>4, AheadSeenGrows DEF SinceAhead
<1>6. SinceCounts \subseteq SinceCounts'
  BY <1>4, CountsSeenGrow DEF SinceCounts
<1>7. SinceStashes \subseteq SinceStashes'
  BY <1>6, StashesSeenGrow DEF SinceStashes
<1>8. SincePush \subseteq SincePush'
  BY <1>7, RemoteSeenGrows DEF SincePush
<1>9. SincePushAhead \subseteq SincePushAhead'
  BY <1>8, AheadSeenGrows DEF SincePushAhead
<1>10. SincePushCounts \subseteq SincePushCounts'
  BY <1>8, CountsSeenGrow DEF SincePushCounts
<1>11. QED
  BY <1>1, <1>2, <1>3, <1>4, <1>5, <1>6, <1>7, <1>8, <1>9, <1>10

LEMMA MomentsGrow ==
  ASSUME MomentsPart, ans' = ans, asking' = asking, walk' = walk, Extends(past, past')
  PROVE  MomentsPart'
<1>1. asking' = "resolve" => \E n \in DOMAIN past' : past'[n].head = [ref |-> ans'.symbolic, commit |-> ans'.target]
  BY DEF MomentsPart, Extends
<1>2. asking' = "ahead" => WalksAhead(past', SinceLast', ans'.remote.ref, walk')
  <2>1. SinceLast \subseteq SinceLast'
    BY SinceGrow
  <2>2. WalksAhead(past, SinceLast, ans.remote.ref, walk) => WalksAhead(past', SinceLast', ans'.remote.ref, walk')
    BY <2>1, WalksGrow
  <2>3. QED
    BY <2>2 DEF MomentsPart
<1>3. asking' = "behind" => WalksBehind(past', SinceAhead', walk')
  <2>1. SinceAhead \subseteq SinceAhead'
    BY SinceGrow
  <2>2. WalksBehind(past, SinceAhead, walk) => WalksBehind(past', SinceAhead', walk')
    BY <2>1, WalksGrow
  <2>3. QED
    BY <2>2 DEF MomentsPart
<1>4. asking' = "push ahead" => WalksAhead(past', SincePush', ans'.push.ref, walk')
  <2>1. SincePush \subseteq SincePush'
    BY SinceGrow
  <2>2. WalksAhead(past, SincePush, ans.push.ref, walk) => WalksAhead(past', SincePush', ans'.push.ref, walk')
    BY <2>1, WalksGrow
  <2>3. QED
    BY <2>2 DEF MomentsPart
<1>5. asking' = "push behind" => WalksBehind(past', SincePushAhead', walk')
  <2>1. SincePushAhead \subseteq SincePushAhead'
    BY SinceGrow
  <2>2. WalksBehind(past, SincePushAhead, walk) => WalksBehind(past', SincePushAhead', walk')
    BY <2>1, WalksGrow
  <2>3. QED
    BY <2>2 DEF MomentsPart
<1>6. /\ SinceHead # {} => SinceHead' # {}
      /\ SinceRemote # {} => SinceRemote' # {}
      /\ SinceNext # {} => SinceNext' # {}
      /\ SinceLast # {} => SinceLast' # {}
      /\ SinceCounts # {} => SinceCounts' # {}
      /\ SinceStashes # {} => SinceStashes' # {}
      /\ SincePushCounts # {} => SincePushCounts' # {}
  BY SinceGrow
<1>7. QED
  BY <1>1, <1>2, <1>3, <1>4, <1>5, <1>6 DEF MomentsPart

LEMMA Appended ==
  ASSUME NEW p \in Seq(RepoType), NEW r \in RepoType
  PROVE  /\ Append(p, r) \in Seq(RepoType) /\ Len(Append(p, r)) = Len(p) + 1
         /\ Append(p, r)[Len(p) + 1] = r /\ Latest(Append(p, r), Len(p) + 1)
         /\ Extends(p, Append(p, r))
<1>1. PICK q : q = Append(p, r)
  OBVIOUS
<1>2. /\ q \in Seq(RepoType) /\ Len(q) = Len(p) + 1 /\ q[Len(p) + 1] = r
      /\ \A i \in 1..Len(p) : q[i] = p[i]
  BY <1>1, AppendProperties
<1>3. Len(p) \in Nat /\ DOMAIN p = 1..Len(p) /\ DOMAIN q = 1..(Len(p) + 1)
  BY <1>2, LenProperties
<1>4. QED
  BY <1>1, <1>2, <1>3 DEF Latest, Extends

LEMMA GitWritesKeeps ==
  ASSUME QueriesIInv, NEW r \in RepoType, GitWrites(r)
  PROVE  QueriesIInv'
<1>1. /\ asking' = asking /\ walk' = walk /\ ans' = ans /\ upstream' = upstream /\ push_upstream' = push_upstream
      /\ repo' = r /\ past' = Append(past, r)
  BY DEF GitWrites
<1>2. past \in Seq(RepoType) /\ Len(past) \in Nat /\ Latest(past, Len(past))
  BY DEF QueriesIInv, QueriesTyped, Latest
<1>3. /\ past' \in Seq(RepoType) /\ Len(past') = Len(past) + 1 /\ past'[Len(past')] = repo'
      /\ Latest(past', Len(past')) /\ Extends(past, past')
  BY <1>1, <1>2, Appended
<1>4. QueriesTyped'
  BY <1>1, <1>3 DEF QueriesIInv, QueriesTyped
<1>5. RemotePart' /\ PushPart' /\ StepsPart'
  <2>1. RemotePart'
    BY <1>1 DEF QueriesIInv, RemotePart, RemoteRight, BranchRight, LocalBranchName
  <2>2. PushPart'
    BY <1>1 DEF QueriesIInv, PushPart, RemoteRight
  <2>3. StepsPart'
    BY <1>1 DEF QueriesIInv, StepsPart
  <2>4. QED
    BY <2>1, <2>2, <2>3
<1>6. MomentsPart'
  BY <1>1, <1>3, MomentsGrow DEF QueriesIInv
<1>7. RestPart'
  <2>1. Len(past) >= 1
    BY <1>2 DEF Latest
  <2>2. Len(past') # 1
    BY <1>2, <1>3, <2>1
  <2>3. QED
    BY <2>2 DEF RestPart
<1>8. QED
  BY <1>4, <1>5, <1>6, <1>7 DEF QueriesIInv

LEMMA GitKeeps ==
  ASSUME QueriesIInv,
         \/ \E r \in GitRefs, c \in GitCommits \cup {0} : MoveRef(r, c)
         \/ \E h \in HeadRefs : Checkout(h)
         \/ Merge \/ Stash \/ Rebase
  PROVE  QueriesIInv'
<1>1. repo \in RepoType
  BY RepoTyped DEF QueriesIInv
<1>2. ASSUME NEW r \in GitRefs, NEW c \in GitCommits \cup {0}, MoveRef(r, c) PROVE QueriesIInv'
  <2>1. [repo EXCEPT !.tips[r] = c] \in RepoType
    BY <1>1 DEF RepoType
  <2>2. QED
    BY <1>2, <2>1, GitWritesKeeps DEF MoveRef
<1>3. ASSUME NEW h \in HeadRefs, Checkout(h) PROVE QueriesIInv'
  <2>1. h \in [ref : GitRefs \cup {NoRef}, commit : GitCommits \cup {0}]
    BY DEF HeadRefs
  <2>2. [repo EXCEPT !.head = h] \in RepoType
    BY <1>1, <2>1 DEF RepoType
  <2>3. QED
    BY <1>3, <2>2, GitWritesKeeps DEF Checkout
<1>4. ASSUME Merge PROVE QueriesIInv'
  <2>1. [repo EXCEPT !.merging = ~@] \in RepoType
    BY <1>1 DEF RepoType
  <2>2. QED
    BY <1>4, <2>1, GitWritesKeeps DEF Merge
<1>5. ASSUME Stash PROVE QueriesIInv'
  <2>1. [repo EXCEPT !.stashes = 1 - @] \in RepoType
    BY <1>1 DEF RepoType
  <2>2. QED
    BY <1>5, <2>1, GitWritesKeeps DEF Stash
<1>6. ASSUME Rebase PROVE QueriesIInv'
  <2>1. ASSUME NEW d \in {"rebase-merge", "rebase-apply"}, GitWrites([repo EXCEPT !.rebase.dir = d])
        PROVE  QueriesIInv'
    <3>1. [repo EXCEPT !.rebase.dir = d] \in RepoType
      BY <1>1 DEF RepoType
    <3>2. QED
      BY <2>1, <3>1, GitWritesKeeps
  <2>2. ASSUME NEW k \in {"next", "last"}, repo.rebase[k] < 2,
               GitWrites([repo EXCEPT !.rebase[k] = @ + 1])
        PROVE  QueriesIInv'
    <3>1. [repo EXCEPT !.rebase[k] = @ + 1] \in RepoType
      BY <1>1, <2>2 DEF RepoType
    <3>2. QED
      BY <2>2, <3>1, GitWritesKeeps
  <2>3. ASSUME GitWrites([repo EXCEPT !.rebase = NoRebase]) PROVE QueriesIInv'
    <3>1. [repo EXCEPT !.rebase = NoRebase] \in RepoType
      BY <1>1 DEF RepoType, NoRebase
    <3>2. QED
      BY <2>3, <3>1, GitWritesKeeps
  <2>4. QED
    BY <1>6, <2>1, <2>2, <2>3 DEF Rebase
<1>7. QED
  BY <1>2, <1>3, <1>4, <1>5, <1>6

-----------------------------------------------------------------------------
\* The request asks: each question fills in its own part of the answer.
LEMMA ConfigTyped ==
  ASSUME QueriesTyped, NEW conf \in Configs
  PROVE  /\ ConfigOf(conf) \in Upstreams \cup {NoUpstream}
         /\ [NoRemote EXCEPT !.name = ConfigOf(conf).remote, !.ref = ConfigOf(conf).ref] \in RemoteType
         /\ ConfigOf(conf) = NoUpstream =>
               [NoRemote EXCEPT !.name = ConfigOf(conf).remote, !.ref = ConfigOf(conf).ref] = NoRemote
         /\ ConfigOf(conf) # NoUpstream =>
               /\ IsBranch(ans.symbolic) /\ ans.target # 0
               /\ ConfigOf(conf) = conf[ans.symbolic] /\ ConfigOf(conf).ref \in GitRefs
               /\ conf[ans.symbolic] = [remote |-> ConfigOf(conf).remote, ref |-> ConfigOf(conf).ref]
<1> DEFINE u == ConfigOf(conf)
<1>1. ans.target # 0 /\ IsBranch(ans.symbolic) => ans.symbolic \in Branches
  BY DEF QueriesTyped, AnswerType, Branches, IsBranch
<1>2. u \in Upstreams \cup {NoUpstream}
  BY <1>1 DEF ConfigOf, Configs
<1>3. u # NoUpstream =>
         /\ IsBranch(ans.symbolic) /\ ans.target # 0 /\ u = conf[ans.symbolic]
         /\ u \in [remote : Remotes \cup {Here}, ref : GitRefs]
  BY <1>2, QueriesAssumption DEF ConfigOf
<1>4. u \in [remote : Remotes \cup {Here}, ref : GitRefs \cup {NoRef}]
  BY <1>2, <1>3 DEF NoUpstream
<1> HIDE DEF u
<1>5. /\ [NoRemote EXCEPT !.name = u.remote, !.ref = u.ref] \in RemoteType
      /\ [NoRemote EXCEPT !.name = u.remote, !.ref = u.ref]
            = [name |-> u.remote, branch |-> << >>, ref |-> u.ref]
  <2>1. [NoRemote EXCEPT !.name = u.remote, !.ref = u.ref]
            = [name |-> u.remote, branch |-> << >>, ref |-> u.ref]
    <3>1. PICK n, r, none : n = u.remote /\ r = u.ref /\ none = << >>
      OBVIOUS
    <3>2. NoRemote = [name |-> Here, branch |-> none, ref |-> NoRef]
      BY <3>1 DEF NoRemote
    <3>3. [NoRemote EXCEPT !.name = n, !.ref = r] = [name |-> n, branch |-> none, ref |-> r]
      <4>1. PICK m : m = [NoRemote EXCEPT !.name = n]
        OBVIOUS
      <4>2. m = [name |-> n, branch |-> none, ref |-> NoRef]
        BY <3>2, <4>1
      <4>3. [m EXCEPT !.ref = r] = [name |-> n, branch |-> none, ref |-> r]
        BY <4>2
      <4>4. QED
        BY <4>1, <4>3
    <3>4. QED
      BY <3>1, <3>3
  <2>2. << >> \in Seq(STRING) /\ u.remote \in Remotes \cup {Here} /\ u.ref \in GitRefs \cup {NoRef}
    BY <1>4
  <2>3. [name |-> u.remote, branch |-> << >>, ref |-> u.ref] \in RemoteType
    BY <2>2 DEF RemoteType
  <2>4. QED
    BY <2>1, <2>3
<1>6. u = NoUpstream => [NoRemote EXCEPT !.name = u.remote, !.ref = u.ref] = NoRemote
  BY <1>5 DEF NoUpstream, NoRemote
<1>7. u # NoUpstream => u = [remote |-> u.remote, ref |-> u.ref] /\ u.ref \in GitRefs
  BY <1>3
<1>8. QED
  BY <1>2, <1>3, <1>5, <1>6, <1>7 DEF u

\* Every branch of a remote is a sequence of names.
LEMMA BranchTyped ==
  ASSUME NEW remote \in RemoteType, remote.ref # NoRef,
         HasBranchName(remote.ref) => IsStrictPrefix(remote.name, Tail(remote.ref)),
         NEW found, found = [remote EXCEPT !.branch = IF HasBranchName(remote.ref)
                                                      THEN BranchWithin(remote.ref, remote.name) ELSE << >>]
  PROVE  /\ found \in RemoteType /\ BranchRight(found)
         /\ found.name = remote.name /\ found.ref = remote.ref
<1>1. remote.ref \in Seq(STRING) /\ remote.name \in Seq(STRING)
  <2>1. remote.ref \in GitRefs /\ remote.name \in Remotes \cup {Here}
    BY DEF RemoteType
  <2>2. Here \in Seq(STRING)
    BY DEF Here
  <2>3. QED
    BY <2>1, <2>2, QueriesAssumption
<1>2. HasBranchName(remote.ref) =>
         /\ BranchWithin(remote.ref, remote.name) \in Seq(STRING)
         /\ remote.ref = <<remote.ref[1]>> \o remote.name \o BranchWithin(remote.ref, remote.name)
  BY <1>1, BranchBehindRemote DEF NoRef
<1>3. << >> \in Seq(STRING)
  OBVIOUS
<1>4. PICK b : b = IF HasBranchName(remote.ref) THEN BranchWithin(remote.ref, remote.name) ELSE << >>
  OBVIOUS
<1>5. /\ b \in Seq(STRING)
      /\ b # << >> => remote.ref = <<remote.ref[1]>> \o remote.name \o b
  BY <1>2, <1>3, <1>4
<1>6. found = [remote EXCEPT !.branch = b]
  BY <1>4
<1>7. found \in RemoteType /\ found.branch = b /\ found.name = remote.name /\ found.ref = remote.ref
  BY <1>5, <1>6 DEF RemoteType
<1>8. QED
  BY <1>5, <1>7 DEF BranchRight

\* Which question each action answers, and which comes next.
LEMMA Moves ==
  /\ LookupHead => asking = "head" /\ asking' \in {"left", "resolve"}
  /\ ResolveHead => asking = "resolve" /\ asking' = "config"
  /\ RemoteConfig => asking = "config" /\ asking' \in {"merge dir", "lookup"}
  /\ LookupRemote => asking = "lookup" /\ asking' \in {"merge dir", "threw"}
  /\ OpenMergeDir => asking = "merge dir" /\ asking' \in {"next", "apply dir"}
  /\ OpenApplyDir => asking = "apply dir" /\ asking' \in {"next", "state"}
  /\ ReadNext => asking = "next" /\ asking' = "last"
  /\ ReadLast => asking = "last" /\ asking' = "state"
  /\ RepoState => asking = "state" /\ asking' \in {"stash", "ahead"}
  /\ NumStashes => asking = "stash" /\ asking' = "push config"
  /\ PushConfig => asking = "push config" /\ asking' \in {"push lookup", "done"}
  /\ LookupPush => asking = "push lookup" /\ asking' \in {"done", "push ahead"}
<1>1. LookupHead => asking = "head" /\ asking' \in {"left", "resolve"}
  BY DEF LookupHead, Step
<1>2. ResolveHead => asking = "resolve" /\ asking' = "config"
  BY DEF ResolveHead, Step
<1>3. RemoteConfig => asking = "config" /\ asking' \in {"merge dir", "lookup"}
  BY DEF RemoteConfig, Step
<1>4. LookupRemote => asking = "lookup" /\ asking' \in {"merge dir", "threw"}
  BY DEF LookupRemote, Step
<1>5. /\ OpenMergeDir => asking = "merge dir" /\ asking' \in {"next", "apply dir"}
      /\ OpenApplyDir => asking = "apply dir" /\ asking' \in {"next", "state"}
  BY DEF OpenMergeDir, OpenApplyDir, Step
<1>6. /\ ReadNext => asking = "next" /\ asking' = "last"
      /\ ReadLast => asking = "last" /\ asking' = "state"
  BY DEF ReadNext, ReadLast, Step
<1>7. RepoState => asking = "state" /\ asking' \in {"stash", "ahead"}
  BY DEF RepoState, Step
<1>8. /\ NumStashes => asking = "stash" /\ asking' = "push config"
      /\ PushConfig => asking = "push config" /\ asking' \in {"push lookup", "done"}
      /\ LookupPush => asking = "push lookup" /\ asking' \in {"done", "push ahead"}
  BY DEF NumStashes, PushConfig, LookupPush, Step
<1>9. QED
  BY <1>1, <1>2, <1>3, <1>4, <1>5, <1>6, <1>7, <1>8

\* A lookup of a count throws, finds what the walk goes on with, or ends it.
Looks == LookupRef \/ LookupHeadAgain \/ FollowHead
WalkThrows == asking' = "threw" /\ walk' = NoWalk /\ ans' = ans
WalkGoesOn == asking' = asking /\ ans' = ans /\ walk' \in WalkType
WalkEnds(n) == asking' = AfterCount /\ walk' = NoWalk /\ ans' = Counted(n)

LEMMA EndFoundIs ==
  ASSUME NEW c \in GitCommits \cup {0}, EndFound(c), walk \in WalkType
  PROVE  /\ UNCHANGED <<repo, upstream, push_upstream, past>>
         /\ \/ WalkThrows /\ c = 0
            \/ WalkGoesOn /\ c # 0 /\ walk.from = 0 /\ walk' = [from |-> c, via |-> NoRef]
            \/ c # 0 /\ walk.from # 0 /\ WalkEnds(OnlyIn(c, walk.from)) /\ OnlyIn(c, walk.from) \in Counts
<1>1. CountRange(walk.from, c) = OnlyIn(c, walk.from)
  <2>1. Reach[c] \ Reach[walk.from] = {e \in Reach[c] : e \notin Reach[walk.from]}
    OBVIOUS
  <2>2. QED
    BY <2>1 DEF CountRange, OnlyIn
<1>2. c # 0 /\ walk.from # 0 => CountRange(walk.from, c) \in Counts
  BY DEF WalkType, Counts
<1>3. UNCHANGED <<repo, upstream, push_upstream, past>>
  BY DEF EndFound
<1>4. CASE c = 0
  BY <1>3, <1>4 DEF EndFound, WalkThrows
<1>5. CASE c # 0 /\ walk.from = 0
  <2>1. walk' = [from |-> c, via |-> NoRef] /\ asking' = asking /\ ans' = ans
    BY <1>5 DEF EndFound
  <2>2. [from |-> c, via |-> NoRef] \in WalkType
    BY DEF WalkType
  <2>3. QED
    BY <1>3, <1>5, <2>1, <2>2 DEF WalkGoesOn
<1>6. CASE c # 0 /\ walk.from # 0
  <2>1. asking' = AfterCount /\ walk' = NoWalk /\ ans' = Counted(CountRange(walk.from, c))
    BY <1>6 DEF EndFound
  <2>2. QED
    BY <1>1, <1>2, <1>3, <1>6, <2>1 DEF WalkEnds
<1>7. QED
  BY <1>4, <1>5, <1>6

LEMMA RangeTyped ==
  ASSUME QueriesIInv, asking \in Counting
  PROVE  RangeRef \in GitRefs
BY DEF QueriesIInv, RemotePart, PushPart, Counting, RangeRef

LEMMA LooksIs ==
  ASSUME QueriesIInv, Looks
  PROVE  /\ asking \in Counting /\ UNCHANGED <<repo, upstream, push_upstream, past>>
         /\ WalkThrows \/ WalkGoesOn \/ \E n \in Counts : WalkEnds(n)
<1>1. walk \in WalkType /\ repo \in RepoType /\ asking \in Counting
  BY RepoTyped DEF QueriesIInv, QueriesTyped, Looks, LookupRef, LookupHeadAgain, FollowHead
<1>2. ASSUME NEW c \in GitCommits \cup {0}, EndFound(c)
      PROVE  /\ UNCHANGED <<repo, upstream, push_upstream, past>>
             /\ WalkThrows \/ WalkGoesOn \/ \E n \in Counts : WalkEnds(n)
  BY <1>1, <1>2, EndFoundIs
<1>3. CASE LookupRef
  <2>1. repo.tips[RangeRef] \in GitCommits \cup {0} /\ EndFound(repo.tips[RangeRef])
    BY <1>1, <1>3, RangeTyped DEF LookupRef, RepoType
  <2>2. QED
    BY <1>1, <1>2, <2>1
<1>4. CASE LookupHeadAgain
  <2>1. CASE repo.head.ref = NoRef
    <3>1. repo.head.commit \in GitCommits \cup {0} /\ EndFound(repo.head.commit)
      BY <1>1, <1>4, <2>1 DEF LookupHeadAgain, RepoType
    <3>2. QED
      BY <1>1, <1>2, <3>1
  <2>2. CASE repo.head.ref # NoRef
    <3>1. /\ walk' = [walk EXCEPT !.via = repo.head.ref] /\ repo.head.ref \in GitRefs
          /\ UNCHANGED <<repo, upstream, push_upstream, asking, ans, past>>
      BY <1>1, <1>4, <2>2 DEF LookupHeadAgain, RepoType
    <3>2. walk' \in WalkType
      BY <1>1, <3>1 DEF WalkType
    <3>3. QED
      BY <1>1, <3>1, <3>2 DEF WalkGoesOn
  <2>3. QED
    BY <2>1, <2>2
<1>5. CASE FollowHead
  <2>1. repo.tips[walk.via] \in GitCommits \cup {0} /\ EndFound(repo.tips[walk.via])
    BY <1>1, <1>5 DEF FollowHead, RepoType, WalkType
  <2>2. QED
    BY <1>1, <1>2, <2>1
<1>6. QED
  BY <1>3, <1>4, <1>5 DEF Looks

\* Which question fills in what.
Fills ==
    /\ UNCHANGED <<repo, upstream, push_upstream, past>>
    /\ asking \in {"head", "resolve"} \/ (ans'.symbolic = ans.symbolic /\ ans'.target = ans.target)
    /\ asking = "config" \/ ans'.local = ans.local
    /\ asking \in {"config", "lookup"} \/ ans'.remote = ans.remote
    /\ asking = "ahead" \/ ans'.ahead = ans.ahead
    /\ asking = "behind" \/ ans'.behind = ans.behind
    /\ asking \in {"merge dir", "apply dir"} \/ ans'.dir = ans.dir
    /\ asking \in {"next", "state"} \/ ans'.next = ans.next
    /\ asking \in {"last", "state"} \/ ans'.last = ans.last
    /\ asking = "state" \/ ans'.action = ans.action
    /\ asking = "stash" \/ ans'.stashes = ans.stashes
    /\ asking \in {"push config", "push lookup"} \/ ans'.push = ans.push
    /\ asking = "push ahead" \/ ans'.push_ahead = ans.push_ahead
    /\ asking = "push behind" \/ ans'.push_behind = ans.push_behind

LEMMA AsksFills ==
  ASSUME QueriesIInv, Asks
  PROVE  Fills
<1>1. ans \in AnswerType
  BY DEF QueriesIInv, QueriesTyped
<1>2. CASE LookupHead
  BY <1>1, <1>2 DEF Fills, LookupHead, Step, AnswerType
<1>3. CASE ResolveHead
  BY <1>1, <1>3 DEF Fills, ResolveHead, Step, AnswerType
<1>4. CASE RemoteConfig
  BY <1>1, <1>4 DEF Fills, RemoteConfig, Step, AnswerType
<1>5. CASE LookupRemote
  BY <1>1, <1>5 DEF Fills, LookupRemote, Step, AnswerType
<1>6. CASE OpenMergeDir
  BY <1>1, <1>6 DEF Fills, OpenMergeDir, Step, AnswerType
<1>7. CASE OpenApplyDir
  BY <1>1, <1>7 DEF Fills, OpenApplyDir, Step, AnswerType
<1>8. CASE ReadNext
  BY <1>1, <1>8 DEF Fills, ReadNext, Step, AnswerType
<1>9. CASE ReadLast
  BY <1>1, <1>9 DEF Fills, ReadLast, Step, AnswerType
<1>10. CASE RepoState
  BY <1>1, <1>10 DEF Fills, RepoState, Step, AnswerType
<1>11. CASE NumStashes
  BY <1>1, <1>11 DEF Fills, NumStashes, Step, AnswerType
<1>12. CASE PushConfig
  BY <1>1, <1>12 DEF Fills, PushConfig, Step, AnswerType
<1>13. CASE LookupPush
  BY <1>1, <1>13 DEF Fills, LookupPush, Step, AnswerType
<1>14. CASE Looks
  <2>1. asking \in Counting /\ UNCHANGED <<repo, upstream, push_upstream, past>>
    BY <1>14, LooksIs
  <2>2. CASE ans' = ans
    BY <2>1, <2>2 DEF Fills
  <2>3. ASSUME NEW k, ans' = Counted(k) PROVE Fills
    BY <1>1, <2>1, <2>3 DEF Fills, Counted, Counting, AnswerType
  <2>4. QED
    BY <1>14, <2>2, <2>3, LooksIs DEF WalkThrows, WalkGoesOn, WalkEnds
<1>15. QED
  BY <1>2, <1>3, <1>4, <1>5, <1>6, <1>7, <1>8, <1>9, <1>10, <1>11, <1>12, <1>13, <1>14 DEF Asks, Looks


LEMMA StepTyped ==
  ASSUME QueriesIInv, Asks, ~Looks
  PROVE  /\ ans' \in AnswerType /\ asking \notin Counting
         /\ UNCHANGED <<repo, upstream, push_upstream, walk, past>>
<1>1. QueriesTyped /\ ans \in AnswerType /\ repo \in RepoType
  BY RepoTyped DEF QueriesIInv, QueriesTyped
<1> SUFFICES /\ ans' \in AnswerType
             /\ UNCHANGED <<repo, upstream, push_upstream, walk, past>>
  BY Moves DEF Asks, Looks, Counting
<1>2. CASE LookupHead
  <2>1. repo.head.ref \in GitRefs \cup {NoRef} /\ repo.head.commit \in GitCommits \cup {0}
    BY <1>1 DEF RepoType
  <2>2. /\ UNCHANGED <<repo, upstream, push_upstream, walk, past>>
        /\ ans' = ans \/ ans' = [ans EXCEPT !.symbolic = repo.head.ref, !.target = repo.head.commit]
    BY <1>2 DEF LookupHead, Step
  <2>3. QED
    BY <1>1, <2>1, <2>2 DEF AnswerType
<1>3. CASE ResolveHead
  BY <1>1, <1>3 DEF ResolveHead, Step, AnswerType, RepoType
<1>4. CASE RemoteConfig
  <2>1. LocalBranchName \in Seq(STRING)
    <3>1. << >> \in Seq(STRING)
      OBVIOUS
    <3>2. IsBranch(ans.symbolic) => ans.symbolic \in Seq(STRING) /\ ans.symbolic # << >>
      BY <1>1, QueriesAssumption DEF AnswerType, IsBranch, NoRef
    <3>3. QED
      BY <3>1, <3>2, FirstAndRest DEF LocalBranchName
  <2>2. PICK l : l = LocalBranchName
    OBVIOUS
  <2>3. PICK m : m = [NoRemote EXCEPT !.name = ConfigOf(upstream).remote, !.ref = ConfigOf(upstream).ref]
    OBVIOUS
  <2>4. m \in RemoteType
    BY <1>1, <2>3, ConfigTyped DEF QueriesTyped
  <2>5. /\ ans' = [ans EXCEPT !.local = l, !.remote = m]
        /\ UNCHANGED <<repo, upstream, push_upstream, walk, past>>
    BY <1>4, <2>2, <2>3 DEF RemoteConfig, Step
  <2>6. QED
    BY <1>1, <2>1, <2>2, <2>4, <2>5 DEF AnswerType
<1>5. CASE LookupRemote
  <2>1. ans.remote \in RemoteType /\ ans.remote.ref \in GitRefs
    BY <1>1, <1>5 DEF AnswerType, LookupRemote, QueriesIInv, RemotePart
  <2> DEFINE r == ans.remote
             f == [r EXCEPT !.branch = IF HasBranchName(r.ref) THEN BranchWithin(r.ref, r.name) ELSE << >>]
  <2>2. (HasBranchName(r.ref) => IsStrictPrefix(r.name, Tail(r.ref))) => f \in RemoteType
    BY <2>1, BranchTyped, QueriesAssumption
  <2>3. /\ UNCHANGED <<repo, upstream, push_upstream, walk, past>>
        /\ \/ ans' = ans
           \/ ans' = [ans EXCEPT !.remote = NoRemote]
           \/ f \in RemoteType /\ ans' = [ans EXCEPT !.remote = f]
    BY <1>5, <2>2 DEF LookupRemote, Step
  <2> HIDE DEF f
  <2>4. QED
    BY <1>1, <2>3, NothingTyped DEF AnswerType
<1>6. CASE OpenMergeDir \/ OpenApplyDir
  BY <1>1, <1>6 DEF OpenMergeDir, OpenApplyDir, Step, AnswerType
<1>7. CASE ReadNext \/ ReadLast
  <2>1. ReadFile("next") \in 0..2 /\ ReadFile("last") \in 0..2
    BY <1>1 DEF ReadFile, RepoType
  <2>2. QED
    BY <1>1, <1>7, <2>1 DEF ReadNext, ReadLast, Step, AnswerType
<1>8. CASE RepoState
  <2>1. Action(repo) \in {"none", "merge", "rebase-merge", "rebase-apply"}
    BY <1>1 DEF Action, RepoType
  <2>2. QED
    BY <1>1, <1>8, <2>1 DEF RepoState, Step, AnswerType
<1>9. CASE NumStashes
  BY <1>1, <1>9 DEF NumStashes, Step, AnswerType, RepoType
<1>10. CASE PushConfig
  <2>1. PICK m : m = [NoRemote EXCEPT !.name = ConfigOf(push_upstream).remote, !.ref = ConfigOf(push_upstream).ref]
    OBVIOUS
  <2>2. m \in RemoteType
    BY <1>1, <2>1, ConfigTyped DEF QueriesTyped
  <2>3. ans' = [ans EXCEPT !.push = m] /\ UNCHANGED <<repo, upstream, push_upstream, walk, past>>
    BY <1>10, <2>1 DEF PushConfig, Step
  <2>4. QED
    BY <1>1, <2>2, <2>3 DEF AnswerType
<1>11. CASE LookupPush
  BY <1>1, <1>11, NothingTyped DEF LookupPush, Step, AnswerType
<1>12. QED
  BY <1>2, <1>3, <1>4, <1>5, <1>6, <1>7, <1>8, <1>9, <1>10, <1>11 DEF Asks, Looks

LEMMA AnswerTyped ==
  ASSUME QueriesIInv, Asks
  PROVE  QueriesTyped'
<1>1. QueriesTyped /\ ans \in AnswerType /\ repo \in RepoType
  BY RepoTyped DEF QueriesIInv, QueriesTyped
<1> SUFFICES /\ ans' \in AnswerType /\ walk' \in WalkType
             /\ asking' \notin Counting => walk' = NoWalk
             /\ UNCHANGED <<repo, upstream, push_upstream, past>>
  BY <1>1 DEF QueriesTyped
<1>2. CASE Looks
  <2>1. asking \in Counting /\ UNCHANGED <<repo, upstream, push_upstream, past>>
    BY <1>2, LooksIs
  <2>2. CASE WalkThrows
    BY <1>1, <2>1, <2>2, NothingTyped DEF WalkThrows
  <2>3. CASE WalkGoesOn
    BY <1>1, <2>1, <2>3 DEF WalkGoesOn
  <2>4. ASSUME NEW k \in Counts, WalkEnds(k)
        PROVE  ans' \in AnswerType /\ walk' = NoWalk
    BY <1>1, <2>4 DEF WalkEnds, Counted, AnswerType
  <2>5. QED
    BY <1>2, <2>1, <2>2, <2>3, <2>4, LooksIs, NothingTyped
<1>3. CASE ~Looks
  <2>1. /\ ans' \in AnswerType /\ asking \notin Counting
        /\ UNCHANGED <<repo, upstream, push_upstream, walk, past>>
    BY <1>3, StepTyped
  <2>2. walk = NoWalk
    BY <1>1, <2>1 DEF QueriesTyped
  <2>3. QED
    BY <2>1, <2>2, NothingTyped
<1>4. QED
  BY <1>2, <1>3

\* What is so of a remote stays so while its branch and its commit do.
LEMMA RemoteStays ==
  ASSUME ans'.symbolic = ans.symbolic, ans'.target = ans.target, NEW remote
  PROVE  /\ upstream' = upstream => (RemoteRight(upstream, remote) => RemoteRight(upstream, remote)')
         /\ push_upstream' = push_upstream => (RemoteRight(push_upstream, remote) => RemoteRight(push_upstream, remote)')
         /\ BranchRight(remote) => BranchRight(remote)'
<1>1. upstream' = upstream => (RemoteRight(upstream, remote) => RemoteRight(upstream, remote)')
  BY DEF RemoteRight
<1>2. push_upstream' = push_upstream => (RemoteRight(push_upstream, remote) => RemoteRight(push_upstream, remote)')
  BY DEF RemoteRight
<1>3. BranchRight(remote) => BranchRight(remote)'
  BY DEF BranchRight
<1>4. QED
  BY <1>1, <1>2, <1>3

\* A count fills in one number, of a remote there is.
LEMMA LooksMoves ==
  ASSUME QueriesIInv, Looks
  PROVE  /\ asking = "ahead" => asking' \in {"ahead", "behind", "threw"}
         /\ asking = "behind" => asking' \in {"behind", "stash", "threw"}
         /\ asking = "push ahead" => asking' \in {"push ahead", "push behind", "threw"}
         /\ asking = "push behind" => asking' \in {"push behind", "done", "threw"}
         /\ asking \in Counting
BY LooksIs DEF WalkThrows, WalkGoesOn, WalkEnds, AfterCount, Counting

LEMMA RemoteKept ==
  ASSUME QueriesIInv, Asks
  PROVE  RemotePart'
<1>1. Fills /\ QueriesTyped /\ RemotePart /\ ans \in AnswerType
  BY AsksFills DEF QueriesIInv, QueriesTyped
<1>2. upstream' = upstream
  BY <1>1 DEF Fills
<1>3. asking \notin {"head", "resolve"} => ans'.symbolic = ans.symbolic /\ ans'.target = ans.target
  BY <1>1 DEF Fills
<1>4. CASE LookupHead \/ ResolveHead
  <2>1. asking \in {"head", "resolve"} /\ asking' \in {"left", "resolve", "config"}
    BY <1>4, Moves
  <2>2. /\ ans'.ahead = ans.ahead /\ ans'.behind = ans.behind /\ ans'.remote = ans.remote
        /\ ans.ahead = 0 /\ ans.behind = 0 /\ ans.remote = NoRemote
    BY <1>1, <2>1 DEF Fills, RemotePart, Pushing
  <2>3. BranchRight(NoRemote)'
    BY DEF BranchRight, NoRemote
  <2>4. QED
    BY <2>1, <2>2, <2>3 DEF RemotePart, Pushing, Ended
<1>5. CASE RemoteConfig
  <2>1. PICK m : m = [NoRemote EXCEPT !.name = ConfigOf(upstream).remote, !.ref = ConfigOf(upstream).ref]
    OBVIOUS
  <2>2. /\ asking = "config" /\ asking' = IF ConfigOf(upstream) = NoUpstream THEN "merge dir" ELSE "lookup"
        /\ ans'.remote = m /\ ans'.local = LocalBranchName
    BY <1>1, <1>5, <2>1 DEF RemoteConfig, Step, AnswerType
  <2>3. ans'.ahead = 0 /\ ans'.behind = 0
    BY <1>1, <2>2 DEF Fills, RemotePart, Pushing
  <2>4. upstream \in Configs
    BY <1>1 DEF QueriesTyped
  <2>5. ConfigOf(upstream) = NoUpstream => m = NoRemote
    BY <1>1, <2>1, <2>4, ConfigTyped
  <2>6. m.name = ConfigOf(upstream).remote /\ m.ref = ConfigOf(upstream).ref /\ m.branch = << >>
    BY <2>1 DEF NoRemote
  <2>7. ConfigOf(upstream) # NoUpstream => m.ref \in GitRefs /\ m # NoRemote /\ RemoteRight(upstream, m)
    <3>1. SUFFICES ASSUME ConfigOf(upstream) # NoUpstream
                   PROVE  m.ref \in GitRefs /\ m # NoRemote /\ RemoteRight(upstream, m)
      OBVIOUS
    <3>2. m.ref \in GitRefs /\ RemoteRight(upstream, m)
      BY <1>1, <2>4, <2>6, <3>1, ConfigTyped DEF RemoteRight
    <3>3. NoRemote.ref \notin GitRefs
      BY QueriesAssumption DEF NoRemote
    <3>4. QED
      BY <3>2, <3>3
  <2>8. /\ RemoteRight(upstream, m) => RemoteRight(upstream, m)'
        /\ RemoteRight(upstream, NoRemote)' /\ BranchRight(m)'
    <3>1. ans'.symbolic = ans.symbolic /\ ans'.target = ans.target
      BY <1>3, <2>2
    <3>2. RemoteRight(upstream, m) => RemoteRight(upstream, m)'
      BY <1>2, <3>1, RemoteStays
    <3>3. RemoteRight(upstream, NoRemote)'
      BY DEF RemoteRight
    <3>4. BranchRight(m)'
      BY <2>6 DEF BranchRight
    <3>5. QED
      BY <3>2, <3>3, <3>4
  <2>9. ans'.local = LocalBranchName'
    BY <1>3, <2>2 DEF LocalBranchName
  <2>10. QED
    BY <1>2, <2>2, <2>3, <2>5, <2>7, <2>8, <2>9 DEF RemotePart, Pushing, Ended
<1>6. CASE LookupRemote
  <2>1. /\ asking = "lookup" /\ asking' \in {"merge dir", "threw"} /\ ans.remote # NoRemote
        /\ RemoteRight(upstream, ans.remote) /\ ans.local = LocalBranchName
        /\ ans.remote \in RemoteType /\ ans.remote.ref \in GitRefs /\ ans.remote.ref # NoRef
    BY <1>1, <1>6, Moves, QueriesAssumption DEF RemotePart, AnswerType, Ended
  <2>2. ans'.ahead = 0 /\ ans'.behind = 0 /\ ans'.local = LocalBranchName'
    BY <1>1, <1>3, <2>1 DEF Fills, RemotePart, Pushing, LocalBranchName
  <2>3. CASE ans' = [ans EXCEPT !.remote = NoRemote]
    <3>1. ans'.remote = NoRemote
      BY <1>1, <2>3 DEF AnswerType
    <3>2. RemoteRight(upstream, NoRemote)' /\ BranchRight(NoRemote)'
      BY DEF RemoteRight, BranchRight, NoRemote
    <3>3. QED
      BY <1>2, <2>1, <2>2, <3>1, <3>2 DEF RemotePart, Pushing, Ended
  <2>4. CASE asking' = "threw" /\ ans' = ans
    BY <1>1, <2>1, <2>4 DEF RemotePart, Pushing, Ended
  <2>5. ASSUME HasBranchName(ans.remote.ref) => IsStrictPrefix(ans.remote.name, Tail(ans.remote.ref)),
               NEW f, f = [ans.remote EXCEPT !.branch =
                   IF HasBranchName(ans.remote.ref) THEN BranchWithin(ans.remote.ref, ans.remote.name) ELSE << >>],
               ans' = [ans EXCEPT !.remote = f]
        PROVE  RemotePart'
    <3>1. f \in RemoteType /\ BranchRight(f) /\ f.name = ans.remote.name /\ f.ref = ans.remote.ref
      <4>1. PICK r : r = ans.remote
        OBVIOUS
      <4>2. /\ r \in RemoteType /\ r.ref # NoRef /\ (HasBranchName(r.ref) => IsStrictPrefix(r.name, Tail(r.ref)))
            /\ f = [r EXCEPT !.branch = IF HasBranchName(r.ref) THEN BranchWithin(r.ref, r.name) ELSE << >>]
        BY <2>1, <2>5, <4>1
      <4>3. QED
        BY <4>1, <4>2, BranchTyped
    <3>2. ans'.remote = f
      BY <1>1, <2>5 DEF AnswerType
    <3>3. RemoteRight(upstream, f)
      BY <2>1, <3>1 DEF RemoteRight
    <3>4. RemoteRight(upstream, f)' /\ BranchRight(f)'
      <4>1. ans'.symbolic = ans.symbolic /\ ans'.target = ans.target
        BY <1>3, <2>1
      <4>2. RemoteRight(upstream, f)'
        BY <1>2, <3>3, <4>1, RemoteStays
      <4>3. BranchRight(f)'
        BY <3>1, <4>1, RemoteStays
      <4>4. QED
        BY <4>2, <4>3
    <3>5. f.ref \in GitRefs
      BY <2>1, <3>1
    <3>6. QED
      BY <1>2, <2>1, <2>2, <3>2, <3>4, <3>5 DEF RemotePart, Pushing, Ended
  <2>6. \/ ans' = [ans EXCEPT !.remote = NoRemote]
        \/ /\ HasBranchName(ans.remote.ref) => IsStrictPrefix(ans.remote.name, Tail(ans.remote.ref))
           /\ ans' = [ans EXCEPT !.remote = [ans.remote EXCEPT !.branch =
                        IF HasBranchName(ans.remote.ref) THEN BranchWithin(ans.remote.ref, ans.remote.name) ELSE << >>]]
        \/ asking' = "threw" /\ ans' = ans
    BY <1>6 DEF LookupRemote, Step
  <2>7. QED
    BY <2>3, <2>4, <2>5, <2>6
<1>7. CASE ~(LookupHead \/ ResolveHead \/ RemoteConfig \/ LookupRemote)
  <2>1. /\ asking \notin {"head", "resolve", "config", "lookup"} \cup Ended
        /\ asking' \notin {"head", "resolve", "config", "lookup", "left"}
    BY <1>7, Moves, LooksMoves DEF Asks, Looks, Counting, Ended
  <2>2. /\ ans'.symbolic = ans.symbolic /\ ans'.target = ans.target
        /\ ans'.local = ans.local /\ ans'.remote = ans.remote
    BY <1>1, <2>1 DEF Fills
  <2>3. /\ ans.local = LocalBranchName /\ BranchRight(ans.remote) /\ RemoteRight(upstream, ans.remote)
        /\ ans.remote = NoRemote \/ ans.remote.ref \in GitRefs
    BY <1>1, <2>1 DEF RemotePart, Ended
  <2>4. /\ ans'.local = LocalBranchName' /\ BranchRight(ans.remote)' /\ RemoteRight(upstream, ans.remote)'
        /\ ans'.remote = NoRemote \/ ans'.remote.ref \in GitRefs
    BY <1>2, <2>2, <2>3, RemoteStays DEF LocalBranchName
  <2>5. /\ asking' \in {"ahead", "behind"} => ans.remote # NoRemote
        /\ asking' \notin {"behind", "stash", "threw"} \cup Pushing => ans'.ahead = 0
        /\ asking' \notin {"stash", "threw"} \cup Pushing => ans'.behind = 0
        /\ ans.remote = NoRemote /\ asking' # "threw" => ans'.ahead = 0 /\ ans'.behind = 0
    <3>1. CASE RepoState
      <4>1. asking = "state" /\ asking' = IF ans.remote = NoRemote THEN "stash" ELSE "ahead"
        BY <3>1 DEF RepoState, Step
      <4>2. QED
        BY <1>1, <4>1 DEF Fills, RemotePart, Pushing
    <3>2. CASE Looks
      <4>1. asking \in Counting /\ (asking \in {"ahead", "behind"} => ans.remote # NoRemote)
        BY <1>1, <3>2, LooksMoves DEF RemotePart
      <4>2. CASE asking \in {"ahead", "behind"}
        <5>1. CASE asking = "ahead"
          <6>1. asking' \in {"ahead", "behind", "threw"} /\ ans.behind = 0 /\ ans'.behind = ans.behind
            BY <1>1, <3>2, <5>1, LooksMoves DEF Fills, RemotePart, Pushing
          <6>2. asking' = "ahead" => ans'.ahead = 0
            <7>1. asking' = "ahead" => ans' = ans
              BY <3>2, <5>1, LooksIs DEF WalkThrows, WalkGoesOn, WalkEnds, AfterCount
            <7>2. ans.ahead = 0
              BY <1>1, <5>1 DEF RemotePart, Pushing
            <7>3. QED
              BY <7>1, <7>2
          <6>3. QED
            BY <4>1, <5>1, <6>1, <6>2 DEF Pushing
        <5>2. CASE asking = "behind"
          <6>1. asking' \in {"behind", "stash", "threw"}
            BY <3>2, <5>2, LooksMoves
          <6>2. asking' = "behind" => ans'.behind = 0
            <7>1. asking' = "behind" => ans' = ans
              BY <3>2, <5>2, LooksIs DEF WalkThrows, WalkGoesOn, WalkEnds, AfterCount
            <7>2. ans.behind = 0
              BY <1>1, <5>2 DEF RemotePart, Pushing
            <7>3. QED
              BY <7>1, <7>2
          <6>3. QED
            BY <4>1, <5>2, <6>1, <6>2 DEF Pushing
        <5>3. QED
          BY <4>2, <5>1, <5>2
      <4>3. CASE asking \in {"push ahead", "push behind"}
        <5>1. asking' \in {"push ahead", "push behind", "done", "threw"}
          BY <3>2, <4>3, LooksMoves
        <5>2. QED
          BY <1>1, <4>3, <5>1 DEF Fills, RemotePart, Pushing
      <4>4. QED
        BY <4>1, <4>2, <4>3 DEF Counting
    <3>3. CASE OpenMergeDir \/ OpenApplyDir \/ ReadNext \/ ReadLast
      <4>1. /\ asking \in {"merge dir", "apply dir", "next", "last"}
            /\ asking' \in {"apply dir", "next", "last", "state"}
        BY <3>3, Moves
      <4>2. QED
        BY <1>1, <4>1 DEF Fills, RemotePart, Pushing
    <3>4. CASE NumStashes \/ PushConfig \/ LookupPush
      <4>1. asking \in {"stash"} \cup Pushing /\ asking' \in Pushing /\ asking \notin Counting
        BY <3>4, Moves DEF Pushing, Counting
      <4>2. QED
        BY <1>1, <4>1 DEF Fills, RemotePart, Pushing, Counting
    <3>5. QED
      BY <1>7, <3>1, <3>2, <3>3, <3>4 DEF Asks, Looks
  <2>6. QED
    BY <2>1, <2>2, <2>4, <2>5 DEF RemotePart, Ended
<1>8. QED
  BY <1>4, <1>5, <1>6, <1>7

LEMMA PushKept ==
  ASSUME QueriesIInv, Asks
  PROVE  PushPart'
<1>1. Fills /\ QueriesTyped /\ PushPart /\ ans \in AnswerType
  BY AsksFills DEF QueriesIInv, QueriesTyped
<1>2. push_upstream' = push_upstream
  BY <1>1 DEF Fills
<1>3. CASE PushConfig
  <2>1. PICK m : m = [NoRemote EXCEPT !.name = ConfigOf(push_upstream).remote,
                                      !.ref = ConfigOf(push_upstream).ref]
    OBVIOUS
  <2>2. /\ asking = "push config"
        /\ asking' = IF ConfigOf(push_upstream) = NoUpstream THEN "done" ELSE "push lookup"
        /\ ans'.push = m
    BY <1>1, <1>3, <2>1 DEF PushConfig, Step, AnswerType
  <2>3. /\ ans'.push_ahead = 0 /\ ans'.push_behind = 0
        /\ ans'.symbolic = ans.symbolic /\ ans'.target = ans.target
    BY <1>1, <2>2 DEF Fills, PushPart
  <2>4. push_upstream \in Configs
    BY <1>1 DEF QueriesTyped
  <2>5. ConfigOf(push_upstream) = NoUpstream => m = NoRemote
    BY <1>1, <2>1, <2>4, ConfigTyped
  <2>6. m.name = ConfigOf(push_upstream).remote /\ m.ref = ConfigOf(push_upstream).ref
    BY <2>1 DEF NoRemote
  <2>7. ConfigOf(push_upstream) # NoUpstream => m.ref \in GitRefs /\ m # NoRemote /\ RemoteRight(push_upstream, m)
    <3>1. SUFFICES ASSUME ConfigOf(push_upstream) # NoUpstream
                   PROVE  m.ref \in GitRefs /\ m # NoRemote /\ RemoteRight(push_upstream, m)
      OBVIOUS
    <3>2. m.ref \in GitRefs /\ RemoteRight(push_upstream, m)
      BY <1>1, <2>4, <2>6, <3>1, ConfigTyped DEF RemoteRight
    <3>3. NoRemote.ref \notin GitRefs
      BY QueriesAssumption DEF NoRemote
    <3>4. QED
      BY <3>2, <3>3
  <2>8. /\ RemoteRight(push_upstream, m) => RemoteRight(push_upstream, m)'
        /\ RemoteRight(push_upstream, NoRemote)'
    <3>1. RemoteRight(push_upstream, m) => RemoteRight(push_upstream, m)'
      BY <1>2, <2>3, RemoteStays
    <3>2. RemoteRight(push_upstream, NoRemote)'
      BY DEF RemoteRight
    <3>3. QED
      BY <3>1, <3>2
  <2>9. QED
    BY <1>2, <2>2, <2>3, <2>5, <2>7, <2>8 DEF PushPart, Pushing
<1>4. CASE LookupPush
  <2>1. /\ asking = "push lookup" /\ RemoteRight(push_upstream, ans.push) /\ ans.push # NoRemote
        /\ ans.push.ref \in GitRefs
        /\ ans'.push_ahead = 0 /\ ans'.push_behind = 0
        /\ ans'.symbolic = ans.symbolic /\ ans'.target = ans.target
    BY <1>1, <1>4, Moves DEF Fills, PushPart, Pushing
  <2>3. CASE asking' = "done" /\ ans' = [ans EXCEPT !.push = NoRemote]
    <3>1. ans'.push = NoRemote
      BY <1>1, <2>3 DEF AnswerType
    <3>2. RemoteRight(push_upstream, ans.push)'
      BY <3>1 DEF RemoteRight
    <3>3. QED
      BY <2>1, <2>3, <3>1, <3>2 DEF PushPart
  <2>4. CASE asking' = "push ahead" /\ ans' = ans
    <3>1. RemoteRight(push_upstream, ans.push)'
      BY <1>2, <2>1, <2>4 DEF RemoteRight
    <3>2. QED
      BY <2>1, <2>4, <3>1 DEF PushPart
  <2>5. QED
    BY <1>4, <2>3, <2>4 DEF LookupPush, Step
<1>5. CASE Looks /\ asking \in {"push ahead", "push behind"}
  <2>1. /\ asking' \in {"push ahead", "push behind", "done", "threw"}
        /\ RemoteRight(push_upstream, ans.push) /\ ans.push # NoRemote /\ ans.push.ref \in GitRefs
        /\ ans'.push = ans.push /\ ans'.symbolic = ans.symbolic /\ ans'.target = ans.target
    BY <1>1, <1>5, LooksMoves DEF Fills, PushPart, Pushing
  <2>2. /\ asking' \notin {"push behind", "done", "threw"} => ans'.push_ahead = 0
        /\ asking' \notin {"done", "threw"} => ans'.push_behind = 0
    <3>1. CASE asking = "push ahead"
      <4>1. asking' = "push ahead" => ans' = ans
        BY <1>5, <3>1, LooksIs DEF WalkThrows, WalkGoesOn, WalkEnds, AfterCount
      <4>2. ans.push_ahead = 0 /\ ans.push_behind = 0 /\ ans'.push_behind = ans.push_behind
        BY <1>1, <3>1 DEF Fills, PushPart
      <4>3. asking' \in {"push ahead", "push behind", "threw"}
        BY <1>5, <3>1, LooksMoves
      <4>4. QED
        BY <4>1, <4>2, <4>3
    <3>2. CASE asking = "push behind"
      <4>1. asking' = "push behind" => ans' = ans
        BY <1>5, <3>2, LooksIs DEF WalkThrows, WalkGoesOn, WalkEnds, AfterCount
      <4>2. ans.push_behind = 0
        BY <1>1, <3>2 DEF PushPart
      <4>3. asking' \in {"push behind", "done", "threw"}
        BY <1>5, <3>2, LooksMoves
      <4>4. QED
        BY <4>1, <4>2, <4>3
    <3>3. QED
      BY <1>5, <3>1, <3>2
  <2>3. RemoteRight(push_upstream, ans.push)'
    BY <1>2, <2>1 DEF RemoteRight
  <2>4. QED
    BY <2>1, <2>2, <2>3 DEF PushPart
<1>6. CASE ~(PushConfig \/ LookupPush \/ (Looks /\ asking \in {"push ahead", "push behind"}))
  <2>1. /\ asking \notin {"push config", "push lookup", "push ahead", "push behind", "done", "threw"}
        /\ asking' \notin {"push lookup", "push ahead", "push behind", "done"}
    <3>1. CASE Looks
      BY <1>6, <3>1, LooksMoves DEF Counting
    <3>2. CASE ~Looks
      BY <1>6, <3>2, Moves DEF Asks, Looks
    <3>3. QED
      BY <3>1, <3>2
  <2>2. ans'.push = NoRemote /\ ans'.push_ahead = 0 /\ ans'.push_behind = 0
    BY <1>1, <2>1 DEF Fills, PushPart
  <2>3. RemoteRight(push_upstream, ans.push)'
    BY <2>2 DEF RemoteRight
  <2>4. QED
    BY <2>1, <2>2, <2>3 DEF PushPart
<1>7. QED
  BY <1>3, <1>4, <1>5, <1>6

LEMMA StepsKept ==
  ASSUME QueriesIInv, Asks
  PROVE  StepsPart'
<1>1. Fills /\ StepsPart /\ ans \in AnswerType
  BY AsksFills DEF QueriesIInv, QueriesTyped
<1>2. CASE OpenMergeDir \/ OpenApplyDir
  <2>1. /\ asking \in {"merge dir", "apply dir"} /\ asking' \in {"next", "apply dir", "state"}
        /\ ans'.next = 0 /\ ans'.last = 0 /\ ans.dir = "none"
    BY <1>1, <1>2, Moves DEF Fills, StepsPart
  <2>2. /\ asking' = "next" => ans'.dir # "none"
        /\ asking' = "apply dir" => ans'.dir = "none"
    BY <1>1, <1>2, <2>1 DEF OpenMergeDir, OpenApplyDir, Step, AnswerType
  <2>3. QED
    BY <2>1, <2>2 DEF StepsPart, Pushing
<1>3. CASE ReadNext \/ ReadLast
  <2>1. /\ asking \in {"next", "last"} /\ asking' \in {"last", "state"} /\ ans'.dir = ans.dir /\ ans.dir # "none"
        /\ asking' = "last" => ans'.last = 0
    BY <1>1, <1>3, Moves DEF Fills, StepsPart
  <2>2. QED
    BY <2>1 DEF StepsPart, Pushing
<1>4. CASE RepoState
  <2>1. asking = "state" /\ asking' \in {"stash", "ahead"} /\ ans'.dir = ans.dir
    BY <1>1, <1>4, Moves DEF Fills
  <2>2. /\ ans'.next = IF ans.next # 0 /\ ans.last # 0 THEN ans.next ELSE 0
        /\ ans'.last = IF ans.next # 0 /\ ans.last # 0 THEN ans.last ELSE 0
    BY <1>1, <1>4 DEF RepoState, Step, AnswerType
  <2>3. ans.dir = "none" => ans.next = 0 /\ ans.last = 0
    BY <1>1 DEF StepsPart
  <2>4. QED
    BY <2>1, <2>2, <2>3 DEF StepsPart, Pushing
<1>5. CASE LookupHead \/ ResolveHead \/ RemoteConfig \/ LookupRemote
  <2>1. /\ asking \in {"head", "resolve", "config", "lookup"}
        /\ asking' \in {"left", "resolve", "config", "lookup", "merge dir", "threw"}
    BY <1>5, Moves
  <2>2. ans'.dir = "none" /\ ans'.next = 0 /\ ans'.last = 0
    BY <1>1, <2>1 DEF StepsPart, Fills
  <2>3. QED
    BY <2>1, <2>2 DEF StepsPart, Pushing
<1>6. CASE Looks \/ NumStashes \/ PushConfig \/ LookupPush
  <2>1. /\ asking \in {"ahead", "behind", "stash"} \cup Pushing
        /\ asking' \in {"ahead", "behind", "stash", "threw"} \cup Pushing
    <3>1. CASE Looks
      BY <3>1, LooksMoves DEF Counting, Pushing
    <3>2. CASE ~Looks
      BY <1>6, <3>2, Moves DEF Pushing
    <3>3. QED
      BY <3>1, <3>2
  <2>2. ans'.dir = ans.dir /\ ans'.next = ans.next /\ ans'.last = ans.last
    BY <1>1, <2>1 DEF Fills, Pushing
  <2>3. QED
    BY <1>1, <2>1, <2>2 DEF StepsPart, Pushing
<1>7. QED
  BY <1>2, <1>3, <1>4, <1>5, <1>6 DEF Asks, Looks


\* What a question does not fill in has been read by the same moments.
Early == {"head", "resolve", "config", "lookup"}
Middle == Early \cup {"merge dir", "apply dir", "next", "last", "state"}

LEMMA SinceStay ==
  ASSUME Fills
  PROVE  /\ asking \notin {"head", "resolve"} => SinceHead' = SinceHead
         /\ asking \notin Early => SinceRemote' = SinceRemote
         /\ asking \notin Early \cup {"merge dir", "apply dir", "next", "state"} => SinceNext' = SinceNext
         /\ asking \notin Middle => SinceLast' = SinceLast
         /\ asking \notin Middle \cup {"ahead"} => SinceAhead' = SinceAhead
         /\ asking \notin Middle \cup {"ahead", "behind"} => SinceCounts' = SinceCounts
         /\ asking \notin Middle \cup {"ahead", "behind", "stash"} => SinceStashes' = SinceStashes
         /\ asking \in {"push ahead", "push behind"} => SincePush' = SincePush
         /\ asking = "push behind" => SincePushAhead' = SincePushAhead
<1>1. asking \notin {"head", "resolve"} => SinceHead' = SinceHead
  BY DEF Fills, SinceHead
<1>2. asking \notin Early => SinceRemote' = SinceRemote
  BY <1>1 DEF Fills, SinceRemote, Early
<1>3. asking \notin Early \cup {"merge dir", "apply dir", "next", "state"} => SinceNext' = SinceNext
  BY <1>2 DEF Fills, SinceNext
<1>4. asking \notin Middle => SinceLast' = SinceLast
  BY <1>3 DEF Fills, SinceLast, Middle
<1>5. asking \notin Middle \cup {"ahead"} => SinceAhead' = SinceAhead
  BY <1>4 DEF Fills, SinceAhead, Middle, Early
<1>6. asking \notin Middle \cup {"ahead", "behind"} => SinceCounts' = SinceCounts
  BY <1>4 DEF Fills, SinceCounts, Middle, Early
<1>7. asking \notin Middle \cup {"ahead", "behind", "stash"} => SinceStashes' = SinceStashes
  BY <1>6 DEF Fills, SinceStashes
<1>8. asking \in {"push ahead", "push behind"} => SincePush' = SincePush
  BY <1>7 DEF Fills, SincePush, Middle, Early
<1>9. asking = "push behind" => SincePushAhead' = SincePushAhead
  BY <1>8 DEF Fills, SincePushAhead
<1>10. QED
  BY <1>1, <1>2, <1>3, <1>4, <1>5, <1>6, <1>7, <1>8, <1>9

\* A lookup of "ref..HEAD", and one of "HEAD..ref", behind the moments of S.
LEMMA AheadGoesOn ==
  ASSUME QueriesIInv, Looks, asking \in {"ahead", "push ahead"}, NEW S, S \subseteq DOMAIN past,
         WalksAhead(past, S, RangeRef, walk)
  PROVE  \/ WalkThrows
         \/ WalkGoesOn /\ WalksAhead(past, S, RangeRef, walk')
         \/ \E n \in Counts : WalkEnds(n) /\ Len(past) \in AheadSeen(past, S, RangeRef, n)
<1>1. /\ walk \in WalkType /\ repo \in RepoType /\ asking \in Counting
      /\ Latest(past, Len(past)) /\ past[Len(past)] = repo
  BY RepoTyped DEF QueriesIInv, QueriesTyped, Counting
<1>2. AtHead <=> walk.from # 0
  BY DEF AtHead
<1>3. CASE LookupRef
  <2>1. repo.tips[RangeRef] \in GitCommits \cup {0} /\ EndFound(repo.tips[RangeRef]) /\ walk.from = 0
    BY <1>1, <1>2, <1>3, RangeTyped DEF LookupRef, RepoType
  <2>2. \/ WalkThrows
        \/ WalkGoesOn /\ repo.tips[RangeRef] # 0 /\ walk' = [from |-> repo.tips[RangeRef], via |-> NoRef]
    BY <1>1, <2>1, EndFoundIs
  <2>3. repo.tips[RangeRef] # 0 => WalksAhead(past, S, RangeRef, [from |-> repo.tips[RangeRef], via |-> NoRef])
    BY <1>1, <2>1, WalkAheadNow
  <2>4. QED
    BY <2>2, <2>3
<1>4. CASE LookupHeadAgain
  <2>1. walk.from # 0 /\ walk.via = NoRef
    BY <1>2, <1>4 DEF LookupHeadAgain
  <2>2. CASE repo.head.ref = NoRef
    <3>1. repo.head.commit \in GitCommits \cup {0} /\ EndFound(repo.head.commit)
      BY <1>1, <1>4, <2>2 DEF LookupHeadAgain, RepoType
    <3>2. \/ WalkThrows
          \/ repo.head.commit # 0 /\ \E n \in Counts : WalkEnds(n) /\ n = OnlyIn(repo.head.commit, walk.from)
      BY <1>1, <2>1, <3>1, EndFoundIs
    <3>3. repo.head.commit # 0 => Len(past) \in AheadSeen(past, S, RangeRef, OnlyIn(repo.head.commit, walk.from))
      BY <1>1, <2>1, <2>2, WalkAheadNow
    <3>4. QED
      BY <3>2, <3>3
  <2>3. CASE repo.head.ref # NoRef
    <3>1. /\ walk' = [walk EXCEPT !.via = repo.head.ref] /\ asking' = asking /\ ans' = ans /\ repo.head.ref \in GitRefs
      BY <1>1, <1>4, <2>3 DEF LookupHeadAgain, RepoType
    <3>2. walk' \in WalkType
      BY <1>1, <3>1 DEF WalkType
    <3>3. WalksAhead(past, S, RangeRef, [walk EXCEPT !.via = repo.head.ref])
      BY <1>1, <2>1, <2>3, WalkAheadNow
    <3>4. QED
      BY <3>1, <3>2, <3>3 DEF WalkGoesOn
  <2>4. QED
    BY <2>2, <2>3
<1>5. CASE FollowHead
  <2>1. /\ repo.tips[walk.via] \in GitCommits \cup {0} /\ EndFound(repo.tips[walk.via])
        /\ walk.from # 0 /\ walk.via # NoRef
    BY <1>1, <1>2, <1>5 DEF FollowHead, RepoType, WalkType
  <2>2. \/ WalkThrows
        \/ repo.tips[walk.via] # 0 /\ \E n \in Counts : WalkEnds(n) /\ n = OnlyIn(repo.tips[walk.via], walk.from)
    BY <1>1, <2>1, EndFoundIs
  <2>3. repo.tips[walk.via] # 0 => Len(past) \in AheadSeen(past, S, RangeRef, OnlyIn(repo.tips[walk.via], walk.from))
    BY <1>1, <2>1, WalkAheadNow
  <2>4. QED
    BY <2>2, <2>3
<1>6. QED
  BY <1>3, <1>4, <1>5 DEF Looks

LEMMA BehindGoesOn ==
  ASSUME QueriesIInv, Looks, asking \in {"behind", "push behind"}, NEW S, S \subseteq DOMAIN past,
         WalksBehind(past, S, walk)
  PROVE  \/ WalkThrows
         \/ WalkGoesOn /\ WalksBehind(past, S, walk')
         \/ \E n \in Counts : WalkEnds(n) /\ Len(past) \in BehindSeen(past, S, RangeRef, n)
<1>1. /\ walk \in WalkType /\ repo \in RepoType /\ asking \in Counting
      /\ Latest(past, Len(past)) /\ past[Len(past)] = repo
  BY RepoTyped DEF QueriesIInv, QueriesTyped, Counting
<1>2. AtHead <=> walk.from = 0
  BY DEF AtHead
<1>3. CASE LookupRef
  <2>1. repo.tips[RangeRef] \in GitCommits \cup {0} /\ EndFound(repo.tips[RangeRef]) /\ walk.from # 0
    BY <1>1, <1>2, <1>3, RangeTyped DEF LookupRef, RepoType
  <2>2. \/ WalkThrows
        \/ repo.tips[RangeRef] # 0 /\ \E n \in Counts : WalkEnds(n) /\ n = OnlyIn(repo.tips[RangeRef], walk.from)
    BY <1>1, <2>1, EndFoundIs
  <2>3. repo.tips[RangeRef] # 0 => Len(past) \in BehindSeen(past, S, RangeRef, OnlyIn(repo.tips[RangeRef], walk.from))
    BY <1>1, <2>1, WalkBehindNow
  <2>4. QED
    BY <2>2, <2>3
<1>4. CASE LookupHeadAgain
  <2>1. walk.from = 0 /\ walk.via = NoRef
    BY <1>2, <1>4 DEF LookupHeadAgain
  <2>2. CASE repo.head.ref = NoRef
    <3>1. repo.head.commit \in GitCommits \cup {0} /\ EndFound(repo.head.commit)
      BY <1>1, <1>4, <2>2 DEF LookupHeadAgain, RepoType
    <3>2. \/ WalkThrows
          \/ WalkGoesOn /\ repo.head.commit # 0 /\ walk' = [from |-> repo.head.commit, via |-> NoRef]
      BY <1>1, <2>1, <3>1, EndFoundIs
    <3>3. repo.head.commit # 0 => WalksBehind(past, S, [from |-> repo.head.commit, via |-> NoRef])
      BY <1>1, <2>1, <2>2, WalkBehindNow
    <3>4. QED
      BY <3>2, <3>3
  <2>3. CASE repo.head.ref # NoRef
    <3>1. /\ walk' = [walk EXCEPT !.via = repo.head.ref] /\ asking' = asking /\ ans' = ans /\ repo.head.ref \in GitRefs
      BY <1>1, <1>4, <2>3 DEF LookupHeadAgain, RepoType
    <3>2. walk' \in WalkType
      BY <1>1, <3>1 DEF WalkType
    <3>3. WalksBehind(past, S, [walk EXCEPT !.via = repo.head.ref])
      BY <1>1, <2>1, <2>3, WalkBehindNow
    <3>4. QED
      BY <3>1, <3>2, <3>3 DEF WalkGoesOn
  <2>4. QED
    BY <2>2, <2>3
<1>5. CASE FollowHead
  <2>1. /\ repo.tips[walk.via] \in GitCommits \cup {0} /\ EndFound(repo.tips[walk.via])
        /\ walk.from = 0 /\ walk.via # NoRef
    BY <1>1, <1>2, <1>5 DEF FollowHead, RepoType, WalkType
  <2>2. \/ WalkThrows
        \/ WalkGoesOn /\ repo.tips[walk.via] # 0 /\ walk' = [from |-> repo.tips[walk.via], via |-> NoRef]
    BY <1>1, <2>1, EndFoundIs
  <2>3. repo.tips[walk.via] # 0 => WalksBehind(past, S, [from |-> repo.tips[walk.via], via |-> NoRef])
    BY <1>1, <2>1, WalkBehindNow
  <2>4. QED
    BY <2>2, <2>3
<1>6. QED
  BY <1>3, <1>4, <1>5 DEF Looks

\* A question of the head, the upstream and the rebase.
LEMMA FirstMoments ==
  ASSUME QueriesIInv, LookupHead \/ ResolveHead \/ RemoteConfig \/ LookupRemote
  PROVE  MomentsPart'
<1>1. Fills /\ QueriesTyped /\ MomentsPart /\ ans \in AnswerType /\ repo \in RepoType
  BY AsksFills, RepoTyped DEF QueriesIInv, QueriesTyped, Asks
<1>2. past' = past /\ Latest(past, Len(past)) /\ past[Len(past)] = repo /\ Len(past) \in DOMAIN past
  BY <1>1 DEF Fills, QueriesTyped, Latest
<1>3. CASE LookupHead
  <2>1. CASE asking' = "left"
    BY <2>1 DEF MomentsPart
  <2>2. CASE asking' = "resolve"
    <3>1. ans'.symbolic = repo.head.ref /\ ans'.target = repo.head.commit
      BY <1>1, <1>3, <2>2 DEF LookupHead, Step, AnswerType
    <3>2. past[Len(past)].head = [ref |-> ans'.symbolic, commit |-> ans'.target]
      BY <1>1, <1>2, <3>1 DEF RepoType
    <3>3. QED
      BY <1>2, <2>2, <3>2 DEF MomentsPart
  <2>3. QED
    BY <1>3, <2>1, <2>2, Moves
<1>4. CASE ResolveHead
  <2>1. asking = "resolve" /\ asking' = "config" /\ ans'.symbolic = ans.symbolic
    BY <1>1, <1>4, Moves DEF ResolveHead, Step, AnswerType
  <2>2. PICK n \in DOMAIN past : past[n].head = [ref |-> ans.symbolic, commit |-> ans.target]
    BY <1>1, <2>1 DEF MomentsPart
  <2>3. CASE ans.symbolic = NoRef
    <3>1. ans' = ans
      BY <1>4, <2>3 DEF ResolveHead, Step
    <3>2. n \in HeadSeen(past, ans.symbolic, ans.target)
      BY <2>2, <2>3 DEF HeadSeen
    <3>3. QED
      BY <1>2, <2>1, <3>1, <3>2 DEF MomentsPart, SinceHead
  <2>4. CASE ans.symbolic # NoRef
    <3>1. ans'.target = repo.tips[ans.symbolic]
      BY <1>1, <1>4, <2>4 DEF ResolveHead, Step, AnswerType
    <3>2. n \in {k \in DOMAIN past : past[k].head.ref = ans.symbolic}
      BY <2>2
    <3>3. Len(past) \in {k \in DOMAIN past : past[k].tips[ans.symbolic] = ans'.target}
      BY <1>2, <3>1
    <3>4. Len(past) \in NotBefore({k \in DOMAIN past : past[k].head.ref = ans.symbolic},
                              {k \in DOMAIN past : past[k].tips[ans.symbolic] = ans'.target})
      BY <1>2, <3>2, <3>3, ReadNow
    <3>5. Len(past) \in HeadSeen(past, ans.symbolic, ans'.target)
      BY <2>4, <3>4 DEF HeadSeen
    <3>6. QED
      BY <1>2, <2>1, <3>5 DEF MomentsPart, SinceHead
  <2>5. QED
    BY <2>3, <2>4
<1>5. CASE RemoteConfig
  <2>1. asking = "config" /\ asking' = IF ConfigOf(upstream) = NoUpstream THEN "merge dir" ELSE "lookup"
    BY <1>5 DEF RemoteConfig, Step
  <2>2. SinceHead' # {}
    <3>1. SinceHead' = SinceHead
      BY <1>1, <2>1, SinceStay
    <3>2. QED
      BY <1>1, <2>1, <3>1 DEF MomentsPart
  <2>3. ConfigOf(upstream) = NoUpstream => ans'.remote = NoRemote
    <3>1. PICK m : m = [NoRemote EXCEPT !.name = ConfigOf(upstream).remote, !.ref = ConfigOf(upstream).ref]
      OBVIOUS
    <3>2. ans'.remote = m
      BY <1>1, <1>5, <3>1 DEF RemoteConfig, Step, AnswerType
    <3>3. upstream \in Configs
      BY <1>1 DEF QueriesTyped
    <3>4. ConfigOf(upstream) = NoUpstream => m = NoRemote
      BY <1>1, <3>1, <3>3, ConfigTyped
    <3>5. QED
      BY <3>2, <3>4
  <2>4. ConfigOf(upstream) = NoUpstream => SinceRemote' = SinceHead'
    BY <2>3 DEF SinceRemote, RemoteSeen
  <2>5. QED
    BY <2>1, <2>2, <2>4 DEF MomentsPart
<1>6. CASE LookupRemote
  <2>1. asking = "lookup" /\ asking' \in {"merge dir", "threw"}
    BY <1>6, Moves
  <2>2. SinceHead' = SinceHead /\ SinceHead # {} /\ SinceHead \subseteq DOMAIN past
    <3>1. SinceHead' = SinceHead
      BY <1>1, <2>1, SinceStay
    <3>2. SinceHead \subseteq DOMAIN past
      BY SinceWithin
    <3>3. QED
      BY <1>1, <2>1, <3>1, <3>2 DEF MomentsPart
  <2>3. CASE ans'.remote = NoRemote
    <3>1. SinceRemote' = SinceHead'
      BY <2>3 DEF SinceRemote, RemoteSeen
    <3>2. QED
      BY <2>1, <2>2, <3>1 DEF MomentsPart
  <2>4. CASE repo.tips[ans.remote.ref] # 0 /\ ans'.remote.ref = ans.remote.ref /\ ans'.remote # NoRemote
    <3>1. Len(past) \in {n \in DOMAIN past : past[n].tips[ans'.remote.ref] # 0}
      BY <1>2, <2>4
    <3>2. Len(past) \in NotBefore(SinceHead, {n \in DOMAIN past : past[n].tips[ans'.remote.ref] # 0})
      BY <1>2, <2>2, <3>1, ReadNow
    <3>3. SinceRemote' # {}
      BY <1>2, <2>2, <2>4, <3>2 DEF SinceRemote, RemoteSeen
    <3>4. QED
      BY <2>1, <3>3 DEF MomentsPart
  <2>5. CASE asking' = "threw"
    BY <2>5 DEF MomentsPart
  <2>6. ans.remote \in RemoteType
    BY <1>1 DEF AnswerType
  <2>7. \/ ans' = [ans EXCEPT !.remote = NoRemote]
        \/ /\ repo.tips[ans.remote.ref] # 0
           /\ \E b : ans' = [ans EXCEPT !.remote = [ans.remote EXCEPT !.branch = b]]
        \/ asking' = "threw"
    <3>1. PICK b : b = IF HasBranchName(ans.remote.ref) THEN BranchWithin(ans.remote.ref, ans.remote.name) ELSE << >>
      OBVIOUS
    <3>2. QED
      BY <1>6, <3>1 DEF LookupRemote, Step
  <2>8. ASSUME NEW b, ans' = [ans EXCEPT !.remote = [ans.remote EXCEPT !.branch = b]]
        PROVE  ans'.remote.ref = ans.remote.ref
    <3>1. PICK r : r = [ans.remote EXCEPT !.branch = b]
      OBVIOUS
    <3>2. r.ref = ans.remote.ref
      BY <2>6, <3>1 DEF RemoteType
    <3>3. ans'.remote = r
      BY <1>1, <2>8, <3>1 DEF AnswerType
    <3>4. QED
      BY <3>2, <3>3
  <2>9. ans' = [ans EXCEPT !.remote = NoRemote] => ans'.remote = NoRemote
    BY <1>1 DEF AnswerType
  <2>10. QED
    BY <2>3, <2>4, <2>5, <2>7, <2>8, <2>9
<1>7. QED
  BY <1>3, <1>4, <1>5, <1>6

LEMMA RebaseMoments ==
  ASSUME QueriesIInv, OpenMergeDir \/ OpenApplyDir \/ ReadNext \/ ReadLast \/ RepoState
  PROVE  MomentsPart'
<1>1. /\ Fills /\ QueriesTyped /\ MomentsPart /\ StepsPart /\ RemotePart /\ PushPart
      /\ ans \in AnswerType /\ repo \in RepoType
  BY AsksFills, RepoTyped DEF QueriesIInv, QueriesTyped, Asks
<1>2. past' = past /\ Latest(past, Len(past)) /\ past[Len(past)] = repo /\ Len(past) \in DOMAIN past
  BY <1>1 DEF Fills, QueriesTyped, Latest
<1>3. asking \in {"merge dir", "apply dir", "next", "last", "state"}
  BY Moves
<1>4. SinceRemote' = SinceRemote /\ SinceRemote \subseteq DOMAIN past
  BY <1>1, <1>3, SinceStay, SinceWithin DEF Early
<1>5. SinceRemote # {}
  <2>1. SinceNext # {} => SinceRemote # {}
    BY SeenBegun DEF SinceNext
  <2>2. SinceLast # {} => SinceNext # {}
    BY SeenBegun DEF SinceLast
  <2>3. QED
    BY <1>1, <1>3, <2>1, <2>2 DEF MomentsPart
<1>6. CASE OpenMergeDir \/ OpenApplyDir
  <2>1. /\ asking \in {"merge dir", "apply dir"} /\ asking' \in {"next", "apply dir", "state"}
        /\ ans'.next = 0 /\ ans'.last = 0
    BY <1>1, <1>6, Moves DEF Fills, StepsPart
  <2>2. SinceNext' = SinceRemote' /\ SinceLast' = SinceNext'
    BY <2>1 DEF SinceNext, NextSeen, SinceLast, LastSeen
  <2>3. QED
    BY <1>4, <1>5, <2>1, <2>2 DEF MomentsPart
<1>7. CASE ReadNext
  <2>1. /\ asking = "next" /\ asking' = "last" /\ ans'.dir = ans.dir /\ ans'.next = ReadFile("next")
    BY <1>1, <1>7, Moves DEF ReadNext, Step, AnswerType
  <2>2. CASE ans'.next = 0
    <3>1. SinceNext' = SinceRemote'
      BY <2>2 DEF SinceNext, NextSeen
    <3>2. QED
      BY <1>4, <1>5, <2>1, <3>1 DEF MomentsPart
  <2>3. CASE ans'.next # 0
    <3>1. Len(past) \in {n \in DOMAIN past : past[n].rebase.dir = ans'.dir /\ past[n].rebase.next = ans'.next}
      BY <1>2, <2>1, <2>3 DEF ReadFile
    <3>2. Len(past) \in NotBefore(SinceRemote, {n \in DOMAIN past : past[n].rebase.dir = ans'.dir /\ past[n].rebase.next = ans'.next})
      BY <1>2, <1>4, <1>5, <3>1, ReadNow
    <3>3. SinceNext' # {}
      BY <1>2, <1>4, <2>3, <3>2 DEF SinceNext, NextSeen
    <3>4. QED
      BY <2>1, <3>3 DEF MomentsPart
  <2>4. QED
    BY <2>2, <2>3
<1>8. CASE ReadLast
  <2>1. /\ asking = "last" /\ asking' = "state" /\ ans'.dir = ans.dir /\ ans'.last = ReadFile("last")
    BY <1>1, <1>8, Moves DEF ReadLast, Step, AnswerType
  <2>2. SinceNext' = SinceNext /\ SinceNext \subseteq DOMAIN past /\ SinceNext # {}
    <3>1. SinceNext' = SinceNext
      BY <1>1, <2>1, SinceStay DEF Early
    <3>2. SinceNext \subseteq DOMAIN past
      BY SinceWithin
    <3>3. QED
      BY <1>1, <2>1, <3>1, <3>2 DEF MomentsPart
  <2>3. CASE ans'.last = 0
    <3>1. SinceLast' = SinceNext'
      BY <2>3 DEF SinceLast, LastSeen
    <3>2. QED
      BY <2>1, <2>2, <3>1 DEF MomentsPart
  <2>4. CASE ans'.last # 0
    <3>1. Len(past) \in {n \in DOMAIN past : past[n].rebase.dir = ans'.dir /\ past[n].rebase.last = ans'.last}
      BY <1>2, <2>1, <2>4 DEF ReadFile
    <3>2. Len(past) \in NotBefore(SinceNext, {n \in DOMAIN past : past[n].rebase.dir = ans'.dir /\ past[n].rebase.last = ans'.last})
      BY <1>2, <2>2, <3>1, ReadNow
    <3>3. SinceLast' # {}
      BY <1>2, <2>2, <2>4, <3>2 DEF SinceLast, LastSeen
    <3>4. QED
      BY <2>1, <3>3 DEF MomentsPart
  <2>5. QED
    BY <2>3, <2>4
<1>9. CASE RepoState
  <2>1. /\ asking = "state" /\ asking' = IF ans.remote = NoRemote THEN "stash" ELSE "ahead"
        /\ ans'.dir = ans.dir /\ ans'.remote = ans.remote /\ walk' = walk
        /\ ans'.ahead = ans.ahead /\ ans'.behind = ans.behind
        /\ ans'.next = IF ans.next # 0 /\ ans.last # 0 THEN ans.next ELSE 0
        /\ ans'.last = IF ans.next # 0 /\ ans.last # 0 THEN ans.last ELSE 0
    BY <1>1, <1>9 DEF RepoState, Step, AnswerType
  <2>2. SinceLast' # {}
    <3>1. CASE ans.next # 0 /\ ans.last # 0
      <4>1. SinceNext' = SinceNext
        BY <1>2, <1>4, <2>1, <3>1 DEF SinceNext
      <4>2. SinceLast' = SinceLast
        BY <1>2, <2>1, <3>1, <4>1 DEF SinceLast
      <4>3. QED
        BY <1>1, <2>1, <4>2 DEF MomentsPart
    <3>2. CASE ~(ans.next # 0 /\ ans.last # 0)
      <4>1. ans'.next = 0 /\ ans'.last = 0
        BY <2>1, <3>2
      <4>2. SinceNext' = SinceRemote' /\ SinceLast' = SinceNext'
        BY <4>1 DEF SinceNext, NextSeen, SinceLast, LastSeen
      <4>3. QED
        BY <1>4, <1>5, <4>2
    <3>3. QED
      BY <3>1, <3>2
  <2>3. CASE ans.remote = NoRemote
    <3>1. ans'.ahead = 0 /\ ans'.behind = 0 /\ ans'.remote = NoRemote /\ asking' = "stash"
      BY <1>1, <2>1, <2>3 DEF RemotePart
    <3>2. SinceCounts' = SinceLast'
      BY <3>1 DEF SinceCounts, CountsSeen
    <3>3. QED
      BY <2>2, <3>1, <3>2 DEF MomentsPart
  <2>4. CASE ans.remote # NoRemote
    <3>1. walk' = NoWalk
      BY <1>1, <2>1 DEF QueriesTyped, Counting
    <3>2. WalksAhead(past', SinceLast', ans'.remote.ref, walk')
      BY <2>2, <3>1 DEF WalksAhead, NoWalk
    <3>3. QED
      BY <2>1, <2>4, <3>2 DEF MomentsPart
  <2>5. QED
    BY <2>3, <2>4
<1>10. QED
  BY <1>6, <1>7, <1>8, <1>9

\* What is read behind a remote was begun with HEAD, the remote and the counts.
LEMMA SinceBegun ==
  /\ SinceRemote # {} => SinceHead # {}
  /\ SinceNext # {} => SinceRemote # {}
  /\ SinceLast # {} => SinceNext # {}
  /\ SinceCounts # {} => SinceLast # {}
  /\ SinceStashes # {} => SinceCounts # {}
  /\ SincePush # {} => SinceStashes # {}
  /\ SincePushCounts # {} => SincePush # {}
<1>1. SinceRemote # {} => SinceHead # {}
  BY SeenBegun DEF SinceRemote
<1>2. SinceNext # {} => SinceRemote # {}
  BY SeenBegun DEF SinceNext
<1>3. SinceLast # {} => SinceNext # {}
  BY SeenBegun DEF SinceLast
<1>4. SinceCounts # {} => SinceLast # {}
  BY SeenBegun DEF SinceCounts
<1>5. SinceStashes # {} => SinceCounts # {}
  BY SeenBegun DEF SinceStashes
<1>6. SincePush # {} => SinceStashes # {}
  BY SeenBegun DEF SincePush
<1>7. SincePushCounts # {} => SincePush # {}
  BY SeenBegun DEF SincePushCounts
<1>8. QED
  BY <1>1, <1>2, <1>3, <1>4, <1>5, <1>6, <1>7

LEMMA CountMoments ==
  ASSUME QueriesIInv, Looks
  PROVE  MomentsPart'
<1>1. /\ Fills /\ MomentsPart /\ RemotePart /\ PushPart /\ asking \in Counting /\ past' = past
      /\ ans \in AnswerType
  BY AsksFills, LooksMoves DEF QueriesIInv, QueriesTyped, Asks, Looks, Fills
<1>2. ASSUME WalkThrows PROVE MomentsPart'
  BY <1>2 DEF WalkThrows, MomentsPart
<1>3. CASE asking = "ahead"
  <2>1. /\ WalksAhead(past, SinceLast, RangeRef, walk) /\ SinceLast \subseteq DOMAIN past
        /\ RangeRef = ans.remote.ref /\ SinceLast' = SinceLast /\ ans'.remote = ans.remote
    <3>1. SinceLast' = SinceLast
      BY <1>1, <1>3, SinceStay DEF Middle, Early
    <3>2. SinceLast \subseteq DOMAIN past
      BY SinceWithin
    <3>3. QED
      BY <1>1, <1>3, <3>1, <3>2 DEF MomentsPart, RangeRef, Fills
  <2>2. \/ WalkThrows
        \/ WalkGoesOn /\ WalksAhead(past, SinceLast, RangeRef, walk')
        \/ \E n \in Counts : WalkEnds(n) /\ Len(past) \in AheadSeen(past, SinceLast, RangeRef, n)
    BY <1>3, <2>1, AheadGoesOn
  <2>3. ASSUME WalkGoesOn, WalksAhead(past, SinceLast, RangeRef, walk') PROVE MomentsPart'
    <3>1. asking' = "ahead" /\ ans' = ans
      BY <1>3, <2>3 DEF WalkGoesOn
    <3>2. WalksAhead(past', SinceLast', ans'.remote.ref, walk')
      BY <1>1, <2>1, <2>3, <3>1
    <3>3. QED
      BY <3>1, <3>2 DEF MomentsPart
  <2>4. ASSUME NEW n \in Counts, WalkEnds(n), Len(past) \in AheadSeen(past, SinceLast, RangeRef, n)
        PROVE  MomentsPart'
    <3>1. asking' = "behind" /\ walk' = NoWalk /\ ans' = [ans EXCEPT !.ahead = n]
      BY <1>3, <2>4 DEF WalkEnds, AfterCount, Counted
    <3>2. ans'.ahead = n
      BY <1>1, <3>1 DEF AnswerType
    <3>3. SinceAhead' # {}
      BY <1>1, <2>1, <2>4, <3>2 DEF SinceAhead
    <3>4. WalksBehind(past', SinceAhead', walk')
      BY <3>1, <3>3 DEF WalksBehind, NoWalk
    <3>5. QED
      BY <3>1, <3>4 DEF MomentsPart
  <2>5. QED
    BY <1>2, <2>2, <2>3, <2>4
<1>4. CASE asking = "behind"
  <2>1. /\ WalksBehind(past, SinceAhead, walk) /\ SinceAhead \subseteq DOMAIN past
        /\ RangeRef = ans.remote.ref /\ SinceAhead' = SinceAhead /\ ans'.remote = ans.remote /\ ans.remote # NoRemote
    <3>1. SinceAhead' = SinceAhead
      BY <1>1, <1>4, SinceStay DEF Middle, Early
    <3>2. SinceAhead \subseteq DOMAIN past
      BY SinceWithin
    <3>3. QED
      BY <1>1, <1>4, <3>1, <3>2 DEF MomentsPart, RemotePart, RangeRef, Fills
  <2>2. \/ WalkThrows
        \/ WalkGoesOn /\ WalksBehind(past, SinceAhead, walk')
        \/ \E n \in Counts : WalkEnds(n) /\ Len(past) \in BehindSeen(past, SinceAhead, RangeRef, n)
    BY <1>4, <2>1, BehindGoesOn
  <2>3. ASSUME WalkGoesOn, WalksBehind(past, SinceAhead, walk') PROVE MomentsPart'
    <3>1. asking' = "behind" /\ WalksBehind(past', SinceAhead', walk')
      BY <1>1, <1>4, <2>1, <2>3 DEF WalkGoesOn
    <3>2. QED
      BY <3>1 DEF MomentsPart
  <2>4. ASSUME NEW n \in Counts, WalkEnds(n), Len(past) \in BehindSeen(past, SinceAhead, RangeRef, n)
        PROVE  MomentsPart'
    <3>1. asking' = "stash" /\ ans' = [ans EXCEPT !.behind = n]
      BY <1>4, <2>4 DEF WalkEnds, AfterCount, Counted
    <3>2. ans'.behind = n
      BY <1>1, <3>1 DEF AnswerType
    <3>3. BehindSeen(past', SinceAhead', ans'.remote.ref, ans'.behind) # {}
      BY <1>1, <2>1, <2>4, <3>2
    <3>4. SinceCounts' # {}
      BY <2>1, <3>3 DEF SinceCounts, CountsSeen, SinceAhead
    <3>5. QED
      BY <3>1, <3>4 DEF MomentsPart
  <2>5. QED
    BY <1>2, <2>2, <2>3, <2>4
<1>5. CASE asking = "push ahead"
  <2>1. /\ WalksAhead(past, SincePush, RangeRef, walk) /\ SincePush \subseteq DOMAIN past
        /\ RangeRef = ans.push.ref /\ SincePush' = SincePush /\ ans'.push = ans.push
    <3>1. SincePush' = SincePush
      BY <1>1, <1>5, SinceStay
    <3>2. SincePush \subseteq DOMAIN past
      BY SinceWithin
    <3>3. QED
      BY <1>1, <1>5, <3>1, <3>2 DEF MomentsPart, RangeRef, Fills
  <2>2. \/ WalkThrows
        \/ WalkGoesOn /\ WalksAhead(past, SincePush, RangeRef, walk')
        \/ \E n \in Counts : WalkEnds(n) /\ Len(past) \in AheadSeen(past, SincePush, RangeRef, n)
    BY <1>5, <2>1, AheadGoesOn
  <2>3. ASSUME WalkGoesOn, WalksAhead(past, SincePush, RangeRef, walk') PROVE MomentsPart'
    <3>1. asking' = "push ahead" /\ ans' = ans
      BY <1>5, <2>3 DEF WalkGoesOn
    <3>2. WalksAhead(past', SincePush', ans'.push.ref, walk')
      BY <1>1, <2>1, <2>3, <3>1
    <3>3. QED
      BY <3>1, <3>2 DEF MomentsPart
  <2>4. ASSUME NEW n \in Counts, WalkEnds(n), Len(past) \in AheadSeen(past, SincePush, RangeRef, n)
        PROVE  MomentsPart'
    <3>1. asking' = "push behind" /\ walk' = NoWalk /\ ans' = [ans EXCEPT !.push_ahead = n]
      BY <1>5, <2>4 DEF WalkEnds, AfterCount, Counted
    <3>2. ans'.push_ahead = n
      BY <1>1, <3>1 DEF AnswerType
    <3>3. SincePushAhead' # {}
      BY <1>1, <2>1, <2>4, <3>2 DEF SincePushAhead
    <3>4. WalksBehind(past', SincePushAhead', walk')
      BY <3>1, <3>3 DEF WalksBehind, NoWalk
    <3>5. QED
      BY <3>1, <3>4 DEF MomentsPart
  <2>5. QED
    BY <1>2, <2>2, <2>3, <2>4
<1>6. CASE asking = "push behind"
  <2>1. /\ WalksBehind(past, SincePushAhead, walk) /\ SincePushAhead \subseteq DOMAIN past
        /\ RangeRef = ans.push.ref /\ SincePushAhead' = SincePushAhead /\ ans'.push = ans.push /\ ans.push # NoRemote
    <3>1. SincePushAhead' = SincePushAhead
      BY <1>1, <1>6, SinceStay
    <3>2. SincePushAhead \subseteq DOMAIN past
      BY SinceWithin
    <3>3. QED
      BY <1>1, <1>6, <3>1, <3>2 DEF MomentsPart, PushPart, RangeRef, Fills
  <2>2. \/ WalkThrows
        \/ WalkGoesOn /\ WalksBehind(past, SincePushAhead, walk')
        \/ \E n \in Counts : WalkEnds(n) /\ Len(past) \in BehindSeen(past, SincePushAhead, RangeRef, n)
    BY <1>6, <2>1, BehindGoesOn
  <2>3. ASSUME WalkGoesOn, WalksBehind(past, SincePushAhead, walk') PROVE MomentsPart'
    <3>1. asking' = "push behind" /\ WalksBehind(past', SincePushAhead', walk')
      BY <1>1, <1>6, <2>1, <2>3 DEF WalkGoesOn
    <3>2. QED
      BY <3>1 DEF MomentsPart
  <2>4. ASSUME NEW n \in Counts, WalkEnds(n), Len(past) \in BehindSeen(past, SincePushAhead, RangeRef, n)
        PROVE  MomentsPart'
    <3>1. asking' = "done" /\ ans' = [ans EXCEPT !.push_behind = n]
      BY <1>6, <2>4 DEF WalkEnds, AfterCount, Counted
    <3>2. ans'.push_behind = n
      BY <1>1, <3>1 DEF AnswerType
    <3>3. BehindSeen(past', SincePushAhead', ans'.push.ref, ans'.push_behind) # {}
      BY <1>1, <2>1, <2>4, <3>2
    <3>4. SincePushCounts' # {}
      BY <2>1, <3>3 DEF SincePushCounts, CountsSeen, SincePushAhead
    <3>5. QED
      BY <3>1, <3>4 DEF MomentsPart
  <2>5. QED
    BY <1>2, <2>2, <2>3, <2>4
<1>7. QED
  BY <1>1, <1>3, <1>4, <1>5, <1>6 DEF Counting

LEMMA LastMoments ==
  ASSUME QueriesIInv, NumStashes \/ PushConfig \/ LookupPush
  PROVE  MomentsPart'
<1>1. Fills /\ QueriesTyped /\ MomentsPart /\ PushPart /\ ans \in AnswerType
  BY AsksFills DEF QueriesIInv, QueriesTyped, Asks
<1>2. past' = past /\ Latest(past, Len(past)) /\ past[Len(past)] = repo /\ Len(past) \in DOMAIN past
  BY <1>1 DEF Fills, QueriesTyped, Latest
<1>3. CASE NumStashes
  <2>1. asking = "stash" /\ asking' = "push config" /\ ans'.stashes = repo.stashes
    BY <1>1, <1>3, Moves DEF NumStashes, Step, AnswerType
  <2>2. SinceCounts' = SinceCounts /\ SinceCounts \subseteq DOMAIN past /\ SinceCounts # {}
    <3>1. SinceCounts' = SinceCounts
      BY <1>1, <2>1, SinceStay DEF Middle, Early
    <3>2. SinceCounts \subseteq DOMAIN past
      BY SinceWithin
    <3>3. QED
      BY <1>1, <2>1, <3>1, <3>2 DEF MomentsPart
  <2>3. Len(past) \in {n \in DOMAIN past : past[n].stashes = ans'.stashes}
    BY <1>2, <2>1
  <2>4. Len(past) \in NotBefore(SinceCounts, {n \in DOMAIN past : past[n].stashes = ans'.stashes})
    BY <1>2, <2>2, <2>3, ReadNow
  <2>5. SinceStashes' # {}
    BY <1>2, <2>2, <2>4 DEF SinceStashes, StashesSeen
  <2>6. QED
    BY <2>1, <2>5 DEF MomentsPart
<1>4. ASSUME PushConfig \/ LookupPush
      PROVE  /\ asking \in {"push config", "push lookup"} /\ ans'.push_ahead = 0 /\ ans'.push_behind = 0
             /\ SinceStashes' = SinceStashes /\ SinceStashes \subseteq DOMAIN past /\ SinceStashes # {}
  <2>1. asking \in {"push config", "push lookup"}
    BY <1>4, Moves
  <2>2. SinceStashes' = SinceStashes
    BY <1>1, <2>1, SinceStay DEF Middle, Early
  <2>3. SinceStashes \subseteq DOMAIN past
    BY SinceWithin
  <2>4. QED
    BY <1>1, <2>1, <2>2, <2>3 DEF MomentsPart, PushPart, Fills
<1>5. ASSUME PushConfig \/ LookupPush, ans'.push = NoRemote
      PROVE  SincePushCounts' # {}
  <2>1. SincePush' = SinceStashes'
    BY <1>5 DEF SincePush, RemoteSeen
  <2>2. SincePushCounts' = SincePush'
    BY <1>4, <1>5 DEF SincePushCounts, CountsSeen
  <2>3. QED
    BY <1>4, <1>5, <2>1, <2>2
<1>6. CASE PushConfig
  <2>1. /\ asking = "push config" /\ asking' = IF ConfigOf(push_upstream) = NoUpstream THEN "done" ELSE "push lookup"
    BY <1>6 DEF PushConfig, Step
  <2>2. ConfigOf(push_upstream) = NoUpstream => ans'.push = NoRemote
    <3>1. PICK m : m = [NoRemote EXCEPT !.name = ConfigOf(push_upstream).remote, !.ref = ConfigOf(push_upstream).ref]
      OBVIOUS
    <3>2. ans'.push = m
      BY <1>1, <1>6, <3>1 DEF PushConfig, Step, AnswerType
    <3>3. push_upstream \in Configs
      BY <1>1 DEF QueriesTyped
    <3>4. ConfigOf(push_upstream) = NoUpstream => m = NoRemote
      BY <1>1, <3>1, <3>3, ConfigTyped
    <3>5. QED
      BY <3>2, <3>4
  <2>3. SinceStashes' # {}
    BY <1>4, <1>6
  <2>4. QED
    BY <1>5, <1>6, <2>1, <2>2, <2>3 DEF MomentsPart
<1>7. CASE LookupPush
  <2>1. CASE asking' = "done" /\ ans' = [ans EXCEPT !.push = NoRemote]
    <3>1. ans'.push = NoRemote
      BY <1>1, <2>1 DEF AnswerType
    <3>2. QED
      BY <1>5, <1>7, <2>1, <3>1 DEF MomentsPart
  <2>2. CASE asking' = "push ahead" /\ ans' = ans /\ repo.tips[ans.push.ref] # 0
    <3>1. Len(past) \in {n \in DOMAIN past : past[n].tips[ans'.push.ref] # 0}
      BY <1>2, <2>2
    <3>2. SinceStashes \subseteq DOMAIN past /\ SinceStashes # {} /\ SinceStashes' = SinceStashes
      BY <1>4, <1>7
    <3>3. Len(past) \in NotBefore(SinceStashes, {n \in DOMAIN past : past[n].tips[ans'.push.ref] # 0})
      BY <1>2, <3>1, <3>2, ReadNow
    <3>4. SincePush' # {}
      BY <1>2, <3>2, <3>3 DEF SincePush, RemoteSeen
    <3>5. walk' = NoWalk
      BY <1>1, <1>4, <1>7 DEF QueriesTyped, LookupPush, Step, Counting
    <3>6. WalksAhead(past', SincePush', ans'.push.ref, walk')
      BY <3>4, <3>5 DEF WalksAhead, NoWalk
    <3>7. QED
      BY <2>2, <3>6 DEF MomentsPart
  <2>3. QED
    BY <1>7, <2>1, <2>2 DEF LookupPush, Step
<1>8. QED
  BY <1>3, <1>6, <1>7

-----------------------------------------------------------------------------
\* At rest there is one moment: HEAD is where the branch of the answer is, and
\* a remote that was found is still there.
LEMMA OneMoment ==
  ASSUME QueriesTyped, Len(past) = 1
  PROVE  DOMAIN past = {1} /\ past[1] = repo
<1>1. past \in Seq(RepoType) /\ past[Len(past)] = repo
  BY DEF QueriesTyped
<1>2. QED
  BY <1>1

LEMMA RestFound ==
  ASSUME QueriesTyped, Len(past) = 1
  PROVE  /\ SinceHead # {} =>
              repo.head.ref = ans.symbolic /\ (ans.symbolic # NoRef => repo.tips[ans.symbolic] = ans.target)
         /\ SinceRemote # {} /\ ans.remote # NoRemote => repo.tips[ans.remote.ref] # 0
         /\ SincePush # {} /\ ans.push # NoRemote => repo.tips[ans.push.ref] # 0
         /\ SinceNext # {} /\ ans.next # 0 => repo.rebase.dir = ans.dir
<1>1. DOMAIN past = {1} /\ past[1] = repo
  BY OneMoment
<1>2. SinceHead # {} =>
         repo.head.ref = ans.symbolic /\ (ans.symbolic # NoRef => repo.tips[ans.symbolic] = ans.target)
  <2>1. CASE ans.symbolic = NoRef
    <3>1. ASSUME NEW n \in SinceHead PROVE repo.head.ref = ans.symbolic
      <4>1. n \in DOMAIN past /\ past[n].head = [ref |-> NoRef, commit |-> ans.target]
        BY <2>1, <3>1 DEF SinceHead, HeadSeen
      <4>2. QED
        BY <1>1, <2>1, <4>1
    <3>2. QED
      BY <2>1, <3>1
  <2>2. CASE ans.symbolic # NoRef
    BY <1>1, <2>2 DEF SinceHead, HeadSeen, NotBefore
  <2>3. QED
    BY <2>1, <2>2
<1>3. SinceRemote # {} /\ ans.remote # NoRemote => repo.tips[ans.remote.ref] # 0
  BY <1>1 DEF SinceRemote, RemoteSeen, NotBefore
<1>4. SincePush # {} /\ ans.push # NoRemote => repo.tips[ans.push.ref] # 0
  BY <1>1 DEF SincePush, RemoteSeen, NotBefore
<1>5. SinceNext # {} /\ ans.next # 0 => repo.rebase.dir = ans.dir
  BY <1>1 DEF SinceNext, NextSeen, NotBefore
<1>6. QED
  BY <1>2, <1>3, <1>4, <1>5

\* So no count throws: both ends of its range are commits.
LEMMA RestCounts ==
  ASSUME QueriesIInv, Looks, Len(past) = 1
  PROVE  ~WalkThrows
<1>1. /\ QueriesTyped /\ MomentsPart /\ RemotePart /\ PushPart /\ asking \in Counting
      /\ walk \in WalkType /\ repo \in RepoType /\ DOMAIN past = {1} /\ past[1] = repo
  BY LooksMoves, RepoTyped, OneMoment DEF QueriesIInv, QueriesTyped
<1>2. \/ asking = "ahead" /\ WalksAhead(past, SinceLast, ans.remote.ref, walk)
      \/ asking = "behind" /\ WalksBehind(past, SinceAhead, walk)
      \/ asking = "push ahead" /\ WalksAhead(past, SincePush, ans.push.ref, walk)
      \/ asking = "push behind" /\ WalksBehind(past, SincePushAhead, walk)
  BY <1>1 DEF MomentsPart, Counting
<1>3. SinceAhead # {} => SinceLast # {}
  BY SeenBegun DEF SinceAhead
<1>4. SincePushAhead # {} => SincePush # {}
  BY SeenBegun DEF SincePushAhead
<1>5. /\ asking \in {"ahead", "behind"} => SinceLast # {}
      /\ asking \in {"push ahead", "push behind"} => SincePush # {}
  <2>1. asking = "ahead" => SinceLast # {}
    BY <1>2, SeenBegun
  <2>2. asking = "behind" => SinceLast # {}
    BY <1>2, <1>3, SeenBegun
  <2>3. asking = "push ahead" => SincePush # {}
    BY <1>2, SeenBegun
  <2>4. asking = "push behind" => SincePush # {}
    BY <1>2, <1>4, SeenBegun
  <2>5. QED
    BY <2>1, <2>2, <2>3, <2>4
<1>6. SinceHead # {} /\ repo.tips[RangeRef] # 0
  <2>1. CASE asking \in {"ahead", "behind"}
    <3>1. SinceRemote # {} /\ SinceHead # {} /\ ans.remote # NoRemote
      BY <1>1, <1>5, <2>1, SinceBegun DEF RemotePart
    <3>2. repo.tips[ans.remote.ref] # 0
      BY <1>1, <3>1, RestFound
    <3>3. QED
      BY <2>1, <3>1, <3>2 DEF RangeRef
  <2>2. CASE asking \in {"push ahead", "push behind"}
    <3>1. SincePush # {} /\ SinceHead # {} /\ ans.push # NoRemote
      BY <1>1, <1>5, <2>2, SinceBegun DEF PushPart
    <3>2. repo.tips[ans.push.ref] # 0
      BY <1>1, <3>1, RestFound
    <3>3. QED
      BY <2>2, <3>1, <3>2 DEF RangeRef
  <2>3. QED
    BY <1>1, <2>1, <2>2 DEF Counting
<1>7. IsBranch(ans.symbolic) /\ ans.target # 0
  <2>1. asking \in {"ahead", "behind"} => ans.remote # NoRemote /\ RemoteRight(upstream, ans.remote)
    BY <1>1 DEF RemotePart, Ended
  <2>2. asking \in {"push ahead", "push behind"} => ans.push # NoRemote /\ RemoteRight(push_upstream, ans.push)
    BY <1>1 DEF PushPart, Pushing
  <2>3. QED
    BY <1>1, <2>1, <2>2 DEF RemoteRight, Counting
<1>8. repo.head.ref = ans.symbolic /\ ans.symbolic # NoRef /\ repo.tips[ans.symbolic] # 0
  BY <1>1, <1>6, <1>7, RestFound DEF IsBranch
<1>9. walk.via # NoRef => walk.via = repo.head.ref
  BY <1>1, <1>2 DEF WalksAhead, WalksBehind
<1>10. CASE LookupRef
  <2>1. repo.tips[RangeRef] \in GitCommits \cup {0} /\ EndFound(repo.tips[RangeRef])
    BY <1>1, <1>10, RangeTyped DEF LookupRef, RepoType
  <2>2. QED
    BY <1>1, <1>6, <2>1 DEF EndFound, WalkThrows, AfterCount, Counting
<1>11. CASE LookupHeadAgain
  BY <1>1, <1>8, <1>11 DEF LookupHeadAgain, WalkThrows, Counting
<1>12. CASE FollowHead
  <2>1. EndFound(repo.tips[walk.via]) /\ repo.tips[walk.via] # 0
    BY <1>8, <1>9, <1>12 DEF FollowHead
  <2>2. QED
    BY <1>1, <2>1 DEF EndFound, WalkThrows, AfterCount, Counting
<1>13. QED
  BY <1>10, <1>11, <1>12 DEF Looks

LEMMA RestKept ==
  ASSUME QueriesIInv, Asks
  PROVE  RestPart'
<1>1. Fills /\ QueriesTyped /\ ans \in AnswerType
  BY AsksFills DEF QueriesIInv, QueriesTyped
<1>2. past' = past /\ repo' = repo /\ upstream' = upstream
  BY <1>1 DEF Fills
<1> SUFFICES ASSUME Len(past) = 1
             PROVE  /\ asking' = "left" => repo.head.ref = NoRef /\ repo.head.commit = 0
                    /\ asking' = "threw" =>
                          /\ HasBranchName(upstream[repo.head.ref].ref)
                          /\ ~IsStrictPrefix(<<upstream[repo.head.ref].ref[1]>> \o upstream[repo.head.ref].remote,
                                             upstream[repo.head.ref].ref)
                    /\ asking' \in {"ahead", "behind", "stash"} \cup Pushing => ans'.action = Action(repo)
  BY <1>2 DEF RestPart, Action
<1>3. CASE LookupHead
  BY <1>3 DEF LookupHead, Step, Pushing
<1>4. CASE LookupRemote
  <2> DEFINE r == ans.remote
  <2>1. /\ asking = "lookup" /\ asking' \in {"merge dir", "threw"} /\ r # NoRemote /\ RemoteRight(upstream, r)
        /\ r \in RemoteType /\ r.ref \in GitRefs
    BY <1>1, <1>4, Moves DEF QueriesIInv, RemotePart, Ended, AnswerType
  <2>2. CASE asking' = "threw"
    <3>1. HasBranchName(r.ref) /\ ~IsStrictPrefix(r.name, Tail(r.ref))
      BY <1>4, <2>2 DEF LookupRemote, Step
    <3>2. repo.head.ref = ans.symbolic
      <4>1. SinceHead # {}
        BY <2>1 DEF QueriesIInv, MomentsPart
      <4>2. QED
        BY <1>1, <4>1, RestFound
    <3>3. upstream[repo.head.ref].remote = r.name /\ upstream[repo.head.ref].ref = r.ref
      <4>1. upstream[repo.head.ref] = [remote |-> r.name, ref |-> r.ref]
        BY <2>1, <3>2 DEF RemoteRight
      <4>2. QED
        BY <4>1
    <3>4. r.ref \in Seq(STRING) /\ r.ref # << >> /\ r.name \in Seq(STRING)
      <4>1. Here \in Seq(STRING)
        BY DEF Here
      <4>2. r.name \in Remotes \cup {Here}
        BY <2>1 DEF RemoteType
      <4>3. QED
        BY <2>1, <4>1, <4>2, QueriesAssumption DEF NoRef
    <3>5. r.ref[1] \in STRING /\ Tail(r.ref) \in Seq(STRING) /\ r.ref = <<r.ref[1]>> \o Tail(r.ref)
      BY <3>4, FirstAndRest
    <3>6. ~IsStrictPrefix(<<r.ref[1]>> \o r.name, r.ref)
      BY <3>1, <3>4, <3>5, PrefixBehindFirst
    <3>7. QED
      BY <2>2, <3>1, <3>3, <3>6 DEF Pushing
  <2>3. QED
    BY <2>1, <2>2 DEF Pushing
<1>5. CASE ResolveHead \/ RemoteConfig \/ OpenMergeDir \/ OpenApplyDir \/ ReadNext \/ ReadLast
  <2>1. asking' \in {"config", "merge dir", "lookup", "next", "apply dir", "last", "state"}
    BY <1>5, Moves
  <2>2. QED
    BY <2>1 DEF Pushing
<1>6. CASE RepoState
  <2>1. asking' \in {"stash", "ahead"} /\ ans'.action = Action(repo)
    BY <1>1, <1>6 DEF RepoState, Step, AnswerType
  <2>2. QED
    BY <2>1 DEF Pushing
<1>7. CASE Looks \/ NumStashes \/ PushConfig \/ LookupPush
  <2>1. /\ asking \in {"ahead", "behind", "stash"} \cup Pushing
        /\ asking' \in {"ahead", "behind", "stash"} \cup Pushing
    <3>1. CASE Looks
      <4>1. asking \in Counting /\ asking' # "threw"
        <5>1. asking' = "threw" => WalkThrows
          BY <3>1, LooksIs, LooksMoves DEF WalkGoesOn, WalkEnds, AfterCount, Counting
        <5>2. QED
          BY <3>1, <5>1, RestCounts, LooksMoves
      <4>2. QED
        BY <3>1, <4>1, LooksMoves DEF Counting, Pushing
    <3>2. CASE ~Looks
      BY <1>7, <3>2, Moves DEF Pushing
    <3>3. QED
      BY <3>1, <3>2
  <2>2. ans'.action = Action(repo)
    <3>1. ans'.action = ans.action
      BY <1>1, <2>1 DEF Fills, Pushing
    <3>2. QED
      BY <2>1, <3>1 DEF QueriesIInv, RestPart
  <2>3. QED
    BY <2>1, <2>2 DEF Pushing
<1>8. QED
  BY <1>3, <1>4, <1>5, <1>6, <1>7 DEF Asks, Looks

LEMMA QueriesStepKeeps ==
  ASSUME QueriesIInv, [QueriesNext]_queryVars
  PROVE  QueriesIInv'
<1>1. CASE Asks
  <2>1. MomentsPart'
    BY <1>1, FirstMoments, RebaseMoments, CountMoments, LastMoments DEF Asks, Looks
  <2>2. QED
    BY <1>1, <2>1, AnswerTyped, RemoteKept, PushKept, StepsKept, RestKept DEF QueriesIInv
<1>2. CASE UNCHANGED queryVars
  <2>1. UNCHANGED <<repo, upstream, push_upstream, asking, walk, ans, past>>
    BY <1>2 DEF queryVars
  <2>2. QueriesTyped'
    BY <2>1 DEF QueriesIInv, QueriesTyped
  <2>3. RemotePart'
    BY <2>1 DEF QueriesIInv, RemotePart, RemoteRight, BranchRight, LocalBranchName
  <2>4. PushPart'
    BY <2>1 DEF QueriesIInv, PushPart, RemoteRight
  <2>5. StepsPart' /\ RestPart'
    BY <2>1 DEF QueriesIInv, StepsPart, RestPart, Action
  <2>6. MomentsPart'
    BY <2>1, MomentsGrow DEF QueriesIInv, Extends
  <2>7. QED
    BY <2>2, <2>3, <2>4, <2>5, <2>6 DEF QueriesIInv
<1>3. QED
  BY <1>1, <1>2, GitKeeps DEF QueriesNext

\* The inductive invariant of the queries: the answer so far was read at moments
\* that do not go back, and at rest all of it is so.
THEOREM QueriesInvariant == QueriesSpec => []QueriesIInv
BY QueriesInitHolds, QueriesStepKeeps, PTL DEF QueriesSpec

\* While HEAD, its commit and the reference of a remote rest, whatever moments
\* the ends of a range were read at, they were those of the answer.
LEMMA CountsOfRest ==
  ASSUME NEW S, NEW remote, NEW ahead, NEW behind, past \in Seq(RepoType), SinceHead # {},
         IsBranch(ans.symbolic), remote # NoRemote, Rests(remote.ref),
         CountsSeen(past, S, remote, ahead, behind) # {}
  PROVE  /\ ahead = OnlyIn(ans.target, past[1].tips[remote.ref])
         /\ behind = OnlyIn(past[1].tips[remote.ref], ans.target)
<1>1. ans.symbolic # NoRef
  BY DEF IsBranch
<1>2. ASSUME NEW i \in DOMAIN past, NEW j \in DOMAIN past
      PROVE  HeadAt(past, i, j) = HeadAt(past, 1, 1)
  <2>1. HeadAt(past, i, j) = HeadAt(past, 1, j)
    BY <1>2 DEF Rests, HeadAt
  <2>2. QED
    BY <1>2, <2>1 DEF Rests
<1>3. HeadAt(past, 1, 1) = ans.target
  <2>1. PICK m, n \in DOMAIN past : past[m].head.ref = ans.symbolic /\ past[n].tips[ans.symbolic] = ans.target
    BY <1>1 DEF SinceHead, HeadSeen, NotBefore
  <2>2. HeadAt(past, m, n) = ans.target
    BY <1>1, <2>1 DEF HeadAt
  <2>3. QED
    BY <1>2, <2>1, <2>2
<1>4. ASSUME NEW k \in DOMAIN past PROVE past[k].tips[remote.ref] = past[1].tips[remote.ref]
  BY <1>4 DEF Rests
<1>5. BehindSeen(past, AheadSeen(past, S, remote.ref, ahead), remote.ref, behind) # {}
  BY DEF CountsSeen
<1>6. AheadSeen(past, S, remote.ref, ahead) # {}
  BY <1>5, SeenBegun
<1>7. ahead = OnlyIn(ans.target, past[1].tips[remote.ref])
  <2>1. PICK i, j, k \in DOMAIN past : ahead = OnlyIn(HeadAt(past, j, k), past[i].tips[remote.ref])
    BY <1>6 DEF AheadSeen
  <2>2. HeadAt(past, j, k) = ans.target /\ past[i].tips[remote.ref] = past[1].tips[remote.ref]
    BY <1>2, <1>3, <1>4, <2>1
  <2>3. QED
    BY <2>1, <2>2
<1>8. behind = OnlyIn(past[1].tips[remote.ref], ans.target)
  <2>1. PICK i, j, k \in DOMAIN past : behind = OnlyIn(past[k].tips[remote.ref], HeadAt(past, i, j))
    BY <1>5 DEF BehindSeen
  <2>2. HeadAt(past, i, j) = ans.target /\ past[k].tips[remote.ref] = past[1].tips[remote.ref]
    BY <1>2, <1>3, <1>4, <2>1
  <2>3. QED
    BY <2>1, <2>2
<1>9. QED
  BY <1>7, <1>8

LEMMA QueriesIInvExact == QueriesIInv => QueriesExact
<1> SUFFICES ASSUME QueriesIInv PROVE QueriesExact
  OBVIOUS
<1>1. /\ QueriesTyped /\ RemotePart /\ PushPart /\ StepsPart /\ MomentsPart /\ RestPart
      /\ ans \in AnswerType /\ past \in Seq(RepoType)
  BY DEF QueriesIInv, QueriesTyped
<1>2. asking = "done" =>
         /\ SincePushCounts # {} /\ SinceCounts # {} /\ SinceNext # {} /\ SinceHead # {}
         /\ BranchRight(ans.remote) /\ RemoteRight(upstream, ans.remote) /\ RemoteRight(push_upstream, ans.push)
  <2>1. asking = "done" => SincePushCounts # {}
    BY <1>1 DEF MomentsPart
  <2>2. asking = "done" =>
           BranchRight(ans.remote) /\ RemoteRight(upstream, ans.remote) /\ RemoteRight(push_upstream, ans.push)
    BY <1>1 DEF RemotePart, PushPart, Pushing, Ended
  <2>3. QED
    BY <2>1, <2>2, SinceBegun
<1>3. asking = "done" /\ ans.local # << >> => ans.symbolic = <<"heads">> \o ans.local
  <2>1. SUFFICES ASSUME asking = "done", ans.local # << >> PROVE ans.symbolic = <<"heads">> \o ans.local
    OBVIOUS
  <2>2. ans.local = LocalBranchName
    BY <1>1, <2>1 DEF RemotePart, Ended
  <2>3. IsBranch(ans.symbolic) /\ ans.local = Tail(ans.symbolic)
    BY <2>1, <2>2 DEF LocalBranchName
  <2>4. ans.symbolic \in Seq(STRING) /\ ans.symbolic # << >> /\ ans.symbolic[1] = "heads"
    BY <1>1, <2>3, QueriesAssumption DEF IsBranch, AnswerType, NoRef
  <2>5. ans.symbolic = <<ans.symbolic[1]>> \o Tail(ans.symbolic)
    BY <2>4, FirstAndRest
  <2>6. QED
    BY <2>3, <2>4, <2>5
<1>4. asking = "done" => ((ans.next = 0) = (ans.last = 0))
  BY <1>1 DEF StepsPart, Pushing
<1>5. asking = "done" => CountsRight(ans.remote, ans.ahead, ans.behind)
  <2>1. SUFFICES ASSUME asking = "done", ans.remote # NoRemote, Rests(ans.remote.ref)
                 PROVE  CountsRight(ans.remote, ans.ahead, ans.behind)
    BY DEF CountsRight
  <2>2. CountsSeen(past, SinceLast, ans.remote, ans.ahead, ans.behind) # {} /\ IsBranch(ans.symbolic)
    BY <1>2, <2>1 DEF SinceCounts, RemoteRight
  <2>3. /\ ans.ahead = OnlyIn(ans.target, past[1].tips[ans.remote.ref])
        /\ ans.behind = OnlyIn(past[1].tips[ans.remote.ref], ans.target)
    BY <1>1, <1>2, <2>1, <2>2, CountsOfRest
  <2>4. QED
    BY <2>3 DEF CountsRight
<1>6. asking = "done" => CountsRight(ans.push, ans.push_ahead, ans.push_behind)
  <2>1. SUFFICES ASSUME asking = "done", ans.push # NoRemote, Rests(ans.push.ref)
                 PROVE  CountsRight(ans.push, ans.push_ahead, ans.push_behind)
    BY DEF CountsRight
  <2>2. CountsSeen(past, SincePush, ans.push, ans.push_ahead, ans.push_behind) # {} /\ IsBranch(ans.symbolic)
    BY <1>2, <2>1 DEF SincePushCounts, RemoteRight
  <2>3. /\ ans.push_ahead = OnlyIn(ans.target, past[1].tips[ans.push.ref])
        /\ ans.push_behind = OnlyIn(past[1].tips[ans.push.ref], ans.target)
    BY <1>1, <1>2, <2>1, <2>2, CountsOfRest
  <2>4. QED
    BY <2>3 DEF CountsRight
<1>7. ASSUME Len(past) = 1 PROVE AtRest
  <2>1. asking = "done" /\ ans.next # 0 => ans.action # "none"
    <3>1. SUFFICES ASSUME asking = "done", ans.next # 0 PROVE ans.action # "none"
      OBVIOUS
    <3>2. repo.rebase.dir = ans.dir /\ ans.dir # "none"
      BY <1>1, <1>2, <1>7, <3>1, RestFound DEF StepsPart
    <3>3. ans.action = Action(repo)
      BY <1>1, <1>7, <3>1 DEF RestPart, Pushing
    <3>4. QED
      BY <3>2, <3>3 DEF Action
  <2>2. QED
    BY <1>1, <1>7, <2>1 DEF AtRest, RestPart
<1>8. QED
  BY <1>2, <1>3, <1>4, <1>5, <1>6, <1>7 DEF QueriesExact

\* Whatever git writes between two reads, an answer is what reads in the order
\* of the request found, no one of them earlier than the one before; its remotes
\* are those of its branch; while HEAD and the references rest its counts are of
\* its commit; and a request that git leaves alone is answered if it can be: for
\* any history, references, remotes and number of changes.
THEOREM QueriesAlwaysExact == QueriesSpec => []QueriesExact
BY QueriesInvariant, QueriesIInvExact, PTL

-----------------------------------------------------------------------------
(***************************************************************************)
(* The tags of packed-refs and of refs/tags.                               *)
(***************************************************************************)
Line == [ref : TagNames \cup Heads, oid : Objects, peeled : BOOLEAN]
Known == [name : TagNames, id : Commits]

\* What ParsePack makes of the first n lines of the file ls.
TagOf(line) == [name |-> line.ref, id |-> Peel[line.oid]]
TagsUpTo(ls, n) == {TagOf(ls[k]) : k \in {k \in 1..n : ls[k].ref \in TagNames}}

\* pack-refs names a reference once, and peels what is no commit.
WrittenByGit(ls) ==
    /\ ls \in Seq(Line)
    /\ \A j, k \in 1..Len(ls) : ls[j].ref = ls[k].ref => j = k
    /\ \A k \in 1..Len(ls) : ls[k].peeled <=> ls[k].oid \notin Commits

SortedById(s) == \A j, k \in 1..Len(s) : j < k => s[j].id <= s[k].id
SortedByName(s) == \A j, k \in 1..Len(s) : j < k => s[j].name < s[k].name

RefsTypes ==
    /\ phase \in {"file", "parse", "threw", "parsed", "found"}
    /\ WrittenByGit(lines)
    /\ nth \in 1..Len(lines) + 1
    /\ name2id_ \in Seq(Known) /\ id2name_ \in Seq(Known)
    /\ \E S \in SUBSET TagNames : refs \in [S -> LooseFiles]

\* The two lists have the tags of the lines that have been read, and once they
\* are read, each has its order.
InOrder ==
    /\ phase = "file" => nth = 1 /\ name2id_ = << >> /\ id2name_ = << >>
    /\ phase = "parse" =>
          /\ first_line = "header" /\ id2name_ = name2id_
          /\ Range(name2id_) = TagsUpTo(lines, nth - 1)
    /\ phase = "threw" => ending.last # "whole"
    /\ phase \in {"parsed", "found"} =>
          /\ Range(name2id_) = IF first_line = "header" THEN TagsUpTo(lines, Len(lines)) ELSE {}
          /\ Range(id2name_) = Range(name2id_)
          /\ SortedByName(name2id_) /\ SortedById(id2name_)

FoundRight == phase = "found" /\ Plain => res = LastTag

RefsIInv == RefsTypes /\ InOrder /\ FoundRight

-----------------------------------------------------------------------------
LEMMA SmallestNat ==
    ASSUME NEW T, T \subseteq Nat, T # {}
    PROVE  \E x \in T : \A y \in T : x <= y
<1>1. PICK x \in T : \A y \in T : ~(<<y, x>> \in OpToRel(<, Nat))
  BY NatLessThanWellFounded, WFMin
<1>2. \A y \in T : y < x => <<y, x>> \in OpToRel(<, Nat)
  BY DEF OpToRel
<1>3. \A y \in T : ~(y < x)
  BY <1>1, <1>2, Zenon
<1> QED BY <1>3

\* What holds at 0, and at i + 1 whenever at i, holds up to n.
LEMMA UpTo ==
    ASSUME NEW n \in Nat, NEW G, 0 \in G, \A i \in 0..n - 1 : i \in G => i + 1 \in G
    PROVE  0..n \subseteq G
<1> SUFFICES ASSUME (0..n) \ G # {} PROVE FALSE
  OBVIOUS
<1>1. (0..n) \ G \subseteq Nat
  OBVIOUS
<1>2. \E i \in (0..n) \ G : \A j \in (0..n) \ G : i <= j
  BY <1>1, SmallestNat
<1>3. PICK i \in (0..n) \ G : \A j \in (0..n) \ G : i <= j
  BY <1>2
<1>4. i \in 0..n /\ i # 0 /\ i \notin G
  OBVIOUS
<1>5. i - 1 \in 0..n - 1 /\ ~(i <= i - 1) /\ i - 1 + 1 = i /\ i - 1 \in 0..n
  BY <1>4
<1>6. i - 1 \in G
  BY <1>3, <1>5
<1> QED BY <1>4, <1>5, <1>6

\* The greatest of a finite set of numbers.
LEMMA MaxIs ==
    ASSUME NEW S, S \subseteq Nat, NEW m \in S, \A x \in S : x <= m
    PROVE  Max(S) = m
<1>1. \E x \in S : \A y \in S : x >= y
  OBVIOUS
<1>2. Max(S) \in S /\ \A y \in S : Max(S) >= y
  BY <1>1 DEF Max
<1>3. Max(S) \in Nat /\ m \in Nat /\ Max(S) >= m /\ Max(S) <= m
  BY <1>2
<1> QED BY <1>3

LEMMA HasGreatest ==
    ASSUME NEW S, IsFiniteSet(S), S \subseteq Nat, S # {}
    PROVE  \E m \in S : \A x \in S : x <= m
<1> DEFINE NoGreatest(A) == A # {} /\ ~\E m \in A : \A x \in A : x <= m
           Sizes == {Cardinality(A) : A \in {A \in SUBSET S : NoGreatest(A)}}
<1>1. \A A \in SUBSET S : IsFiniteSet(A) /\ Cardinality(A) \in Nat
  BY FS_Subset, FS_CardinalityType
<1>2. SUFFICES ASSUME NoGreatest(S) PROVE FALSE
  OBVIOUS
<1>3. Sizes \subseteq Nat /\ Sizes # {}
  BY <1>1, <1>2
<1>4. \E n \in Sizes : \A k \in Sizes : n <= k
  BY <1>3, SmallestNat
<1>5. PICK A \in SUBSET S : NoGreatest(A) /\ \A k \in Sizes : Cardinality(A) <= k
  BY <1>4
<1>6. PICK x \in A : TRUE
  BY <1>5
<1>7. IsFiniteSet(A) /\ Cardinality(A) \in Nat
  BY <1>1
<1>8. Cardinality(A \ {x}) = Cardinality(A) - 1
  BY <1>6, <1>7, FS_RemoveElement
<1>9. ~NoGreatest(A \ {x})
  <2> SUFFICES ASSUME NoGreatest(A \ {x}) PROVE FALSE
    OBVIOUS
  <2>1. A \ {x} \in {B \in SUBSET S : NoGreatest(B)}
    OBVIOUS
  <2>2. Cardinality(A \ {x}) \in Sizes
    BY <2>1
  <2>3. Cardinality(A) <= Cardinality(A) - 1
    BY <1>5, <1>8, <2>2
  <2> QED BY <1>7, <2>3
<1>10. CASE A \ {x} = {}
  <2>1. \A y \in A : y = x
    BY <1>10
  <2>2. x \in Nat
    OBVIOUS
  <2> QED BY <1>5, <2>1, <2>2
<1>11. CASE A \ {x} # {}
  <2>1. PICK m \in A \ {x} : \A y \in A \ {x} : y <= m
    BY <1>9, <1>11
  <2>2. m \in Nat /\ x \in Nat /\ A \subseteq Nat
    OBVIOUS
  <2>3. CASE x <= m
    <3>1. \A y \in A : y <= m
      BY <2>1, <2>3
    <3> QED BY <1>5, <3>1
  <2>4. CASE ~(x <= m)
    <3>1. \A y \in A : y <= x
      BY <2>1, <2>2, <2>4
    <3> QED BY <1>5, <3>1
  <2> QED BY <2>3, <2>4
<1> QED BY <1>10, <1>11

\* The greatest of two greatest ones.
LEMMA MaxOfTwo ==
    ASSUME NEW A, NEW B, A \subseteq Nat, B \subseteq Nat, IsFiniteSet(A), IsFiniteSet(B)
    PROVE  Max({Max({0} \cup A), Max({0} \cup B)}) = Max({0} \cup A \cup B)
<1>1. /\ IsFiniteSet({0} \cup A) /\ {0} \cup A \subseteq Nat /\ {0} \cup A # {}
      /\ IsFiniteSet({0} \cup B) /\ {0} \cup B \subseteq Nat /\ {0} \cup B # {}
  <2>1. IsFiniteSet(A \cup {0}) /\ IsFiniteSet(B \cup {0})
    BY FS_AddElement
  <2>2. A \cup {0} = {0} \cup A /\ B \cup {0} = {0} \cup B
    OBVIOUS
  <2> QED BY <2>1, <2>2
<1>2. PICK m \in {0} \cup A : \A x \in {0} \cup A : x <= m
  BY <1>1, HasGreatest
<1>3. PICK n \in {0} \cup B : \A x \in {0} \cup B : x <= n
  BY <1>1, HasGreatest
<1>4. Max({0} \cup A) = m
  BY <1>1, <1>2, MaxIs
<1>5. Max({0} \cup B) = n
  BY <1>1, <1>3, MaxIs
<1>6. m \in Nat /\ n \in Nat
  OBVIOUS
<1>7. \E k \in {m, n} : m <= k /\ n <= k
  BY <1>6
<1>8. PICK k \in {m, n} : m <= k /\ n <= k
  BY <1>7
<1>9. Max({m, n}) = k
  <2>1. {m, n} \subseteq Nat /\ \A x \in {m, n} : x <= k
    BY <1>6, <1>8
  <2> QED BY <2>1, MaxIs
<1>10. Max({0} \cup A \cup B) = k
  <2>1. {0} \cup A \cup B \subseteq Nat /\ k \in {0} \cup A \cup B
    OBVIOUS
  <2>2. \A x \in {0} \cup A \cup B : x <= k
    <3> TAKE x \in {0} \cup A \cup B
    <3>1. x <= m \/ x <= n
      BY <1>2, <1>3
    <3>2. x \in Nat /\ k \in Nat
      OBVIOUS
    <3> QED BY <1>6, <1>8, <3>1, <3>2
  <2> QED BY <2>1, <2>2, MaxIs
<1> QED BY <1>4, <1>5, <1>9, <1>10

\* A set of places that has with each the ones in front of it.
IsPrefixSet(D, n) == D \subseteq 1..n /\ \A k \in D : \A j \in 1..k : j \in D

LEMMA FirstOnes ==
    ASSUME NEW n \in Nat, NEW D, IsPrefixSet(D, n)
    PROVE  D = 1..Cardinality(D)
<1> USE DEF IsPrefixSet
<1>1. CASE D = {}
  BY <1>1, FS_EmptySet
<1>2. CASE D # {}
  <2>1. IsFiniteSet(D) /\ D \subseteq Nat
    <3>1. IsFiniteSet(1..n) /\ D \in SUBSET (1..n)
      BY FS_Interval
    <3>2. IsFiniteSet(D)
      BY <3>1, FS_Subset
    <3> QED BY <3>2
  <2>2. PICK m \in D : \A x \in D : x <= m
    BY <1>2, <2>1, HasGreatest
  <2>3. m \in 1..n
    OBVIOUS
  <2>a. \A j \in 1..m : j \in D
    OBVIOUS
  <2>b. \A j \in D : j \in 1..m
    BY <2>1, <2>2, <2>3
  <2>d. D = 1..m
    BY <2>a, <2>b, Zenon
  <2>c. D = 1..m /\ m \in Int /\ m >= 1
    BY <2>d, <2>3
  <2>4. Cardinality(1..m) = m
    BY <2>c, FS_Interval
  <2> QED BY <2>c, <2>4
<1> QED BY <1>1, <1>2

\* Repeating f, starting at x.
Repeats(g, S, f, x, n) ==
    g \in [0..n -> S] /\ g[0] = x /\ \A i \in 1..n : g[i] = f[g[i - 1]]

LEMMA Repeated ==
    ASSUME NEW S, NEW f \in [S -> S], NEW x \in S, NEW n \in Nat
    PROVE  \E g : Repeats(g, S, f, x, n)
<1> USE DEF Repeats
<1> DEFINE Is(g, k) == g[0] = x /\ \A i \in 1..k : g[i] = f[g[i - 1]]
           G == {k \in 0..n : \E g \in [0..k -> S] : Is(g, k)}
<1>1. 0 \in G
  <2> DEFINE g == [i \in 0..0 |-> x]
  <2>1. g \in [0..0 -> S]
    OBVIOUS
  <2>2. \A i \in 0..0 : i = 0
    OBVIOUS
  <2>3. Is(g, 0)
    BY <2>2
  <2> HIDE DEF g
  <2> QED BY <2>1, <2>3
<1>2. ASSUME NEW k \in 0..n - 1, k \in G
      PROVE  k + 1 \in G
  <2>1. PICK g \in [0..k -> S] : Is(g, k)
    BY <1>2
  <2> DEFINE h == [i \in 0..k + 1 |-> IF i = 0 THEN x ELSE f[g[i - 1]]]
  <2>2. \A i \in 0..k + 1 : i = 0 \/ i - 1 \in 0..k
    OBVIOUS
  <2>3. h \in [0..k + 1 -> S]
    BY <2>2
  <2>4. \A i \in 0..k : h[i] = g[i]
    <3>1. \A i \in 0..k : i \in 0..k + 1
      OBVIOUS
    <3>2. \A i \in 0..k : g[i] = IF i = 0 THEN x ELSE f[g[i - 1]]
      BY <2>1
    <3> QED BY <3>1, <3>2
  <2>5. Is(h, k + 1)
    <3>1. \A i \in 1..k + 1 : h[i] = f[g[i - 1]] /\ i - 1 \in 0..k
      OBVIOUS
    <3>2. h[0] = x
      OBVIOUS
    <3> HIDE DEF h
    <3> QED BY <2>4, <3>1, <3>2
  <2>6. k + 1 \in 0..n
    OBVIOUS
  <2> HIDE DEF h
  <2>7. \E e \in [0..k + 1 -> S] : Is(e, k + 1)
    BY <2>3, <2>5
  <2> QED BY <2>6, <2>7
<1>3. 0..n \subseteq G
  <2> HIDE DEF G
  <2> QED BY <1>1, <1>2, UpTo
<1> QED BY <1>3

-----------------------------------------------------------------------------
(***************************************************************************)
(* What an object peels to.                                                *)
(***************************************************************************)
LEMMA ObjectFacts ==
    /\ Objects \subseteq Nat /\ 0 \notin Objects /\ Commits \subseteq Objects
    /\ \A o \in Objects : o \notin Commits <=> o \in DOMAIN TagTarget
    /\ \A o \in DOMAIN TagTarget : TagTarget[o] \in Objects
    /\ Wanted \in Commits /\ kMaxDerefCount \in Nat
    /\ Cardinality(Objects) \in Nat /\ IsFiniteSet(TagNames)
    /\ TagNames \subseteq Nat \ {0} /\ TagNames \cap Heads = {}
<1>1. Cardinality(Objects) \in Nat
  BY TagRefsAssumption, FS_CardinalityType
<1> QED BY <1>1, TagRefsAssumption DEF Objects

\* Tags lead to no circle, so that the recursion ends.
LEMMA PeelExists ==
    \E F : F = [o \in Objects |-> IF o \in Commits THEN o ELSE F[TagTarget[o]]]
<1> DEFINE n == Cardinality(Objects)
<1>0. n \in Nat
  BY ObjectFacts
<1>1. PICK height \in [Objects -> 0..n] :
         \A o \in DOMAIN TagTarget : height[TagTarget[o]] < height[o]
  BY TagRefsAssumption DEF EndsWithin
<1> DEFINE Low(k) == {o \in Objects : height[o] < k}
           Is(F, k) == F = [o \in Low(k) |-> IF o \in Commits THEN o ELSE F[TagTarget[o]]]
           G == {k \in 0..n + 1 : \E F : Is(F, k)}
<1> HIDE DEF n
<1>2. 0 \in G
  <2>1. Low(0) = {}
    BY <1>0
  <2> DEFINE E == [o \in {} |-> 0]
  <2>2. Is(E, 0)
    BY <2>1
  <2> HIDE DEF E
  <2>3. \E F : Is(F, 0)
    BY <2>2
  <2> QED BY <1>0, <2>3
<1>3. ASSUME NEW k \in 0..(n + 1) - 1, k \in G
      PROVE  k + 1 \in G
  <2>1. PICK F : Is(F, k)
    BY <1>3
  <2>2. \A o \in Low(k) : F[o] = IF o \in Commits THEN o ELSE F[TagTarget[o]]
    BY <2>1
  <2> DEFINE H == [o \in Low(k + 1) |-> IF o \in Commits THEN o ELSE F[TagTarget[o]]]
  <2>3. ASSUME NEW o \in Low(k + 1), o \notin Commits
        PROVE  TagTarget[o] \in Low(k) /\ TagTarget[o] \in Low(k + 1)
    <3>1. o \in DOMAIN TagTarget /\ o \in Objects /\ TagTarget[o] \in Objects
      BY <2>3, ObjectFacts
    <3>2. height[TagTarget[o]] < height[o] /\ height[o] < k + 1
      BY <1>1, <3>1
    <3>3. height[o] \in Nat /\ height[TagTarget[o]] \in Nat /\ k \in Nat
      BY <1>0, <3>1
    <3> QED BY <3>1, <3>2, <3>3
  <2>4. \A o \in Low(k + 1) : o \notin Commits => H[TagTarget[o]] = F[TagTarget[o]]
    <3> SUFFICES ASSUME NEW o \in Low(k + 1), o \notin Commits
                 PROVE  H[TagTarget[o]] = F[TagTarget[o]]
      OBVIOUS
    <3> DEFINE u == TagTarget[o]
    <3>1. u \in Low(k) /\ u \in Low(k + 1)
      BY <2>3
    <3> HIDE DEF u
    <3>2. H[u] = F[u]
      BY <2>2, <3>1
    <3> QED BY <3>2 DEF u
  <2>5. Is(H, k + 1)
    BY <2>4
  <2> HIDE DEF H
  <2>6. \E f : Is(f, k + 1)
    BY <2>5
  <2>7. k + 1 \in 0..n + 1
    BY <1>0
  <2> QED BY <2>6, <2>7
<1>4. 0..n + 1 \subseteq G
  <2> HIDE DEF G
  <2>1. n + 1 \in Nat
    BY <1>0
  <2> QED BY <1>2, <1>3, <2>1, UpTo
<1>5. n + 1 \in G
  BY <1>0, <1>4
<1>6. Low(n + 1) = Objects
  BY <1>0
<1>7. PICK F : Is(F, n + 1)
  BY <1>5
<1> QED BY <1>6, <1>7

LEMMA PeelIs ==
    \A o \in Objects : Peel[o] = IF o \in Commits THEN o ELSE Peel[TagTarget[o]]
<1>1. Peel = [o \in Objects |-> IF o \in Commits THEN o ELSE Peel[TagTarget[o]]]
  BY PeelExists DEF Peel
<1> QED BY <1>1

LEMMA PeelType == \A o \in Objects : Peel[o] \in Commits
<1> DEFINE n == Cardinality(Objects)
<1>0. n \in Nat
  BY ObjectFacts
<1>1. PICK height \in [Objects -> 0..n] :
         \A o \in DOMAIN TagTarget : height[TagTarget[o]] < height[o]
  BY TagRefsAssumption DEF EndsWithin
<1> DEFINE Bad == {o \in Objects : Peel[o] \notin Commits}
           Heights == {height[o] : o \in Bad}
<1> HIDE DEF n
<1>2. SUFFICES ASSUME Bad # {} PROVE FALSE
  OBVIOUS
<1>3. Heights \subseteq Nat /\ Heights # {}
  BY <1>0, <1>2
<1>4. \E x \in Heights : \A y \in Heights : x <= y
  BY <1>3, SmallestNat
<1>5. PICK o \in Bad : \A p \in Bad : height[o] <= height[p]
  BY <1>4
<1>6. o \in Objects /\ o \notin Commits /\ Peel[o] = Peel[TagTarget[o]]
  BY PeelIs
<1>7. o \in DOMAIN TagTarget /\ TagTarget[o] \in Objects
  BY <1>6, ObjectFacts
<1>8. TagTarget[o] \in Bad
  BY <1>6, <1>7
<1>9. height[TagTarget[o]] < height[o] /\ height[TagTarget[o]] \in Int /\ height[o] \in Int
  BY <1>0, <1>1, <1>7
<1>10. height[o] <= height[TagTarget[o]]
  BY <1>5, <1>8
<1> QED BY <1>9, <1>10

\* The object after o, or 0.
NextTarget == [o \in Objects \cup {0} |-> IF o \in DOMAIN TagTarget THEN TagTarget[o] ELSE 0]

\* The loop of TagHasTarget comes past the commit that o peels to.
LEMMA PointsToIs ==
    ASSUME NEW o \in Objects, EndsWithin(kMaxDerefCount)
    PROVE  (o = Wanted \/ PointsTo(o)) <=> Peel[o] = Wanted
<1> DEFINE n == kMaxDerefCount
           S == Objects \cup {0}
<1>0. n \in Nat
  BY ObjectFacts
<1> DEFINE Is(g) == g = [i \in 0..n |-> IF i = 0 THEN o
                            ELSE IF g[i - 1] \in DOMAIN TagTarget THEN TagTarget[g[i - 1]] ELSE 0]
<1>1. \E g : Is(g)
  <2>1. NextTarget \in [S -> S] /\ o \in S
    BY ObjectFacts DEF NextTarget
  <2>2. \E g \in [0..n -> S] : g[0] = o /\ \A i \in 1..n : g[i] = NextTarget[g[i - 1]]
    <3> HIDE DEF S, n
    <3>1. \E g : Repeats(g, S, NextTarget, o, n)
      BY <1>0, <2>1, Repeated
    <3> QED BY <3>1 DEF Repeats
  <2>3. PICK g \in [0..n -> S] : g[0] = o /\ \A i \in 1..n : g[i] = NextTarget[g[i - 1]]
    BY <2>2
  <2>4. \A i \in 0..n : i # 0 => g[i - 1] \in S
    BY <1>0
  <2>5. \A i \in 0..n : i # 0 =>
           NextTarget[g[i - 1]] = IF g[i - 1] \in DOMAIN TagTarget THEN TagTarget[g[i - 1]] ELSE 0
    BY <2>4 DEF NextTarget
  <2>6. Is(g)
    BY <2>3, <2>5
  <2> QED BY <2>6
<1> DEFINE at_ == CHOOSE g : Is(g)
<1>2. Is(at_)
  BY <1>1
<1>3. PointsTo(o) <=> \E i \in 1..n : at_[i] = Wanted
  BY DEF PointsTo
<1>4. at_[0] = o /\ \A i \in 1..n : at_[i] = IF at_[i - 1] \in DOMAIN TagTarget THEN TagTarget[at_[i - 1]] ELSE 0
  <2>1. 0 \in 0..n /\ \A i \in 1..n : i \in 0..n /\ i # 0
    BY <1>0
  <2> HIDE DEF at_
  <2>2. at_ = [i \in 0..n |-> IF i = 0 THEN o
                 ELSE IF at_[i - 1] \in DOMAIN TagTarget THEN TagTarget[at_[i - 1]] ELSE 0]
    BY <1>2
  <2> HIDE DEF n
  <2> QED BY <2>1, <2>2
<1> HIDE DEF at_, Is
<1>5. \A i \in 0..n : at_[i] \in Objects => Peel[at_[i]] = Peel[o]
  <2> DEFINE G == {i \in 0..n : at_[i] \in Objects => Peel[at_[i]] = Peel[o]}
  <2>1. 0 \in G
    BY <1>0, <1>4
  <2>2. ASSUME NEW i \in 0..n - 1, i \in G
        PROVE  i + 1 \in G
    <3>1. i + 1 \in 1..n /\ i + 1 - 1 = i /\ i + 1 \in 0..n
      BY <1>0
    <3> DEFINE p == at_[i]
               q == at_[i + 1]
    <3>2. q = IF p \in DOMAIN TagTarget THEN TagTarget[p] ELSE 0
      BY <1>4, <3>1
    <3>3. p \in Objects => Peel[p] = Peel[o]
      BY <2>2
    <3>4. q \in Objects => Peel[q] = Peel[o]
      <4> HIDE DEF p, q
      <4> SUFFICES ASSUME q \in Objects PROVE Peel[q] = Peel[o]
        OBVIOUS
      <4>1. p \in DOMAIN TagTarget /\ q = TagTarget[p]
        BY <3>2, ObjectFacts
      <4>2. p \in Objects /\ p \notin Commits
        BY <4>1, TagRefsAssumption DEF Objects
      <4> QED BY <3>3, <4>1, <4>2, PeelIs
    <3> QED BY <3>1, <3>4
  <2>3. 0..n \subseteq G
    <3> HIDE DEF G
    <3> QED BY <1>0, <2>1, <2>2, UpTo
  <2> QED BY <2>3
<1>6. ASSUME o = Wanted \/ PointsTo(o)
      PROVE  Peel[o] = Wanted
  <2>1. PICK i \in 0..n : at_[i] = Wanted
    BY <1>0, <1>3, <1>4, <1>6
  <2>2. Wanted \in Commits /\ Wanted \in Objects
    BY ObjectFacts
  <2> QED BY <1>5, <2>1, <2>2, PeelIs
<1>7. \E i \in 0..n : at_[i] \in Commits
  <2> SUFFICES ASSUME \A i \in 0..n : at_[i] \notin Commits PROVE FALSE
    OBVIOUS
  <2>1. PICK height \in [Objects -> 0..n] :
           \A p \in DOMAIN TagTarget : height[TagTarget[p]] < height[p]
    BY DEF EndsWithin
  <2> DEFINE G == {i \in 0..n : at_[i] \in DOMAIN TagTarget /\ height[at_[i]] + i <= n}
  <2>2. \A p \in DOMAIN TagTarget : p \in Objects /\ TagTarget[p] \in Objects
    BY ObjectFacts DEF Objects
  <2>3. 0 \in G
    <3>1. 0 \in 0..n /\ at_[0] = o /\ o \notin Commits
      BY <1>0, <1>4
    <3>2. o \in DOMAIN TagTarget
      BY <3>1, ObjectFacts
    <3> QED BY <1>0, <3>1, <3>2
  <2>4. ASSUME NEW i \in 0..n - 1, i \in G
        PROVE  i + 1 \in G
    <3>1. i + 1 \in 1..n /\ i + 1 - 1 = i /\ i + 1 \in 0..n
      BY <1>0
    <3> DEFINE p == at_[i]
               q == at_[i + 1]
    <3>2. p \in DOMAIN TagTarget /\ height[p] + i <= n
      BY <2>4
    <3>3. q = TagTarget[p] /\ q \notin Commits
      BY <1>4, <3>1, <3>2
    <3>4. q \in DOMAIN TagTarget /\ height[q] + (i + 1) <= n
      <4> HIDE DEF p, q
      <4>1. q \in Objects /\ p \in Objects
        BY <2>2, <3>2, <3>3
      <4>2. q \in DOMAIN TagTarget
        BY <3>3, <4>1, ObjectFacts
      <4>3. height[q] < height[p]
        BY <2>1, <3>2, <3>3
      <4>4. height[q] \in Int /\ height[p] \in Int /\ i \in Int
        BY <1>0, <4>1
      <4> QED BY <1>0, <3>2, <4>2, <4>3, <4>4
    <3> QED BY <3>1, <3>4
  <2>5. 0..n \subseteq G
    <3> HIDE DEF G
    <3> QED BY <1>0, <2>3, <2>4, UpTo
  <2>6. n \in G
    BY <1>0, <2>5
  <2> DEFINE p == at_[n]
  <2>7. p \in DOMAIN TagTarget /\ height[p] + n <= n
    BY <2>6
  <2> HIDE DEF p
  <2>8. height[TagTarget[p]] < height[p] /\ height[TagTarget[p]] \in 0..n /\ height[p] \in 0..n
    BY <2>1, <2>2, <2>7
  <2> QED BY <1>0, <2>7, <2>8
<1>8. ASSUME Peel[o] = Wanted
      PROVE  o = Wanted \/ PointsTo(o)
  <2>1. PICK i \in 0..n : at_[i] \in Commits
    BY <1>7
  <2>2. at_[i] \in Objects
    BY <2>1, ObjectFacts
  <2>3. at_[i] = Wanted
    BY <1>5, <1>8, <2>1, <2>2, PeelIs
  <2>4. CASE i = 0
    BY <1>4, <2>3, <2>4
  <2>5. CASE i # 0
    <3>1. i \in 1..n
      BY <1>0, <2>5
    <3> QED BY <1>3, <2>3, <3>1
  <2> QED BY <2>4, <2>5
<1> QED BY <1>6, <1>8

-----------------------------------------------------------------------------
(***************************************************************************)
(* What TagForCommit finds.                                                *)
(***************************************************************************)
PlainRefs(l) ==
    \A n \in DOMAIN l : n \in TagNames /\ n \notin Nested /\ l[n].target \in Objects /\ l[n].symbolic = FALSE

\* The loose tags of the commit, and the packed ones they do not hide.
LooseTags(l) == {n \in DOMAIN l : Peel[l[n].target] = Wanted}
PackedTags(l, ls) ==
    {ls[k].ref : k \in {k \in 1..Len(ls) :
        ls[k].ref \in TagNames /\ ls[k].ref \notin DOMAIN l /\ Peel[ls[k].oid] = Wanted}}

\* No reference is followed.
LEMMA Stays ==
    ASSUME NEW n \in Nat, NEW to, NEW x, to[0] = x,
           \A i \in 1..n : to[i - 1] = x => to[i] = x
    PROVE  to[n] = x
<1> DEFINE G == {i \in 0..n : to[i] = x}
<1>1. 0 \in G
  OBVIOUS
<1>2. ASSUME NEW i \in 0..n - 1, i \in G
      PROVE  i + 1 \in G
  <2>1. i + 1 \in 1..n /\ i + 1 - 1 = i /\ i + 1 \in 0..n /\ to[i] = x
    BY <1>2
  <2> QED BY <2>1
<1>3. 0..n \subseteq G
  <2> HIDE DEF G
  <2> QED BY <1>1, <1>2, UpTo
<1>4. n \in G
  BY <1>3
<1> QED BY <1>4

LEMMA DerefIs ==
    ASSUME NEW l, NEW ref, ref.symbolic = FALSE
    PROVE  Deref(l, ref) = ref
<1> DEFINE n == kMaxDerefCount
           Is(g) == g = [i \in 0..n |-> IF i = 0 THEN ref
                            ELSE IF g[i - 1].symbolic
                                 THEN RefLookup(l, RefName(g[i - 1])) ELSE g[i - 1]]
           to == CHOOSE g : Is(g)
<1>0. n \in Nat
  BY ObjectFacts
<1>1. \E g : Is(g)
  <2> DEFINE g == [i \in 0..n |-> ref]
  <2>1. \A i \in 0..n : i # 0 => i - 1 \in 0..n
    BY <1>0
  <2>2. \A i \in 0..n : i # 0 => g[i - 1] = ref
    BY <2>1
  <2>3. Is(g)
    BY <2>2
  <2> HIDE DEF g
  <2> QED BY <2>3
<1>2. Is(to)
  BY <1>1
<1>3. Deref(l, ref) = to[n]
  BY DEF Deref
<1> HIDE DEF to
<1>4. 0 \in 0..n /\ n \in 0..n /\ \A i \in 1..n : i \in 0..n /\ i # 0
  BY <1>0
<1>5. to[0] = ref
  BY <1>2, <1>4
<1>6. \A i \in 1..n : to[i - 1] = ref => to[i] = ref
  <2> SUFFICES ASSUME NEW i \in 1..n, to[i - 1] = ref
               PROVE  to[i] = ref
    OBVIOUS
  <2>1. to[i] = IF to[i - 1].symbolic
                THEN RefLookup(l, RefName(to[i - 1])) ELSE to[i - 1]
    BY <1>2, <1>4
  <2> QED BY <2>1
<1>7. to[n] = ref
  <2> HIDE DEF n, Is
  <2> QED BY <1>0, <1>5, <1>6, Stays
<1> QED BY <1>3, <1>7

LEMMA TagHasTargetIs ==
    ASSUME NEW l, PlainRefs(l), EndsWithin(kMaxDerefCount), NEW n \in DOMAIN l
    PROVE  TagHasTarget(l, n) <=> Peel[l[n].target] = Wanted
<1> DEFINE ref == RefLookup(l, n)
<1>1. l[n].target \in Objects /\ l[n].symbolic = FALSE
  BY DEF PlainRefs
<1>2. ref.symbolic = FALSE /\ ref.target = l[n].target
  BY <1>1 DEF RefLookup
<1>3. Deref(l, ref) = ref
  <2> HIDE DEF ref
  <2> QED BY <1>2, DerefIs
<1>4. TagHasTarget(l, n) <=> (l[n].target = Wanted \/ PointsTo(l[n].target))
  BY <1>2, <1>3 DEF TagHasTarget
<1> QED BY <1>1, <1>4, PointsToIs

LEMMA LooseTagsAre ==
    ASSUME NEW l, PlainRefs(l) PROVE loose_tags_(l) = DOMAIN l
BY DEF PlainRefs, loose_tags_

LEMMA LooseFoundIs ==
    ASSUME NEW l, PlainRefs(l), EndsWithin(kMaxDerefCount)
    PROVE  LooseFound(l) = Max({0} \cup LooseTags(l))
<1>1. {n \in loose_tags_(l) : TagHasTarget(l, n)} = LooseTags(l)
  BY LooseTagsAre, TagHasTargetIs DEF LooseTags
<1> QED BY <1>1 DEF LooseFound

LEMMA LeadsIs ==
    ASSUME NEW l, PlainRefs(l), NEW n
    PROVE  Leads(l, n) <=>
             IF n \in DOMAIN l THEN Peel[l[n].target] = Wanted
             ELSE \E k \in DOMAIN lines : lines[k].ref = n /\ Peel[lines[k].oid] = Wanted
<1> DEFINE c == Cardinality(TagNames)
           Is(g) == g = [i \in 0..c |-> IF i = 0 THEN n
                            ELSE IF g[i - 1] \in DOMAIN l /\ l[g[i - 1]].symbolic
                                 THEN l[g[i - 1]].target ELSE g[i - 1]]
           to == CHOOSE g : Is(g)
<1>0. c \in Nat
  BY ObjectFacts, FS_CardinalityType
<1>1. ~(n \in DOMAIN l /\ l[n].symbolic)
  BY DEF PlainRefs
<1>2. \E g : Is(g)
  <2> DEFINE g == [i \in 0..c |-> n]
  <2>1. \A i \in 0..c : i # 0 => i - 1 \in 0..c
    BY <1>0
  <2>2. \A i \in 0..c : i # 0 => g[i - 1] = n
    BY <2>1
  <2>3. Is(g)
    BY <1>1, <2>2
  <2> HIDE DEF g
  <2> QED BY <2>3
<1>3. Is(to)
  BY <1>2
<1>4. Leads(l, n) <=>
        IF to[c] \in DOMAIN l THEN ~l[to[c]].symbolic /\ Peel[l[to[c]].target] = Wanted
        ELSE \E k \in DOMAIN lines : lines[k].ref = to[c] /\ Peel[lines[k].oid] = Wanted
  BY DEF Leads
<1> HIDE DEF to
<1>5. 0 \in 0..c /\ \A i \in 1..c : i \in 0..c /\ i # 0
  BY <1>0
<1>6. to[0] = n
  BY <1>3, <1>5
<1>7. \A i \in 1..c : to[i - 1] = n => to[i] = n
  <2> SUFFICES ASSUME NEW i \in 1..c, to[i - 1] = n
               PROVE  to[i] = n
    OBVIOUS
  <2>1. to[i] = IF to[i - 1] \in DOMAIN l /\ l[to[i - 1]].symbolic
                THEN l[to[i - 1]].target ELSE to[i - 1]
    BY <1>3, <1>5
  <2> QED BY <1>1, <2>1
<1>8. to[c] = n
  <2> HIDE DEF c, Is
  <2> QED BY <1>0, <1>6, <1>7, Stays
<1> QED BY <1>1, <1>4, <1>8

\* The places of s with a tag of the commit that no loose one hides.
Fits(l, s) == {k \in 1..Len(s) : s[k].id = Wanted /\ s[k].name \notin DOMAIN l}

LEMMA InRange ==
    ASSUME NEW S, NEW s \in Seq(S), NEW x
    PROVE  x \in Range(s) <=> \E k \in 1..Len(s) : s[k] = x
BY DEF Range

LEMMA WrittenFacts ==
    ASSUME NEW ls, WrittenByGit(ls), NEW k \in 1..Len(ls)
    PROVE  /\ ls[k].ref \in TagNames \cup Heads /\ ls[k].oid \in Objects
           /\ Peel[ls[k].oid] \in Commits
<1>1. ls[k] \in Line
  BY DEF WrittenByGit
<1> QED BY <1>1, PeelType DEF Line

\* A list with the tags of the file has those of the commit.
LEMMA NamesFit ==
    ASSUME NEW l, NEW ls, WrittenByGit(ls), NEW s \in Seq(Known), Range(s) = TagsUpTo(ls, Len(ls))
    PROVE  {s[k].name : k \in Fits(l, s)} = PackedTags(l, ls)
<1>1. ASSUME NEW k \in Fits(l, s)
      PROVE  s[k].name \in PackedTags(l, ls)
  <2>1. k \in 1..Len(s) /\ s[k].id = Wanted /\ s[k].name \notin DOMAIN l
    BY DEF Fits
  <2>2. s[k] \in TagsUpTo(ls, Len(ls))
    BY <2>1, InRange
  <2>3. PICK j \in 1..Len(ls) : ls[j].ref \in TagNames /\ s[k] = TagOf(ls[j])
    BY <2>2 DEF TagsUpTo
  <2>4. s[k].name = ls[j].ref /\ s[k].id = Peel[ls[j].oid]
    BY <2>3 DEF TagOf
  <2> QED BY <2>1, <2>3, <2>4 DEF PackedTags
<1>2. ASSUME NEW j \in 1..Len(ls), ls[j].ref \in TagNames, ls[j].ref \notin DOMAIN l, Peel[ls[j].oid] = Wanted
      PROVE  \E k \in Fits(l, s) : s[k].name = ls[j].ref
  <2>1. TagOf(ls[j]) \in Range(s)
    BY <1>2 DEF TagsUpTo
  <2>2. PICK k \in 1..Len(s) : s[k] = TagOf(ls[j])
    BY <2>1, InRange
  <2>3. s[k].name = ls[j].ref /\ s[k].id = Wanted
    BY <1>2, <2>2 DEF TagOf
  <2> QED BY <1>2, <2>3 DEF Fits
<1>3. PackedTags(l, ls) \subseteq {s[k].name : k \in Fits(l, s)}
  <2> SUFFICES ASSUME NEW x \in PackedTags(l, ls)
               PROVE  \E k \in Fits(l, s) : s[k].name = x
    OBVIOUS
  <2>1. PICK j \in 1..Len(ls) : /\ x = ls[j].ref /\ ls[j].ref \in TagNames /\ ls[j].ref \notin DOMAIN l
                                /\ Peel[ls[j].oid] = Wanted
    BY DEF PackedTags
  <2> QED BY <1>2, <2>1
<1> QED BY <1>1, <1>3

LEMMA KnownFacts ==
    ASSUME NEW s \in Seq(Known), NEW k \in 1..Len(s)
    PROVE  s[k].name \in TagNames /\ s[k].name \in Nat /\ s[k].name # 0 /\ s[k].id \in Nat /\ s[k].id \in Commits
<1>1. s[k] \in Known
  OBVIOUS
<1> QED BY <1>1, ObjectFacts DEF Known

\* The last one of a list that is sorted by name.
LEMMA LastFits ==
    ASSUME NEW l, NEW s \in Seq(Known), SortedByName(s)
    PROVE  (IF Fits(l, s) = {} THEN 0 ELSE s[Max(Fits(l, s))].name) = Max({0} \cup {s[k].name : k \in Fits(l, s)})
<1> DEFINE F == Fits(l, s)
           N == {s[k].name : k \in F}
<1>1. F \subseteq 1..Len(s)
  BY DEF Fits
<1>2. {0} \cup N \subseteq Nat
  BY <1>1, KnownFacts
<1>3. CASE F = {}
  <2>1. {0} \cup N = {0}
    BY <1>3
  <2>2. Max({0}) = 0
    BY MaxIs
  <2> QED BY <1>3, <2>1, <2>2
<1>4. CASE F # {}
  <2>1. IsFiniteSet(1..Len(s)) /\ F \in SUBSET (1..Len(s))
    BY <1>1, FS_Interval
  <2>2. IsFiniteSet(F)
    BY <2>1, FS_Subset
  <2>3. F \subseteq Nat
    BY <1>1
  <2> HIDE DEF F
  <2>4. PICK m \in F : \A k \in F : k <= m
    BY <1>4, <2>2, <2>3, HasGreatest
  <2>5. Max(F) = m
    BY <2>3, <2>4, MaxIs
  <2>6. m \in 1..Len(s)
    BY <1>1
  <2> DEFINE top == s[m].name
  <2>7. top \in {0} \cup N
    OBVIOUS
  <2>8. \A k \in F : s[k].name <= top
    <3> TAKE k \in F
    <3>1. k \in 1..Len(s) /\ k <= m
      BY <1>1, <2>4
    <3>2. CASE k = m
      BY <2>6, <3>2, KnownFacts
    <3>3. CASE k # m
      <4>1. k < m
        BY <2>6, <3>1, <3>3
      <4>2. s[k].name < s[m].name
        BY <2>6, <3>1, <4>1 DEF SortedByName
      <4> QED BY <2>6, <3>1, <4>2, KnownFacts
    <3> QED BY <3>2, <3>3
  <2>9. \A x \in {0} \cup N : x <= top
    <3>1. top \in Nat
      BY <1>2, <2>7
    <3> QED BY <2>8, <3>1
  <2> HIDE DEF top, N
  <2>10. Max({0} \cup N) = top
    BY <1>2, <2>7, <2>9, MaxIs
  <2> QED BY <1>4, <2>5, <2>10 DEF top, N, F
<1> QED BY <1>3, <1>4

\* std::equal_range in a list that is sorted by id.
LEMMA EqualRange ==
    ASSUME NEW s \in Seq(Known), SortedById(s)
    PROVE  1 + Cardinality({k \in 1..Len(s) : s[k].id < Wanted})..Cardinality({k \in 1..Len(s) : s[k].id <= Wanted})
             = {k \in 1..Len(s) : s[k].id = Wanted}
<1> DEFINE A == {k \in 1..Len(s) : s[k].id < Wanted}
           B == {k \in 1..Len(s) : s[k].id <= Wanted}
<1>0. Wanted \in Nat /\ Len(s) \in Nat
  BY ObjectFacts
<1>1. \A j, k \in 1..Len(s) : j <= k => s[j].id <= s[k].id
  BY KnownFacts DEF SortedById
<1>2. \A k \in 1..Len(s) : s[k].id \in Nat
  BY KnownFacts
<1>3. A = 1..Cardinality(A)
  <2>1. \A k \in A : \A j \in 1..k : j \in A
    <3> TAKE k \in A
    <3> TAKE j \in 1..k
    <3>1. j \in 1..Len(s) /\ k \in 1..Len(s) /\ j <= k
      BY <1>0
    <3>2. s[j].id <= s[k].id /\ s[j].id \in Nat /\ s[k].id \in Nat /\ s[k].id < Wanted
      BY <1>1, <1>2, <3>1
    <3> QED BY <1>0, <3>1, <3>2
  <2>2. A \subseteq 1..Len(s) /\ Len(s) \in Nat
    BY <1>0
  <2>3. IsPrefixSet(A, Len(s))
    BY <2>1, <2>2 DEF IsPrefixSet
  <2> HIDE DEF A, B
  <2> QED BY <2>2, <2>3, FirstOnes
<1>4. B = 1..Cardinality(B)
  <2>1. \A k \in B : \A j \in 1..k : j \in B
    <3> TAKE k \in B
    <3> TAKE j \in 1..k
    <3>1. j \in 1..Len(s) /\ k \in 1..Len(s) /\ j <= k
      BY <1>0
    <3>2. s[j].id <= s[k].id /\ s[j].id \in Nat /\ s[k].id \in Nat /\ s[k].id <= Wanted
      BY <1>1, <1>2, <3>1
    <3> QED BY <1>0, <3>1, <3>2
  <2>2. B \subseteq 1..Len(s) /\ Len(s) \in Nat
    BY <1>0
  <2>3. IsPrefixSet(B, Len(s))
    BY <2>1, <2>2 DEF IsPrefixSet
  <2> HIDE DEF A, B
  <2> QED BY <2>2, <2>3, FirstOnes
<1>5. Cardinality(A) \in Nat /\ Cardinality(B) \in Nat
  <2>1. A \in SUBSET (1..Len(s)) /\ B \in SUBSET (1..Len(s))
    OBVIOUS
  <2> HIDE DEF A, B
  <2>2. IsFiniteSet(1..Len(s))
    BY <1>0, FS_Interval
  <2>3. IsFiniteSet(A) /\ IsFiniteSet(B)
    BY <2>1, <2>2, FS_Subset
  <2> QED BY <2>3, FS_CardinalityType
<1>6. \A k \in Int : k \in 1 + Cardinality(A)..Cardinality(B) <=> k \in B /\ k \notin A
  <2> HIDE DEF A, B
  <2> QED BY <1>3, <1>4, <1>5
<1>7. \A k \in 1..Len(s) : (k \in B /\ k \notin A) <=> s[k].id = Wanted
  BY <1>0, <1>2
<1>8. B \subseteq 1..Len(s) /\ 1..Len(s) \subseteq Int
  OBVIOUS
<1>9. \A k : k \in 1 + Cardinality(A)..Cardinality(B) => k \in Int
  BY <1>5
<1>10. \A k : k \in 1 + Cardinality(A)..Cardinality(B) <=> k \in {j \in 1..Len(s) : s[j].id = Wanted}
  <2> HIDE DEF A, B
  <2> QED BY <1>6, <1>7, <1>8, <1>9
<1> QED BY <1>10

LEMMA LastByNameIs ==
    ASSUME NEW l, PlainRefs(l), WrittenByGit(lines), name2id_ \in Seq(Known), SortedByName(name2id_),
           Range(name2id_) = TagsUpTo(lines, Len(lines))
    PROVE  LastByName(l) = Max({0} \cup PackedTags(l, lines))
<1>1. {k \in DOMAIN name2id_ : name2id_[k].id = Wanted /\ ~IsLooseTag(l, name2id_[k].name)} = Fits(l, name2id_)
  BY LooseTagsAre DEF Fits, IsLooseTag
<1>2. LastByName(l) = IF Fits(l, name2id_) = {} THEN 0 ELSE name2id_[Max(Fits(l, name2id_))].name
  BY <1>1 DEF LastByName
<1>3. {name2id_[k].name : k \in Fits(l, name2id_)} = PackedTags(l, lines)
  BY NamesFit
<1> QED BY <1>2, <1>3, LastFits

LEMMA AllByIdIs ==
    ASSUME NEW l, PlainRefs(l), WrittenByGit(lines), id2name_ \in Seq(Known), SortedById(id2name_),
           Range(id2name_) = TagsUpTo(lines, Len(lines))
    PROVE  AllById(l) = Max({0} \cup PackedTags(l, lines))
<1> DEFINE first == 1 + Cardinality({k \in DOMAIN id2name_ : id2name_[k].id < Wanted})
           last == Cardinality({k \in DOMAIN id2name_ : id2name_[k].id <= Wanted})
<1>1. DOMAIN id2name_ = 1..Len(id2name_)
  OBVIOUS
<1>2. first..last = {k \in 1..Len(id2name_) : id2name_[k].id = Wanted}
  BY <1>1, EqualRange
<1>3. AllById(l) = Max({0} \cup {id2name_[k].name : k \in {k \in first..last : ~IsLooseTag(l, id2name_[k].name)}})
  BY DEF AllById
<1> HIDE DEF first, last
<1>4. {k \in first..last : ~IsLooseTag(l, id2name_[k].name)} = Fits(l, id2name_)
  BY <1>2, LooseTagsAre DEF Fits, IsLooseTag
<1>5. {id2name_[k].name : k \in Fits(l, id2name_)} = PackedTags(l, lines)
  BY NamesFit
<1> QED BY <1>3, <1>4, <1>5

LEMMA TagSets ==
    ASSUME NEW l, PlainRefs(l), NEW ls, WrittenByGit(ls)
    PROVE  /\ LooseTags(l) \subseteq Nat /\ IsFiniteSet(LooseTags(l))
           /\ PackedTags(l, ls) \subseteq Nat /\ IsFiniteSet(PackedTags(l, ls))
<1>1. LooseTags(l) \in SUBSET TagNames /\ PackedTags(l, ls) \in SUBSET TagNames
  BY DEF LooseTags, PlainRefs, PackedTags
<1>2. IsFiniteSet(TagNames) /\ TagNames \subseteq Nat
  BY ObjectFacts
<1>3. IsFiniteSet(LooseTags(l)) /\ IsFiniteSet(PackedTags(l, ls))
  BY <1>1, <1>2, FS_Subset
<1> QED BY <1>1, <1>2, <1>3

\* The last tag is among the same ones.
LEMMA GitSays ==
    ASSUME NEW l, PlainRefs(l), WrittenByGit(lines)
    PROVE  {n \in GitTags(l) : Leads(l, n)} = LooseTags(l) \cup PackedTags(l, lines)
<1>1. DOMAIN lines = 1..Len(lines)
  BY DEF WrittenByGit
<1>2. \A n : n \in GitTags(l) <=>
         n \in DOMAIN l \/ \E k \in 1..Len(lines) : lines[k].ref = n /\ n \notin Heads
  BY <1>1 DEF GitTags
<1>3. \A n : n \in PackedTags(l, lines) <=>
         n \in TagNames /\ n \notin DOMAIN l /\ \E k \in 1..Len(lines) : lines[k].ref = n /\ Peel[lines[k].oid] = Wanted
  BY DEF PackedTags
<1>4. \A n : n \in LooseTags(l) <=> n \in DOMAIN l /\ Peel[l[n].target] = Wanted
  BY DEF LooseTags
<1>5. \A n : Leads(l, n) <=>
         IF n \in DOMAIN l THEN Peel[l[n].target] = Wanted
         ELSE \E k \in 1..Len(lines) : lines[k].ref = n /\ Peel[lines[k].oid] = Wanted
  BY <1>1, LeadsIs
<1>6. \A k \in 1..Len(lines) : lines[k].ref \in TagNames \/ lines[k].ref \in Heads
  BY WrittenFacts
<1>7. \A n \in TagNames : n \notin Heads
  BY ObjectFacts
<1>8. \A n : n \in GitTags(l) /\ Leads(l, n) <=> n \in LooseTags(l) \/ n \in PackedTags(l, lines)
  <2> TAKE n
  <2>1. CASE n \in DOMAIN l
    BY <1>2, <1>3, <1>4, <1>5, <2>1
  <2>2. CASE n \notin DOMAIN l
    BY <1>2, <1>3, <1>4, <1>5, <1>6, <1>7, <2>2
  <2> QED BY <2>1, <2>2
<1> QED BY <1>8

-----------------------------------------------------------------------------
(***************************************************************************)
(* The invariant.                                                          *)
(***************************************************************************)
LEMMA InitRefsIInv == RefsInit => RefsIInv
<1> SUFFICES ASSUME RefsInit PROVE RefsIInv
  OBVIOUS
<1>1. lines = << >> /\ name2id_ = << >> /\ id2name_ = << >> /\ nth = 1 /\ phase = "file" /\ refs = << >>
  BY DEF RefsInit
<1>2. WrittenByGit(lines)
  BY <1>1 DEF WrittenByGit
<1>3. refs \in [{} -> LooseFiles] /\ {} \in SUBSET TagNames
  BY <1>1
<1>4. RefsTypes
  <2>1. \E S \in SUBSET TagNames : refs \in [S -> LooseFiles]
    BY <1>3
  <2>2. nth \in 1..Len(lines) + 1
    BY <1>1
  <2> QED BY <1>1, <1>2, <2>1, <2>2 DEF RefsTypes
<1>5. InOrder
  BY <1>1 DEF InOrder
<1>6. FoundRight
  BY <1>1 DEF FoundRight
<1> QED BY <1>4, <1>5, <1>6 DEF RefsIInv

\* What a step keeps that does not look for a tag.
LEMMA NotFound ==
    ASSUME phase' # "found" PROVE FoundRight'
BY DEF FoundRight

LEMMA WriteLineKeeps ==
    ASSUME RefsIInv, NEW r \in TagNames \cup Heads, NEW o \in Objects, WriteLine(r, o)
    PROVE  RefsIInv'
<1> DEFINE l == [ref |-> r, oid |-> o, peeled |-> o \notin Commits]
<1>1. /\ phase = "file" /\ lines' = Append(lines, l)
      /\ \A k \in DOMAIN lines : lines[k].ref # r
      /\ UNCHANGED <<phase, first_line, ending, nth, name2id_, id2name_, refs, res>>
  BY DEF WriteLine
<1>2. RefsTypes /\ InOrder
  BY DEF RefsIInv
<1>3. l \in Line /\ l.ref = r /\ (l.peeled <=> l.oid \notin Commits)
  BY DEF Line
<1>4. lines \in Seq(Line)
  BY <1>2 DEF RefsTypes, WrittenByGit
<1> HIDE DEF l
<1>5. /\ lines' \in Seq(Line) /\ Len(lines') = Len(lines) + 1
      /\ \A k \in 1..Len(lines) : lines'[k] = lines[k]
      /\ lines'[Len(lines) + 1] = l
  BY <1>1, <1>3, <1>4
<1>6. Len(lines) \in Nat /\ \A k \in 1..Len(lines') : k \in 1..Len(lines) \/ k = Len(lines) + 1
  BY <1>4, <1>5
<1>7. WrittenByGit(lines')
  <2>1. \A k \in 1..Len(lines') : lines'[k].peeled <=> lines'[k].oid \notin Commits
    BY <1>2, <1>3, <1>5, <1>6 DEF RefsTypes, WrittenByGit
  <2>2. \A k \in 1..Len(lines) : lines[k].ref # r
    BY <1>1, <1>4
  <2>3. \A j, k \in 1..Len(lines') : lines'[j].ref = lines'[k].ref => j = k
    BY <1>2, <1>3, <1>5, <1>6, <2>2 DEF RefsTypes, WrittenByGit
  <2> QED BY <1>5, <2>1, <2>3 DEF WrittenByGit
<1>8. RefsTypes'
  <2>1. nth \in 1..Len(lines) + 1
    BY <1>2 DEF RefsTypes
  <2>2. nth' \in 1..Len(lines') + 1
    BY <1>1, <1>5, <1>6, <2>1
  <2> QED BY <1>1, <1>2, <1>7, <2>2 DEF RefsTypes
<1>9. InOrder'
  BY <1>1, <1>2 DEF InOrder
<1>10. FoundRight'
  BY <1>1, NotFound
<1> QED BY <1>8, <1>9, <1>10 DEF RefsIInv

LEMMA ParseHeaderKeeps ==
    ASSUME RefsIInv, ParseHeader PROVE RefsIInv'
<1>1. /\ phase = "file" /\ phase' = (IF first_line = "header" THEN "parse" ELSE "parsed")
      /\ UNCHANGED <<first_line, lines, ending, nth, name2id_, id2name_, refs, res>>
  BY DEF ParseHeader
<1>2. RefsTypes /\ InOrder
  BY DEF RefsIInv
<1>3. nth = 1 /\ name2id_ = << >> /\ id2name_ = << >>
  BY <1>1, <1>2 DEF InOrder
<1>4. RefsTypes'
  BY <1>1, <1>2 DEF RefsTypes
<1>5. Range(<< >>) = {} /\ SortedByName(<< >>) /\ SortedById(<< >>)
  BY DEF Range, SortedByName, SortedById
<1>6. TagsUpTo(lines, 1 - 1) = {}
  BY DEF TagsUpTo
<1>7. ASSUME first_line = "header" PROVE InOrder'
  <2>1. phase' = "parse" /\ first_line' = "header" /\ id2name_' = name2id_'
    BY <1>1, <1>3, <1>7
  <2>2. Range(name2id_') = TagsUpTo(lines', nth' - 1)
    BY <1>1, <1>3, <1>5, <1>6
  <2> QED BY <2>1, <2>2 DEF InOrder
<1>8. ASSUME first_line # "header" PROVE InOrder'
  <2>1. phase' = "parsed"
    BY <1>1, <1>8
  <2>2. name2id_' = << >> /\ id2name_' = << >> /\ first_line' # "header"
    BY <1>1, <1>3, <1>8
  <2>3. Range(name2id_') = {} /\ SortedByName(name2id_') /\ SortedById(id2name_')
    BY <1>5, <2>2
  <2>4. Range(id2name_') = Range(name2id_')
    BY <2>2
  <2> QED BY <2>1, <2>2, <2>3, <2>4 DEF InOrder
<1>9. FoundRight'
  BY <1>1, NotFound
<1> QED BY <1>4, <1>7, <1>8, <1>9 DEF RefsIInv

LEMMA ThrowsKeeps ==
    ASSUME RefsIInv, Throws PROVE RefsIInv'
<1>1. /\ phase = "parse" /\ ~Readable(nth)
      /\ phase' = "threw" /\ name2id_' = << >> /\ id2name_' = << >>
      /\ UNCHANGED <<first_line, lines, ending, nth, refs, res>>
  BY DEF Throws
<1>2. RefsTypes /\ InOrder
  BY DEF RefsIInv
<1>3. ending.last # "whole"
  BY <1>1 DEF Readable
<1>4. RefsTypes'
  BY <1>1, <1>2 DEF RefsTypes
<1>5. InOrder'
  BY <1>1, <1>3 DEF InOrder
<1>6. FoundRight'
  BY <1>1, NotFound
<1> QED BY <1>4, <1>5, <1>6 DEF RefsIInv

LEMMA ParseLineKeeps ==
    ASSUME RefsIInv, ParseLine PROVE RefsIInv'
<1> DEFINE l == lines[nth]
           known == [name |-> l.ref, id |-> IF l.peeled THEN Peel[l.oid] ELSE l.oid]
<1>1. /\ phase = "parse" /\ nth <= Len(lines)
      /\ name2id_' = IF l.ref \in TagNames THEN Append(name2id_, known) ELSE name2id_
      /\ id2name_' = name2id_' /\ nth' = nth + 1
      /\ UNCHANGED <<phase, first_line, lines, ending, refs, res>>
  BY DEF ParseLine, StripTag
<1>2. RefsTypes /\ InOrder
  BY DEF RefsIInv
<1>3. /\ WrittenByGit(lines) /\ name2id_ \in Seq(Known)
      /\ nth \in Nat /\ nth >= 1 /\ Len(lines) \in Nat
  BY <1>2 DEF RefsTypes, WrittenByGit
<1>4. nth \in 1..Len(lines)
  BY <1>1, <1>3
<1>5. known = TagOf(l)
  <2>1. l.oid \in Objects /\ (l.peeled <=> l.oid \notin Commits)
    BY <1>3, <1>4, WrittenFacts DEF WrittenByGit
  <2>2. (IF l.peeled THEN Peel[l.oid] ELSE l.oid) = Peel[l.oid]
    BY <2>1, PeelIs
  <2> QED BY <2>2 DEF TagOf
<1>6. l.ref \in TagNames => known \in Known
  <2>1. Peel[l.oid] \in Commits
    BY <1>3, <1>4, WrittenFacts
  <2> QED BY <1>5, <2>1 DEF TagOf, Known
<1>7. name2id_' \in Seq(Known)
  <2> HIDE DEF known
  <2> QED BY <1>1, <1>3, <1>6
<1>8. RefsTypes'
  <2>1. nth' \in 1..Len(lines') + 1
    BY <1>1, <1>3
  <2> QED BY <1>1, <1>2, <1>7, <2>1 DEF RefsTypes
<1>9. Range(name2id_') = TagsUpTo(lines, nth)
  <2>1. Range(name2id_) = TagsUpTo(lines, nth - 1)
    BY <1>1, <1>2 DEF InOrder
  <2>2. \A k : k \in 1..nth <=> k \in 1..nth - 1 \/ k = nth
    BY <1>3
  <2>3. TagsUpTo(lines, nth) = TagsUpTo(lines, nth - 1) \cup (IF l.ref \in TagNames THEN {TagOf(l)} ELSE {})
    BY <2>2 DEF TagsUpTo
  <2>4. l.ref \in TagNames => Range(Append(name2id_, known)) = Range(name2id_) \cup {known}
    <3> SUFFICES ASSUME known \in Known PROVE Range(Append(name2id_, known)) = Range(name2id_) \cup {known}
      BY <1>6
    <3> DEFINE s == Append(name2id_, known)
               n == Len(name2id_)
    <3> HIDE DEF known
    <3>1. s \in Seq(Known) /\ Len(s) = n + 1 /\ s[n + 1] = known /\ n \in Nat /\ \A k \in 1..n : s[k] = name2id_[k]
      BY <1>3
    <3> HIDE DEF s
    <3>2. \A x : x \in Range(s) <=> \E k \in 1..n + 1 : s[k] = x
      BY <3>1, InRange
    <3>3. \A x : x \in Range(name2id_) <=> \E k \in 1..n : name2id_[k] = x
      BY <1>3, InRange
    <3> HIDE DEF n
    <3>4. \A k : k \in 1..n + 1 <=> k \in 1..n \/ k = n + 1
      BY <3>1
    <3>5. \A x : x \in Range(s) <=> x \in Range(name2id_) \/ x = known
      BY <3>1, <3>2, <3>3, <3>4
    <3>6. Range(s) = Range(name2id_) \cup {known}
      BY <3>5
    <3> QED BY <3>6 DEF s
  <2> HIDE DEF known, l
  <2> QED BY <1>1, <1>5, <2>1, <2>3, <2>4
<1>10. InOrder'
  <2>1. nth' - 1 = nth /\ lines' = lines /\ phase' = "parse" /\ first_line' = first_line /\ id2name_' = name2id_'
    BY <1>1, <1>3
  <2>2. first_line = "header"
    BY <1>1, <1>2 DEF InOrder
  <2> QED BY <1>9, <2>1, <2>2 DEF InOrder
<1>11. FoundRight'
  BY <1>1, NotFound
<1> QED BY <1>8, <1>10, <1>11 DEF RefsIInv

\* Sorting loses nothing.
LEMMA SortOfTags ==
    ASSUME NEW S, IsFiniteSet(S), NEW t \in SetToSeqs(S)
    PROVE  /\ t \in Seq(S) /\ Range(t) = S
           /\ \A j, k \in 1..Len(t) : t[j] = t[k] => j = k
<1> DEFINE n == Cardinality(S)
<1>0. n \in Nat
  BY FS_CardinalityType
<1>1. t \in [1..n -> S] /\ \A j, k \in 1..n : j # k => t[j] # t[k]
  BY DEF SetToSeqs
<1>2. t \in Seq(S) /\ Len(t) = n
  BY <1>0, <1>1
<1>3. t \in Injection(1..n, S)
  BY <1>1 DEF Injection, IsInjective
<1>4. Cardinality(1..n) = n
  BY <1>0, FS_Interval
<1>5. t \in Surjection(1..n, S)
  <2> HIDE DEF n
  <2>1. IsFiniteSet(S) /\ Cardinality(S) = n
    BY DEF n
  <2> QED BY <1>3, <1>4, <2>1, FS_Injection
<1>6. \A x \in S : \E k \in 1..n : t[k] = x
  BY <1>5 DEF Surjection
<1>7. Range(t) = S
  <2>1. DOMAIN t = 1..n
    BY <1>1
  <2> QED BY <1>1, <1>6, <2>1 DEF Range
<1> QED BY <1>1, <1>2, <1>7

LEMMA TagsFinite ==
    ASSUME NEW ls, WrittenByGit(ls), NEW n \in 0..Len(ls)
    PROVE  IsFiniteSet(TagsUpTo(ls, n)) /\ TagsUpTo(ls, n) \subseteq Known
<1>0. Len(ls) \in Nat
  BY DEF WrittenByGit
<1>1. IsFiniteSet(1..n)
  BY <1>0, FS_Interval
<1>2. {k \in 1..n : ls[k].ref \in TagNames} \in SUBSET (1..n)
  OBVIOUS
<1>3. IsFiniteSet({k \in 1..n : ls[k].ref \in TagNames})
  BY <1>1, <1>2, FS_Subset
<1>4. IsFiniteSet({TagOf(ls[k]) : k \in {k \in 1..n : ls[k].ref \in TagNames}})
  <2> DEFINE D == {k \in 1..n : ls[k].ref \in TagNames}
             T == {TagOf(ls[k]) : k \in D}
             f == [k \in D |-> TagOf(ls[k])]
  <2>1. f \in Surjection(D, T)
    BY DEF Surjection
  <2> HIDE DEF D, T, f
  <2>2. IsFiniteSet(T)
    BY <1>3, <2>1, FS_Surjection DEF D
  <2> QED BY <2>2 DEF T, D
<1>5. \A k \in 1..n : ls[k].ref \in TagNames => TagOf(ls[k]) \in Known
  <2> SUFFICES ASSUME NEW k \in 1..n, ls[k].ref \in TagNames
               PROVE  TagOf(ls[k]) \in Known
    OBVIOUS
  <2>1. Peel[ls[k].oid] \in Commits
    BY <1>0, WrittenFacts
  <2> QED BY <2>1 DEF TagOf, Known
<1> QED BY <1>4, <1>5 DEF TagsUpTo

LEMMA ParseEndKeeps ==
    ASSUME RefsIInv, ParseEnd PROVE RefsIInv'
<1>1. /\ phase = "parse" /\ nth > Len(lines) /\ phase' = "parsed"
      /\ name2id_' \in SetToSeqs(Range(name2id_)) /\ id2name_' \in SetToSeqs(Range(id2name_))
      /\ \A j, k \in DOMAIN name2id_' : j < k => ~(name2id_'[k].name < name2id_'[j].name)
      /\ \A j, k \in DOMAIN id2name_' : j < k => ~(id2name_'[k].id < id2name_'[j].id)
      /\ UNCHANGED <<first_line, lines, ending, nth, refs, res>>
  BY DEF ParseEnd, ByName, ById
<1>2. RefsTypes /\ InOrder
  BY DEF RefsIInv
<1>3. WrittenByGit(lines) /\ Len(lines) \in Nat /\ nth = Len(lines) + 1
  BY <1>1, <1>2 DEF RefsTypes, WrittenByGit
<1> DEFINE S == TagsUpTo(lines, Len(lines))
<1>4. first_line = "header" /\ Range(name2id_) = S /\ Range(id2name_) = S
  BY <1>1, <1>2, <1>3 DEF InOrder
<1>5. IsFiniteSet(S) /\ S \subseteq Known
  BY <1>3, TagsFinite
<1>6. /\ name2id_' \in Seq(S) /\ Range(name2id_') = S
      /\ \A j, k \in 1..Len(name2id_') : name2id_'[j] = name2id_'[k] => j = k
      /\ id2name_' \in Seq(S) /\ Range(id2name_') = S
  <2> HIDE DEF S
  <2> QED BY <1>1, <1>4, <1>5, SortOfTags
<1>7. name2id_' \in Seq(Known) /\ id2name_' \in Seq(Known)
  <2> HIDE DEF S
  <2> QED BY <1>5, <1>6
<1>8. RefsTypes'
  BY <1>1, <1>2, <1>7 DEF RefsTypes
<1>9. SortedById(id2name_)'
  <2>1. \A k \in 1..Len(id2name_') : id2name_'[k].id \in Nat
    BY <1>7, KnownFacts
  <2>2. DOMAIN id2name_' = 1..Len(id2name_')
    BY <1>7
  <2> QED BY <1>1, <2>1, <2>2 DEF SortedById
<1>10. SortedByName(name2id_)'
  <2>1. \A k \in 1..Len(name2id_') : name2id_'[k].name \in Nat
    BY <1>7, KnownFacts
  <2>2. DOMAIN name2id_' = 1..Len(name2id_')
    BY <1>7
  <2>3. \A x, y \in S : x.name = y.name => x = y
    <3> SUFFICES ASSUME NEW x \in S, NEW y \in S, x.name = y.name
                 PROVE  x = y
      OBVIOUS
    <3>1. PICK j \in 1..Len(lines) : x = TagOf(lines[j])
      BY DEF TagsUpTo
    <3>2. PICK k \in 1..Len(lines) : y = TagOf(lines[k])
      BY DEF TagsUpTo
    <3>3. lines[j].ref = lines[k].ref
      BY <3>1, <3>2 DEF TagOf
    <3>4. j = k
      BY <1>3, <3>3 DEF WrittenByGit
    <3> QED BY <3>1, <3>2, <3>4
  <2>4. \A k \in 1..Len(name2id_') : name2id_'[k] \in S
    <3> HIDE DEF S
    <3> QED BY <1>6
  <2>5. \A j, k \in 1..Len(name2id_') : j < k => name2id_'[j].name < name2id_'[k].name
    <3> HIDE DEF S
    <3> SUFFICES ASSUME NEW j \in 1..Len(name2id_'), NEW k \in 1..Len(name2id_'), j < k
                 PROVE  name2id_'[j].name < name2id_'[k].name
      OBVIOUS
    <3>1. ~(name2id_'[k].name < name2id_'[j].name)
      BY <1>1, <2>2
    <3>2. name2id_'[j].name # name2id_'[k].name
      BY <1>6, <2>3, <2>4
    <3> QED BY <2>1, <3>1, <3>2
  <2> QED BY <2>5 DEF SortedByName
<1>11. InOrder'
  <2>1. phase' = "parsed" /\ first_line' = "header" /\ lines' = lines
    BY <1>1, <1>4
  <2>2. Range(name2id_') = TagsUpTo(lines', Len(lines')) /\ Range(id2name_') = Range(name2id_')
    BY <1>6, <2>1
  <2> QED BY <1>9, <1>10, <2>1, <2>2 DEF InOrder
<1>12. FoundRight'
  BY <1>1, NotFound
<1> QED BY <1>8, <1>11, <1>12 DEF RefsIInv

LEMMA TagForCommitKeeps ==
    ASSUME RefsIInv, NEW l \in LooseRefs, NEW dirty \in BOOLEAN, TagForCommit(l, dirty)
    PROVE  RefsIInv'
<1>1. /\ phase = "parsed" /\ phase' = "found" /\ refs' = l
      /\ res' = Max({LooseFound(l), IF dirty THEN LastByName(l) ELSE AllById(l)})
      /\ UNCHANGED <<first_line, lines, ending, nth, name2id_, id2name_>>
  BY DEF TagForCommit
<1>2. RefsTypes /\ InOrder
  BY DEF RefsIInv
<1>3. PICK S \in SUBSET TagNames : l \in [S -> LooseFiles]
  BY DEF LooseRefs
<1>4. RefsTypes'
  <2>1. \E T \in SUBSET TagNames : refs' \in [T -> LooseFiles]
    BY <1>1, <1>3
  <2> QED BY <1>1, <1>2, <2>1 DEF RefsTypes
<1>5. InOrder'
  BY <1>1, <1>2 DEF InOrder
<1>6. FoundRight'
  <2> SUFFICES ASSUME Plain' PROVE res' = LastTag'
    BY DEF FoundRight
  <2>1. first_line = "header" /\ EndsWithin(kMaxDerefCount) /\ \A n \in DOMAIN l : n \notin Nested /\ ~l[n].symbolic
    BY <1>1 DEF Plain, EndsWithin
  <2>2. PlainRefs(l)
    <3> SUFFICES ASSUME NEW n \in DOMAIN l
                 PROVE  n \in TagNames /\ n \notin Nested /\ l[n].target \in Objects /\ l[n].symbolic = FALSE
      BY DEF PlainRefs
    <3>1. n \in TagNames /\ l[n] \in LooseFiles
      BY <1>3
    <3>2. n \notin Nested /\ ~l[n].symbolic
      BY <2>1
    <3> QED BY <3>1, <3>2 DEF LooseFiles
  <2>3. /\ WrittenByGit(lines) /\ name2id_ \in Seq(Known) /\ id2name_ \in Seq(Known)
    BY <1>2 DEF RefsTypes
  <2>4. /\ Range(name2id_) = TagsUpTo(lines, Len(lines)) /\ Range(id2name_) = TagsUpTo(lines, Len(lines))
        /\ SortedByName(name2id_) /\ SortedById(id2name_)
    BY <1>1, <1>2, <2>1 DEF InOrder
  <2>5. LooseFound(l) = Max({0} \cup LooseTags(l))
    BY <2>1, <2>2, LooseFoundIs
  <2>6. LastByName(l) = Max({0} \cup PackedTags(l, lines))
    BY <2>2, <2>3, <2>4, LastByNameIs
  <2>7. AllById(l) = Max({0} \cup PackedTags(l, lines))
    BY <2>2, <2>3, <2>4, AllByIdIs
  <2>8. res' = Max({Max({0} \cup LooseTags(l)), Max({0} \cup PackedTags(l, lines))})
    BY <1>1, <2>5, <2>6, <2>7
  <2>9. res' = Max({0} \cup LooseTags(l) \cup PackedTags(l, lines))
    BY <2>2, <2>3, <2>8, TagSets, MaxOfTwo
  <2>10. LastTag' = Max({0} \cup {n \in GitTags(l) : Leads(l, n)})
    <3>1. GitTags(refs)' = GitTags(l)
      BY <1>1 DEF GitTags
    <3>2. \A n : Leads(refs, n)' <=> Leads(l, n)
      BY <1>1 DEF Leads
    <3> QED BY <3>1, <3>2 DEF LastTag
  <2>11. {0} \cup {n \in GitTags(l) : Leads(l, n)} = {0} \cup LooseTags(l) \cup PackedTags(l, lines)
    BY <2>2, <2>3, GitSays
  <2> QED BY <2>9, <2>10, <2>11
<1> QED BY <1>4, <1>5, <1>6 DEF RefsIInv

LEMMA RefsStutter ==
    ASSUME RefsIInv, UNCHANGED refsVars PROVE RefsIInv'
<1>1. UNCHANGED <<phase, first_line, lines, ending, nth, name2id_, id2name_, refs, res>>
  BY DEF refsVars
<1>2. RefsTypes' /\ InOrder'
  BY <1>1 DEF RefsIInv, RefsTypes, InOrder
<1>3. FoundRight'
  <2>1. LastTag' = LastTag
    <3>1. GitTags(refs)' = GitTags(refs)
      BY <1>1 DEF GitTags
    <3>2. \A n : Leads(refs, n)' <=> Leads(refs, n)
      BY <1>1 DEF Leads
    <3> QED BY <3>1, <3>2 DEF LastTag
  <2>2. Plain' => Plain
    BY <1>1 DEF Plain, EndsWithin
  <2> QED BY <1>1, <2>1, <2>2 DEF RefsIInv, FoundRight
<1> QED BY <1>2, <1>3 DEF RefsIInv

\* The invariant of TagRefs: what git has written, what ParsePack has made of
\* the lines up to nth, the two orders, and the tag that was found.
THEOREM RefsInvariant == RefsSpec => []RefsIInv
<1>1. RefsInit => RefsIInv
  BY InitRefsIInv
<1>2. RefsIInv /\ [RefsNext]_refsVars => RefsIInv'
  <2> SUFFICES ASSUME RefsIInv, [RefsNext]_refsVars PROVE RefsIInv'
    OBVIOUS
  <2>1. ASSUME NEW r \in TagNames \cup Heads, NEW o \in Objects, WriteLine(r, o)
        PROVE  RefsIInv'
    BY <2>1, WriteLineKeeps
  <2>2. CASE ParseHeader
    BY <2>2, ParseHeaderKeeps
  <2>3. CASE Throws
    BY <2>3, ThrowsKeeps
  <2>4. CASE ParseLine
    BY <2>4, ParseLineKeeps
  <2>5. CASE ParseEnd
    BY <2>5, ParseEndKeeps
  <2>6. ASSUME NEW l \in LooseRefs, NEW dirty \in BOOLEAN, TagForCommit(l, dirty)
        PROVE  RefsIInv'
    BY <2>6, TagForCommitKeeps
  <2>7. CASE UNCHANGED refsVars
    BY <2>7, RefsStutter
  <2> QED BY <2>1, <2>2, <2>3, <2>4, <2>5, <2>6, <2>7 DEF RefsNext
<1> QED BY <1>1, <1>2, PTL DEF RefsSpec

LEMMA RefsIInvGives == RefsIInv => TagsExact
<1> SUFFICES ASSUME RefsIInv PROVE TagsExact
  OBVIOUS
<1>1. RefsTypes /\ InOrder /\ FoundRight
  BY DEF RefsIInv
<1>2. lines \in Seq(Line) /\ name2id_ \in Seq(Known)
  BY <1>1 DEF RefsTypes, WrittenByGit
<1>3. TagsUpTo(lines, Len(lines)) = {[name |-> l.ref, id |-> Peel[l.oid]] : l \in {l \in Range(lines) : l.ref \in TagNames}}
  <2>1. Range(lines) = {lines[k] : k \in 1..Len(lines)}
    BY <1>2 DEF Range
  <2> QED BY <2>1 DEF TagsUpTo, TagOf
<1>4. ASSUME phase \in {"parsed", "found"}
      PROVE  \A j, k \in DOMAIN name2id_ : j < k => name2id_[j].name < name2id_[k].name
  <2>1. SortedByName(name2id_) /\ DOMAIN name2id_ = 1..Len(name2id_)
    BY <1>1, <1>2, <1>4 DEF InOrder
  <2> QED BY <2>1 DEF SortedByName
<1>5. PackUnderstood
  BY <1>1, <1>3, <1>4 DEF PackUnderstood, InOrder
<1> QED BY <1>1, <1>5 DEF TagsExact, FoundRight

\* Whatever the file and the loose tags are, each packed tag is known once, in
\* order, with the commit it peels to, unless the file is cut off; and the tag
\* TagForCommit finds is the last one of the commit.
THEOREM TagsAlwaysExact == RefsSpec => []TagsExact
BY RefsInvariant, RefsIInvGives, PTL
=============================================================================
