----------------------------- MODULE ShardsProofs -----------------------------
(***************************************************************************)
(* Proofs about Shards: whatever the index, each path is in exactly one    *)
(* shard.  The loop of UpdateShards keeps that true of the paths below     *)
(* last_s, and that the others are in no shard yet; the one fact about     *)
(* strings it rests on is that a path cut to the length of a directory is  *)
(* at most that directory with its '/' turned into '.' just when the path  *)
(* is below the directory (CutLemma).                                      *)
(*                                                                         *)
(* Then, that the CHECKs at the end of UpdateShards hold and that the      *)
(* loop over the candidates finds each its shard (RightInv).               *)
(***************************************************************************)
EXTENDS Shards, SequenceTheorems, WellFoundedInduction, TLAPS

LEMMA KeyFacts ==
    ASSUME insensitive \in BOOLEAN
    PROVE  /\ \A c \in Chars : Key(c) \in Nat
           /\ Key(Dot) = Dot /\ Key(Slash) = Slash /\ Slash = Dot + 1 /\ Dot \in Nat
  BY ShardsAssumption DEF Key

LEMMA StringFacts ==
    ASSUME NEW x \in String
    PROVE  Len(x) \in Nat /\ \A k \in 1..Len(x) : x[k] \in Chars
  BY ElementOfSeq, LenProperties DEF String

LEMMA LtTransitive ==
    ASSUME insensitive \in BOOLEAN, NEW x \in String, NEW y \in String, NEW z \in String,
           Lt(x, y), Lt(y, z)
    PROVE  Lt(x, z)
<1>1. PICK k \in 1..Len(y) :
         /\ \A j \in 1..(k - 1) : j <= Len(x) /\ Key(x[j]) = Key(y[j])
         /\ k <= Len(x) => Key(x[k]) < Key(y[k])
  BY DEF Lt
<1>2. PICK m \in 1..Len(z) :
         /\ \A j \in 1..(m - 1) : j <= Len(y) /\ Key(y[j]) = Key(z[j])
         /\ m <= Len(y) => Key(y[m]) < Key(z[m])
  BY DEF Lt
<1>3. /\ Len(x) \in Nat /\ Len(y) \in Nat /\ Len(z) \in Nat
      /\ \A j \in 1..Len(x) : Key(x[j]) \in Nat
      /\ \A j \in 1..Len(y) : Key(y[j]) \in Nat
      /\ \A j \in 1..Len(z) : Key(z[j]) \in Nat
  BY StringFacts, KeyFacts
<1> DEFINE Diff(n) == /\ \A j \in 1..(n - 1) : j <= Len(x) /\ Key(x[j]) = Key(z[j])
                      /\ n <= Len(x) => Key(x[n]) < Key(z[n])
<1>4. CASE k < m
  <2>1. k \in 1..Len(z) /\ k \in 1..(m - 1)
    BY <1>3, <1>4
  <2>2. \A j \in 1..(k - 1) : j \in 1..(m - 1)
    BY <1>4
  <2>3. Diff(k)
    BY <1>1, <1>2, <2>1, <2>2
  <2> QED BY <2>1, <2>3 DEF Lt
<1>5. CASE k = m
  <2>1. Diff(m)
    BY <1>1, <1>2, <1>3, <1>5
  <2> QED BY <2>1 DEF Lt
<1>6. CASE k > m
  <2>1. \A j \in 1..(m - 1) : j \in 1..(k - 1)
    BY <1>6
  <2>2. m \in 1..(k - 1) /\ m \in 1..Len(y)
    BY <1>3, <1>6
  <2>3. Diff(m)
    BY <1>1, <1>2, <2>1, <2>2
  <2> QED BY <2>3 DEF Lt
<1> QED BY <1>4, <1>5, <1>6

LEMMA SmallestNat ==
    ASSUME NEW T, T \subseteq Nat, T # {}
    PROVE  \E x \in T : \A y \in T : x <= y
<1>1. PICK x \in T : \A y \in T : ~(<<y, x>> \in OpToRel(<, Nat))
  BY NatLessThanWellFounded, WFMin
<1>2. \A y \in T : y < x => <<y, x>> \in OpToRel(<, Nat)
  BY DEF OpToRel
<1>3. \A y \in T : ~(y < x)
  BY <1>1, <1>2, Zenon
<1> QED BY <1>3

(* A path, cut to the length of the directory d, is at most d with its '/' *)
(* turned into '.', just when the path is below d: no character lies       *)
(* between the two, whether case matters or not.                           *)
LEMMA CutLemma ==
    ASSUME insensitive \in BOOLEAN, NEW path \in String, NEW d \in String,
           Len(d) > 0, d[Len(d)] = Slash
    PROVE  /\ Before(d) \in String /\ Len(Before(d)) = Len(d)
           /\ Lt(path, d) <=> ~Lt(Before(d), Leading(path, Len(d)))
           /\ Lt(Before(d), d)
<1> DEFINE n == Len(d)
           e == Before(d)
           t == Leading(path, n)
<1>1. n \in Nat /\ n > 0 /\ n \in 1..n /\ Len(path) \in Nat
  BY StringFacts
<1>0. /\ \A k \in 1..n : Key(d[k]) \in Nat
      /\ \A k \in 1..Len(path) : Key(path[k]) \in Nat
  BY StringFacts, KeyFacts
<1>2. /\ e \in String /\ Len(e) = n /\ e[n] = Dot
      /\ \A k \in 1..n : k # n => e[k] = d[k]
  BY <1>1, ExceptSeq, ShardsAssumption DEF Before, String
<1>3. /\ Len(t) \in Nat /\ Len(t) <= n /\ Len(t) <= Len(path)
      /\ Len(t) = n \/ Len(t) = Len(path)
      /\ \A k \in 1..Len(t) : t[k] = path[k]
  <2> DEFINE l == IF Len(path) < n THEN Len(path) ELSE n
  <2>1. l \in Nat /\ l <= Len(path) /\ \A k \in 1..l : path[k] \in Chars
    BY <1>1, StringFacts
  <2>2. Len(t) = (IF 1 <= l THEN l - 1 + 1 ELSE 0) /\ \A k \in 1..(l - 1 + 1) : t[k] = path[1 + k - 1]
    BY <1>1, <2>1, SubSeqProperties DEF Leading
  <2>3. Len(t) = l
    BY <2>1, <2>2
  <2>4. \A k \in 1..l : t[k] = path[k]
    BY <2>1, <2>2
  <2> QED BY <1>1, <2>3, <2>4
<1>4. /\ Key(e[n]) = Dot /\ Key(d[n]) = Dot + 1 /\ Dot \in Nat
      /\ \A k \in 1..n : Key(e[k]) \in Nat /\ (k # n => Key(e[k]) = Key(d[k]))
  BY <1>0, <1>1, <1>2, KeyFacts
<1> HIDE DEF n, e, t
<1>5. Lt(path, d) /\ Lt(e, t) => FALSE
  <2> SUFFICES ASSUME Lt(path, d), Lt(e, t) PROVE FALSE
    OBVIOUS
  <2>1. PICK k \in 1..n :
           /\ \A j \in 1..(k - 1) : j <= Len(path) /\ Key(path[j]) = Key(d[j])
           /\ k <= Len(path) => Key(path[k]) < Key(d[k])
    BY DEF Lt, n
  <2>2. PICK m \in 1..Len(t) :
           /\ \A j \in 1..(m - 1) : j <= Len(e) /\ Key(e[j]) = Key(t[j])
           /\ m <= Len(e) => Key(e[m]) < Key(t[m])
    BY DEF Lt
  <2>3. m \in 1..n /\ m \in 1..Len(path) /\ t[m] = path[m] /\ Key(e[m]) < Key(path[m])
    <3>1. m \in 1..n /\ m \in 1..Len(path) /\ t[m] = path[m] /\ m <= Len(e)
      BY <1>1, <1>2, <1>3
    <3>2. Key(e[m]) < Key(t[m])
      BY <1>1, <1>2, <1>3, <2>2
    <3> QED BY <3>1, <3>2
  <2>4. CASE k < m
    <3>1. k \in 1..(m - 1) /\ k # n /\ k \in 1..Len(t) /\ k \in 1..Len(path)
      BY <1>1, <1>3, <2>3, <2>4
    <3>2. Key(path[k]) < Key(d[k])
      BY <1>0, <1>1, <2>1, <3>1
    <3>4. Key(e[k]) = Key(path[k])
      BY <1>3, <2>2, <3>1
    <3>3. Key(e[k]) = Key(d[k]) /\ Key(d[k]) \in Nat
      BY <1>0, <1>4, <3>1
    <3> QED BY <3>2, <3>3, <3>4
  <2>5. CASE k = m
    <3>0. m <= Len(path)
      BY <1>1, <2>3
    <3>1. Key(path[m]) < Key(d[m]) /\ Key(path[m]) \in Nat
      BY <1>0, <2>1, <2>3, <2>5, <3>0
    <3>2. CASE m = n
      BY <1>4, <2>3, <3>1, <3>2
    <3>3. CASE m # n
      BY <1>0, <1>4, <2>3, <3>1, <3>3
    <3> QED BY <3>2, <3>3
  <2>6. CASE k > m
    <3>1. m \in 1..(k - 1) /\ m # n
      BY <1>1, <2>3, <2>6
    <3>2. Key(path[m]) = Key(d[m]) /\ Key(e[m]) = Key(d[m]) /\ Key(d[m]) \in Nat
      BY <1>0, <1>4, <2>1, <2>3, <3>1
    <3> QED BY <2>3, <3>2
  <2> QED BY <2>4, <2>5, <2>6, <1>1, <1>3
<1>6. ~Lt(path, d) => Lt(e, t)
  <2> SUFFICES ASSUME ~Lt(path, d) PROVE Lt(e, t)
    OBVIOUS
  <2> DEFINE D == {k \in 1..n : k > Len(path) \/ Key(path[k]) # Key(d[k])}
  <2>1. CASE D = {}
    <3>0. \A k \in 1..n : ~(k > Len(path)) /\ ~(Key(path[k]) # Key(d[k]))
      BY <2>1
    <3>1. \A k \in 1..n : k <= Len(path) /\ Key(path[k]) = Key(d[k])
      BY <1>1, <3>0
    <3>2. Len(t) = n /\ n \in 1..Len(t)
      BY <1>1, <1>3, <3>1
    <3>3. \A j \in 1..(n - 1) : j <= Len(e) /\ Key(e[j]) = Key(t[j])
      BY <1>1, <1>2, <1>3, <1>4, <3>1, <3>2
    <3>4. Key(e[n]) < Key(t[n])
      <4>1. t[n] = path[n] /\ Key(path[n]) = Key(d[n])
        BY <1>1, <1>3, <3>1, <3>2
      <4> QED BY <1>4, <4>1
    <3> QED BY <3>2, <3>3, <3>4 DEF Lt
  <2>2. CASE D # {}
    <3>1. PICK k \in D : \A j \in D : k <= j
      <4>1. D \subseteq Nat
        BY <1>1
      <4> QED BY <2>2, <4>1, SmallestNat, Zenon
    <3>2. k \in 1..n /\ \A j \in 1..(k - 1) : j <= Len(path) /\ Key(path[j]) = Key(d[j])
      BY <1>1, <3>1
    <3>3. k <= Len(path) /\ ~(Key(path[k]) < Key(d[k]))
      BY <1>1, <3>2 DEF Lt, n
    <3>4. k \in 1..Len(path) /\ Key(path[k]) > Key(d[k])
      <4>1. k > Len(path) \/ Key(path[k]) # Key(d[k])
        BY <3>1
      <4>2. k \in 1..Len(path) /\ Key(path[k]) # Key(d[k])
        BY <1>1, <3>2, <3>3, <4>1
      <4> QED BY <1>0, <3>2, <3>3, <4>2
    <3>5. k \in 1..Len(t) /\ \A j \in 1..(k - 1) : j \in 1..Len(t) /\ j # n /\ j \in 1..n
      BY <1>1, <1>3, <3>2, <3>4
    <3>6. \A j \in 1..(k - 1) : j <= Len(e) /\ Key(e[j]) = Key(t[j])
      BY <1>1, <1>2, <1>3, <1>4, <3>2, <3>5
    <3>7. Key(e[k]) < Key(t[k])
      <4>1. t[k] = path[k] /\ Key(d[k]) < Key(path[k]) /\ Key(path[k]) \in Nat /\ Key(d[k]) \in Nat
        BY <1>0, <1>3, <3>2, <3>4, <3>5
      <4>2. Key(e[k]) <= Key(d[k])
        <5>1. CASE k = n
          BY <1>4, <5>1
        <5>2. CASE k # n
          BY <1>4, <3>2, <4>1, <5>2
        <5> QED BY <5>1, <5>2
      <4>3. Key(e[k]) \in Nat
        BY <1>4, <3>2
      <4> QED BY <4>1, <4>2, <4>3
    <3> QED BY <3>5, <3>6, <3>7 DEF Lt
  <2> QED BY <2>1, <2>2
<1>7. Lt(e, d)
  <2>1. \A j \in 1..(n - 1) : j <= Len(e) /\ Key(e[j]) = Key(d[j])
    BY <1>1, <1>2, <1>4
  <2>2. n <= Len(e) /\ Key(e[n]) < Key(d[n])
    BY <1>1, <1>2, <1>4
  <2> QED BY <1>1, <2>1, <2>2 DEF Lt, n
<1> QED BY <1>2, <1>5, <1>6, <1>7 DEF n, e, t

-----------------------------------------------------------------------------
Shard == [start_s : String, end_s : String, start_i : Int, end_i : Int]

Typed ==
    /\ step \in {"idle", "loop", "cut", "scan", "scanned"}
    /\ insensitive \in BOOLEAN
    /\ index \in Seq(Paths) /\ i \in Nat /\ nshards \in Nat
    /\ last_s \in String /\ last_i \in Int
    /\ shards_ \in Seq(Shard)

\* Shard k of s is the one shard that contains path.
Only(s, k, path) == \A j \in 1..Len(s) : ShardContains(s[j], path) <=> j = k

\* In the loop, the paths below last_s have their shards.
LoopInv ==
    step = "loop" =>
       /\ i <= nshards - 1 /\ Len(index) > 0
       /\ \A path \in Paths :
             IF Lt(path, last_s) THEN \E k \in 1..Len(shards_) : Only(shards_, k, path)
             ELSE \A j \in 1..Len(shards_) : ~ShardContains(shards_[j], path)

Idle == step = "idle" => i = 0 /\ last_s = << >> /\ last_i = 0 /\ shards_ = << >>

ShardsInv == Typed /\ Idle /\ LoopInv /\ OneShardEach

LEMMA InitInv == ShardsInit => ShardsInv
<1> SUFFICES ASSUME ShardsInit PROVE ShardsInv
  OBVIOUS
<1>1. << >> \in String /\ << >> \in Seq(Shard) /\ << >> \in Seq(Paths)
  BY EmptySeq DEF String
<1>2. Typed
  <2>1. i \in Nat /\ nshards \in Nat /\ last_i \in Int
    BY DEF ShardsInit
  <2>2. step = "idle" /\ insensitive \in BOOLEAN
    BY DEF ShardsInit
  <2> QED BY <1>1, <2>1, <2>2, Zenon DEF ShardsInit, Typed
<1> QED BY <1>2 DEF ShardsInit, ShardsInv, Idle, LoopInv, OneShardEach, Cuts

\* The order of strings, and who contains what, depend on the state only by
\* whether case matters.
LEMMA SameOrder ==
    ASSUME insensitive' = insensitive
    PROVE  /\ \A x, y : Lt(x, y)' <=> Lt(x, y)
           /\ \A sh, path : ShardContains(sh, path)' <=> ShardContains(sh, path)
<1>1. \A x, y : Lt(x, y)' <=> Lt(x, y)
  BY DEF Lt, Key
<1>2. \A sh, path : ShardContains(sh, path)' <=> ShardContains(sh, path)
  BY <1>1 DEF ShardContains, Leading
<1> QED BY <1>1, <1>2

\* Nothing after the cut changes the shards.
LEMMA StayCut ==
    ASSUME ShardsInv, UNCHANGED <<insensitive, shards_>>, Cuts
    PROVE  OneShardEach'
<1>1. \A path \in Paths : \E k \in 1..Len(shards_) : Only(shards_, k, path)
  BY DEF ShardsInv, OneShardEach, Only
<1>2. \A path \in Paths : \E k \in 1..Len(shards_) :
         \A j \in 1..Len(shards_) : ShardContains(shards_[j], path)' <=> j = k
  BY <1>1, SameOrder DEF Only
<1> QED BY <1>2 DEF OneShardEach

\* A shard that begins with last_s and ends before a directory d takes the
\* paths between the two; one without an end takes all that are left.
LEMMA ContainsCut ==
    ASSUME insensitive \in BOOLEAN, NEW path \in String, NEW d \in String,
           Len(d) > 0, d[Len(d)] = Slash, NEW sh \in Shard, sh.end_s = Before(d)
    PROVE  ShardContains(sh, path) <=> ~Lt(path, sh.start_s) /\ Lt(path, d)
<1>1. Len(sh.end_s) = Len(d) /\ (Lt(path, d) <=> ~Lt(sh.end_s, Leading(path, Len(d))))
  BY CutLemma
<1>2. sh.end_s # << >>
  <2>1. Before(d) \in String
    BY CutLemma
  <2> QED BY <1>1, <2>1, EmptySeq, StringFacts
<1> QED BY <1>1, <1>2 DEF ShardContains

LEMMA ContainsRest ==
    ASSUME NEW path, NEW sh, sh.end_s = << >>
    PROVE  ShardContains(sh, path) <=> ~Lt(path, sh.start_s)
  BY DEF ShardContains

\* One more shard at the end of s.
LEMMA OnlyAppend ==
    ASSUME NEW s \in Seq(Shard), NEW sh \in Shard, NEW path
    PROVE  LET t == Append(s, sh)
           IN  /\ t \in Seq(Shard) /\ Len(t) = Len(s) + 1 /\ Len(s) \in Nat
               /\ Len(t) \in 1..Len(t)
               /\ t[Len(t)] = sh /\ \A j \in 1..Len(s) : t[j] = s[j]
               /\ \A k \in 1..Len(s) : ~ShardContains(sh, path) /\ Only(s, k, path) => Only(t, k, path)
               /\ ShardContains(sh, path) /\ (\A j \in 1..Len(s) : ~ShardContains(s[j], path))
                     => Only(t, Len(t), path)
<1> DEFINE t == Append(s, sh)
<1>1. /\ t \in Seq(Shard) /\ Len(t) = Len(s) + 1 /\ Len(s) \in Nat
      /\ t[Len(s) + 1] = sh /\ \A j \in 1..Len(s) : t[j] = s[j]
  BY AppendProperties, LenProperties
<1> HIDE DEF t
<1>2. \A j \in 1..Len(t) : j \in 1..Len(s) \/ j = Len(t)
  BY <1>1
<1>3. Len(t) \in 1..Len(t) /\ \A k \in 1..Len(s) : k # Len(t)
  BY <1>1
<1>4. ASSUME NEW k \in 1..Len(s), ~ShardContains(sh, path), Only(s, k, path) PROVE Only(t, k, path)
  BY <1>1, <1>2, <1>3, <1>4 DEF Only
<1>5. ASSUME ShardContains(sh, path), \A j \in 1..Len(s) : ~ShardContains(s[j], path)
      PROVE  Only(t, Len(t), path)
  BY <1>1, <1>2, <1>3, <1>5 DEF Only
<1> QED BY <1>1, <1>3, <1>4, <1>5 DEF t

-----------------------------------------------------------------------------
LEMMA DivLess ==
    ASSUME NEW a \in Nat, NEW s \in Nat, NEW l \in Nat, a < s, l > 0
    PROVE  (a * l) \div s \in 0..(l - 1)
<1> DEFINE q == (a * l) \div s
<1>1. a * l \in Nat /\ a * l < s * l
  BY Z3
<1>2. q \in Nat /\ s * q <= a * l
  BY <1>1, Z3
<1> HIDE DEF q
<1>3. CASE q >= l
  <2>1. s * q >= s * l
    BY <1>2, <1>3, Z3
  <2> QED BY <1>1, <1>2, <2>1, Z3
<1>4. CASE q < l
  BY <1>2, <1>4 DEF q
<1> QED BY <1>2, <1>3, <1>4

\* The entry a cut is made at.
LEMMA EntryFacts ==
    ASSUME ShardsInv, step = "loop", i # nshards - 1
    PROVE  i + 1 <= nshards - 1 /\ idx \in Int /\ Entry(idx) \in String
<1>1. /\ i \in Nat /\ nshards \in Nat /\ i + 1 \in Nat /\ i + 1 < nshards /\ i + 1 <= nshards - 1
      /\ Len(index) \in Nat /\ Len(index) > 0
  BY LenProperties DEF ShardsInv, Typed, LoopInv
<1>2. idx \in 0..(Len(index) - 1)
  BY <1>1, DivLess DEF idx
<1>3. idx + 1 \in 1..Len(index) /\ idx \in Int
  BY <1>1, <1>2
<1>4. Entry(idx) \in Paths
  BY <1>3, ElementOfSeq DEF Entry, ShardsInv, Typed
<1> QED BY <1>1, <1>3, <1>4, ShardsAssumption

LEMMA SplitFacts ==
    ASSUME ShardsInv, step = "loop", i # nshards - 1,
           NEW k \in 1..Len(Entry(idx)), CutsAt(k)
    PROVE  /\ split(k) \in String /\ Len(split(k)) > 0 /\ split(k)[Len(split(k))] = Slash
           /\ Lt(last_s, Before(split(k)))
<1>1. /\ Entry(idx) \in String /\ k \in Nat /\ k > 0
      /\ \A j \in 1..k : Entry(idx)[j] \in Chars
  BY EntryFacts, StringFacts
<1>2. /\ split(k) \in String /\ Len(split(k)) = IF 1 <= k THEN k - 1 + 1 ELSE 0
      /\ \A j \in 1..(k - 1 + 1) : split(k)[j] = Entry(idx)[1 + j - 1]
  BY <1>1, SubSeqProperties DEF split, String
<1>3. Len(split(k)) = k /\ k \in 1..(k - 1 + 1) /\ 1 + k - 1 = k
  BY <1>1, <1>2
<1>4. split(k)[k] = Entry(idx)[k]
  BY <1>2, <1>3
<1> QED BY <1>1, <1>2, <1>3, <1>4 DEF CutsAt, IsLastSlash

LEMMA ZeroBelow == \A s \in Nat : s >= 1 => 0 <= s - 1
  OBVIOUS

LEMMA UpdateShardsKeeps ==
    ASSUME ShardsInv, NEW n \in Nat, NEW fold \in BOOLEAN, NEW threads \in PoolSizes,
           NEW entries \in [1..n -> Paths], UpdateShards(entries, fold, threads)
    PROVE  ShardsInv'
<1>1. /\ step = "idle" /\ insensitive' = fold /\ index' = entries
      /\ UNCHANGED <<i, last_s, last_i>>
  BY DEF UpdateShards
<1>2. /\ i = 0 /\ last_s = << >> /\ last_i = 0 /\ << >> \in String /\ Len(<< >>) = 0
  BY <1>1, EmptySeq DEF ShardsInv, Idle, String
<1>3. /\ entries \in Seq(Paths) /\ Len(entries) \in Nat
  BY SeqDef, LenProperties
<1>4. CASE Len(entries) <= kEntriesPerShard \/ threads < 2
  <2> DEFINE sh == [start_s |-> << >>, end_s |-> << >>, start_i |-> 0, end_i |-> Len(entries)]
  <2>1. shards_' = <<sh>> /\ step' = "cut" /\ nshards' = 1
    BY <1>4 DEF UpdateShards
  <2>2. sh \in Shard
    BY <1>2, <1>3 DEF Shard
  <2> HIDE DEF sh
  <2>3. shards_' \in Seq(Shard) /\ Len(shards_') = 1 /\ shards_'[1] = sh
    BY <2>1, <2>2
  <2>4. Typed'
    <3>1. i' \in Nat /\ nshards' \in Nat /\ last_i' \in Int
      BY <1>1, <1>2, <2>1
    <3> QED BY <1>1, <1>2, <1>3, <2>1, <2>3, <3>1, Zenon DEF Typed
  <2>5. \A path : ShardContains(sh, path)'
    <3>1. \A x : ~Lt(x, << >>)'
      BY <1>2 DEF Lt
    <3>2. sh.start_s = << >> /\ sh.end_s = << >>
      BY DEF sh
    <3> QED BY <3>1, <3>2 DEF ShardContains
  <2>6. OneShardEach'
    BY <2>3, <2>5 DEF OneShardEach
  <2> QED BY <2>1, <2>4, <2>6 DEF ShardsInv, Idle, LoopInv
<1>5. CASE ~(Len(entries) <= kEntriesPerShard \/ threads < 2)
  <2> DEFINE most == Len(entries) \div kEntriesPerShard + 1
  <2>1. /\ shards_' = << >> /\ step' = "loop"
        /\ nshards' = IF most < 2 * threads THEN most ELSE 2 * threads
    BY <1>5 DEF UpdateShards
  <2>2. /\ threads \in Nat /\ threads >= 2 /\ kEntriesPerShard \in Nat /\ kEntriesPerShard > 0
        /\ Len(entries) > 0
    BY <1>3, <1>5, ShardsAssumption
  <2>3. most \in Nat /\ most >= 1
    <3>1. Len(entries) \div kEntriesPerShard \in Nat
      BY <1>3, <2>2, Z3
    <3> QED BY <3>1
  <2> HIDE DEF most
  <2>4. nshards' \in Nat /\ nshards' >= 1
    BY <2>1, <2>2, <2>3
  <2>5. shards_' \in Seq(Shard) /\ Len(shards_') = 0
    BY <2>1, EmptySeq
  <2>6. Typed'
    <3>1. i' \in Nat /\ last_i' \in Int
      BY <1>1, <1>2
    <3> QED BY <1>1, <1>2, <1>3, <2>1, <2>4, <2>5, <3>1, Zenon DEF Typed
  <2>7. LoopInv'
    <3>1. \A x : ~Lt(x, << >>)'
      BY <1>2 DEF Lt
    <3>2. last_s' = << >> /\ i' = 0
      BY <1>1, <1>2
    <3>3. \A path \in Paths : ~Lt(path, last_s)'
      BY <3>1, <3>2 DEF Lt
    <3>4. i' <= nshards' - 1 /\ Len(index') > 0
      <4>0. i' = 0
        BY <3>2
      <4>1. i' <= nshards' - 1
        BY <2>4, <4>0, ZeroBelow, Zenon
      <4>2. Len(index') > 0
        BY <1>1, <2>2
      <4> QED BY <4>1, <4>2
    <3>5. \A path \in Paths : \A j \in 1..Len(shards_') : ~ShardContains(shards_[j], path)'
      BY <2>5
    <3> QED BY <3>3, <3>4, <3>5, Zenon DEF LoopInv
  <2> QED BY <2>1, <2>6, <2>7 DEF ShardsInv, Idle, OneShardEach, Cuts
<1> QED BY <1>4, <1>5

\* A cut at the directory d: the paths from last_s up to d get the new
\* shard, the ones below keep theirs.
LEMMA CutKeeps == ASSUME ShardsInv, Cut PROVE ShardsInv'
<1>1. PICK k \in 1..Len(Entry(idx)) :
         /\ CutsAt(k)
         /\ shards_' = Append(shards_, [start_s |-> last_s, end_s |-> Before(split(k)),
                                        start_i |-> last_i, end_i |-> idx])
         /\ last_s' = split(k)
  BY DEF Cut
<1>2. /\ step = "loop" /\ i # nshards - 1 /\ last_i' = idx /\ i' = i + 1
      /\ UNCHANGED <<step, insensitive, index, nshards>>
  BY DEF Cut
<1> DEFINE d == split(k)
           sh == [start_s |-> last_s, end_s |-> Before(d), start_i |-> last_i, end_i |-> idx]
<1>3. d \in String /\ Len(d) > 0 /\ d[Len(d)] = Slash /\ Lt(last_s, Before(d))
  BY <1>1, <1>2, SplitFacts
<1>4. insensitive \in BOOLEAN /\ last_s \in String /\ last_i \in Int /\ shards_ \in Seq(Shard)
  BY DEF ShardsInv, Typed
<1>5. Before(d) \in String /\ Lt(Before(d), d)
  BY <1>3, <1>4, CutLemma
<1>6. Lt(last_s, d)
  BY <1>3, <1>4, <1>5, LtTransitive
<1>7. idx \in Int /\ i + 1 <= nshards - 1
  BY <1>2, EntryFacts
<1>8. sh \in Shard /\ sh.start_s = last_s /\ sh.end_s = Before(d)
  BY <1>4, <1>5, <1>7 DEF Shard
<1>9. shards_' = Append(shards_, sh) /\ last_s' = d
  BY <1>1
<1> HIDE DEF sh, d
<1>10. Typed'
  <2>1. shards_' \in Seq(Shard)
    BY <1>4, <1>8, <1>9, AppendProperties
  <2>2. i' \in Nat
    BY <1>2 DEF ShardsInv, Typed
  <2> QED BY <1>2, <1>3, <1>7, <1>9, <2>1, <2>2, Zenon DEF ShardsInv, Typed
<1>11. ASSUME NEW path \in Paths
       PROVE  IF Lt(path, d) THEN \E j \in 1..Len(shards_') : Only(shards_', j, path)
              ELSE \A j \in 1..Len(shards_') : ~ShardContains(shards_'[j], path)
  <2>1. path \in String
    BY ShardsAssumption
  <2>2. ShardContains(sh, path) <=> ~Lt(path, last_s) /\ Lt(path, d)
    BY <1>3, <1>4, <1>8, <2>1, ContainsCut
  <2>3. Lt(path, last_s) => Lt(path, d)
    BY <1>3, <1>4, <1>6, <2>1, LtTransitive
  <2>4. IF Lt(path, last_s) THEN \E j \in 1..Len(shards_) : Only(shards_, j, path)
        ELSE \A j \in 1..Len(shards_) : ~ShardContains(shards_[j], path)
    BY <1>2 DEF ShardsInv, LoopInv
  <2>5. /\ Len(shards_') = Len(shards_) + 1 /\ Len(shards_) \in Nat
        /\ Len(shards_') \in 1..Len(shards_')
        /\ shards_'[Len(shards_')] = sh /\ \A j \in 1..Len(shards_) : shards_'[j] = shards_[j]
        /\ \A j \in 1..Len(shards_) :
              ~ShardContains(sh, path) /\ Only(shards_, j, path) => Only(shards_', j, path)
        /\ ShardContains(sh, path) /\ (\A j \in 1..Len(shards_) : ~ShardContains(shards_[j], path))
              => Only(shards_', Len(shards_'), path)
    BY <1>4, <1>8, <1>9, OnlyAppend, Zenon
  <2>6. \A j \in 1..Len(shards_) : j \in 1..Len(shards_')
    BY <2>5
  <2>7. CASE Lt(path, last_s)
    <3>1. PICK j \in 1..Len(shards_) : Only(shards_, j, path)
      BY <2>4, <2>7
    <3>2. Only(shards_', j, path)
      BY <2>2, <2>5, <2>7, <3>1
    <3> QED BY <2>3, <2>6, <2>7, <3>2
  <2>8. CASE ~Lt(path, last_s) /\ Lt(path, d)
    BY <2>2, <2>4, <2>5, <2>8
  <2>9. CASE ~Lt(path, last_s) /\ ~Lt(path, d)
    <3>1. \A j \in 1..Len(shards_') : j \in 1..Len(shards_) \/ j = Len(shards_')
      BY <2>5
    <3> QED BY <2>2, <2>4, <2>5, <2>9, <3>1
  <2> QED BY <2>3, <2>7, <2>8, <2>9
<1>12. LoopInv'
  <2>1. i' <= nshards' - 1 /\ Len(index') > 0
    BY <1>2, <1>7 DEF ShardsInv, LoopInv
  <2>2. \A path \in Paths :
           IF Lt(path, last_s)' THEN \E j \in 1..Len(shards_') : Only(shards_, j, path)'
           ELSE \A j \in 1..Len(shards_') : ~ShardContains(shards_[j], path)'
    <3> SUFFICES ASSUME NEW path \in Paths
                 PROVE  IF Lt(path, last_s)' THEN \E j \in 1..Len(shards_') : Only(shards_, j, path)'
                        ELSE \A j \in 1..Len(shards_') : ~ShardContains(shards_[j], path)'
      OBVIOUS
    <3>1. Lt(path, last_s)' <=> Lt(path, d)
      BY <1>2, <1>9 DEF Lt, Key
    <3>2. \A j : ShardContains(shards_[j], path)' <=> ShardContains(shards_'[j], path)
      BY <1>2 DEF ShardContains, Lt, Key, Leading
    <3>3. \A j : Only(shards_, j, path)' <=> Only(shards_', j, path)
      BY <3>2 DEF Only
    <3> QED BY <1>11, <3>1, <3>2, <3>3
  <2> QED BY <2>1, <2>2 DEF LoopInv
<1> QED BY <1>2, <1>10, <1>12 DEF ShardsInv, Idle, OneShardEach, Cuts

\* The paths keep their shards while shards_ and last_s stay.
LEMMA StayLoop ==
    ASSUME ShardsInv, step = "loop", UNCHANGED <<insensitive, shards_, last_s>>,
           NEW path \in Paths
    PROVE  IF Lt(path, last_s)' THEN \E k \in 1..Len(shards_') : Only(shards_, k, path)'
           ELSE \A j \in 1..Len(shards_') : ~ShardContains(shards_[j], path)'
<1>1. IF Lt(path, last_s) THEN \E k \in 1..Len(shards_) : Only(shards_, k, path)
      ELSE \A j \in 1..Len(shards_) : ~ShardContains(shards_[j], path)
  BY DEF ShardsInv, LoopInv
<1>2. Lt(path, last_s)' <=> Lt(path, last_s)
  BY DEF Lt, Key
<1>3. \A j : ShardContains(shards_[j], path)' <=> ShardContains(shards_[j], path)
  BY DEF ShardContains, Lt, Key, Leading
<1>4. \A j : Only(shards_, j, path)' <=> Only(shards_, j, path)
  BY <1>3 DEF Only
<1> QED BY <1>1, <1>2, <1>3, <1>4

LEMMA NoCutKeeps == ASSUME ShardsInv, NoCut PROVE ShardsInv'
<1>1. /\ step = "loop" /\ i # nshards - 1 /\ i' = i + 1
      /\ UNCHANGED <<step, insensitive, index, nshards, last_s, last_i, shards_>>
  BY DEF NoCut
<1>2. i + 1 <= nshards - 1
  BY <1>1, EntryFacts
<1>3. Typed'
  <2>1. i' \in Nat
    BY <1>1 DEF ShardsInv, Typed
  <2> QED BY <1>1, <2>1, Zenon DEF ShardsInv, Typed
<1>4. LoopInv'
  <2>2. \A path \in Paths :
           IF Lt(path, last_s)' THEN \E k \in 1..Len(shards_') : Only(shards_, k, path)'
           ELSE \A j \in 1..Len(shards_') : ~ShardContains(shards_[j], path)'
    BY <1>1, StayLoop
  <2> QED BY <1>1, <1>2, <2>2 DEF LoopInv, ShardsInv
<1> QED BY <1>1, <1>3, <1>4 DEF ShardsInv, Idle, OneShardEach, Cuts

\* The last shard takes the paths no other has.
LEMMA LastCutKeeps == ASSUME ShardsInv, LastCut PROVE ShardsInv'
<1> DEFINE sh == [start_s |-> last_s, end_s |-> << >>, start_i |-> last_i, end_i |-> Len(index)]
<1>1. /\ step = "loop" /\ step' = "cut" /\ shards_' = Append(shards_, sh)
      /\ UNCHANGED <<insensitive, index, nshards, i, last_s, last_i>>
  BY DEF LastCut
<1>2. /\ insensitive \in BOOLEAN /\ last_s \in String /\ last_i \in Int /\ shards_ \in Seq(Shard)
      /\ Len(index) \in Int
  BY LenProperties DEF ShardsInv, Typed
<1>3. sh \in Shard /\ sh.start_s = last_s /\ sh.end_s = << >>
  BY <1>2, EmptySeq DEF Shard, String
<1> HIDE DEF sh
<1>4. Typed'
  <2>1. shards_' \in Seq(Shard)
    BY <1>1, <1>2, <1>3, AppendProperties
  <2> QED BY <1>1, <2>1, Zenon DEF ShardsInv, Typed
<1>5. ASSUME NEW path \in Paths
      PROVE  \E k \in 1..Len(shards_') : Only(shards_', k, path)
  <2>1. ShardContains(sh, path) <=> ~Lt(path, last_s)
    BY <1>3, ContainsRest
  <2>2. IF Lt(path, last_s) THEN \E k \in 1..Len(shards_) : Only(shards_, k, path)
        ELSE \A j \in 1..Len(shards_) : ~ShardContains(shards_[j], path)
    BY <1>1 DEF ShardsInv, LoopInv
  <2>3. /\ Len(shards_') = Len(shards_) + 1 /\ Len(shards_) \in Nat
        /\ Len(shards_') \in 1..Len(shards_')
        /\ \A k \in 1..Len(shards_) :
              ~ShardContains(sh, path) /\ Only(shards_, k, path) => Only(shards_', k, path)
        /\ ShardContains(sh, path) /\ (\A j \in 1..Len(shards_) : ~ShardContains(shards_[j], path))
              => Only(shards_', Len(shards_'), path)
    BY <1>1, <1>2, <1>3, OnlyAppend, Zenon
  <2>4. \A k \in 1..Len(shards_) : k \in 1..Len(shards_')
    BY <2>3
  <2>5. CASE Lt(path, last_s)
    <3>1. PICK k \in 1..Len(shards_) : Only(shards_, k, path)
      BY <2>2, <2>5
    <3> QED BY <2>1, <2>3, <2>4, <2>5, <3>1
  <2>6. CASE ~Lt(path, last_s)
    BY <2>1, <2>2, <2>3, <2>6
  <2> QED BY <2>5, <2>6
<1>6. OneShardEach'
  <2>1. \A path \in Paths : \E k \in 1..Len(shards_') :
           \A j \in 1..Len(shards_') : ShardContains(shards_'[j], path) <=> j = k
    BY <1>5 DEF Only
  <2>2. \A path, j : ShardContains(shards_[j], path)' <=> ShardContains(shards_'[j], path)
    BY <1>1 DEF ShardContains, Lt, Key, Leading
  <2> QED BY <2>1, <2>2 DEF OneShardEach
<1> QED BY <1>1, <1>4, <1>6 DEF ShardsInv, Idle, LoopInv

\* StartDirtyScan leaves the shards alone.
LEMMA ScanKeeps ==
    ASSUME ShardsInv, Cuts, step' \in {"cut", "scan", "scanned"},
           UNCHANGED <<insensitive, index, nshards, i, last_s, last_i, shards_>>
    PROVE  ShardsInv'
<1>1. Typed'
  BY Zenon DEF ShardsInv, Typed
<1> QED BY <1>1, StayCut DEF ShardsInv, Idle, LoopInv

(* The loop of UpdateShards gives the paths below last_s their shards, for *)
(* any index, any number of threads, with and without case.                *)
THEOREM ShardsInvariant == ShardsSpec => []ShardsInv
<1>1. ShardsInv /\ [ShardsNext]_shardsVars => ShardsInv'
  <2> SUFFICES ASSUME ShardsInv, [ShardsNext]_shardsVars PROVE ShardsInv'
    OBVIOUS
  <2>1. CASE \E n \in 0..MaxIndexSize, fold \in BOOLEAN, threads \in PoolSizes :
                \E entries \in [1..n -> Paths] : UpdateShards(entries, fold, threads)
    <3>1. PICK n \in 0..MaxIndexSize, fold \in BOOLEAN, threads \in PoolSizes :
             \E entries \in [1..n -> Paths] : UpdateShards(entries, fold, threads)
      BY <2>1
    <3>2. n \in Nat
      BY ShardsAssumption
    <3> QED BY <3>1, <3>2, UpdateShardsKeeps
  <2>2. CASE Cut
    BY <2>2, CutKeeps
  <2>3. CASE NoCut
    BY <2>3, NoCutKeeps
  <2>4. CASE LastCut
    BY <2>4, LastCutKeeps
  <2>5. CASE \/ \E n \in 0..MaxCandidates :
                   \E candidates \in [1..n -> Paths] : StartDirtyScan(candidates)
             \/ NextShard \/ RunScan \/ Scanned
    <3>1. /\ step \in {"cut", "scan"} /\ step' \in {"cut", "scan", "scanned"}
          /\ UNCHANGED <<insensitive, index, nshards, i, last_s, last_i, shards_>>
      BY <2>5 DEF StartDirtyScan, NextShard, RunScan, Scanned
    <3> QED BY <3>1, ScanKeeps DEF Cuts
  <2>6. CASE UNCHANGED shardsVars
    <3>1. UNCHANGED <<step, insensitive, index, nshards, i, last_s, last_i, shards_>>
      BY <2>6 DEF shardsVars
    <3>2. CASE step = "loop"
      <4>1. Typed'
        BY <3>1, Zenon DEF ShardsInv, Typed
      <4>2. \A path \in Paths :
               IF Lt(path, last_s)' THEN \E k \in 1..Len(shards_') : Only(shards_, k, path)'
               ELSE \A j \in 1..Len(shards_') : ~ShardContains(shards_[j], path)'
        BY <3>1, <3>2, StayLoop
      <4> QED BY <3>1, <3>2, <4>1, <4>2 DEF ShardsInv, Idle, LoopInv, OneShardEach, Cuts
    <3>3. CASE step = "idle"
      <4>1. Typed'
        BY <3>1, Zenon DEF ShardsInv, Typed
      <4> QED BY <3>1, <3>3, <4>1 DEF ShardsInv, Idle, LoopInv, OneShardEach, Cuts
    <3>4. CASE step \in {"cut", "scan", "scanned"}
      BY <3>1, <3>4, ScanKeeps DEF Cuts
    <3> QED BY <3>2, <3>3, <3>4 DEF ShardsInv, Typed
  <2> QED BY <2>1, <2>2, <2>3, <2>4, <2>5, <2>6 DEF ShardsNext
<1> QED BY InitInv, <1>1, PTL DEF ShardsSpec

(* Every path is in exactly one shard: the scans of the shards together    *)
(* see each change once.                                                   *)
THEOREM AlwaysOneShardEach == ShardsSpec => []OneShardEach
<1>1. ShardsInv => OneShardEach
  BY DEF ShardsInv
<1> QED BY ShardsInvariant, <1>1, PTL

-----------------------------------------------------------------------------
\* The entry at n is below the directory s.
IsBelow(n, s) == Leading(Entry(n), Len(s)) = s

\* The shard x, which is not empty, ends in front of the directory s, at the entry n.
EndsAt(x, s, n) ==
    /\ Lt(x.end_s, s) /\ x.end_i = n
    /\ x.start_i < x.end_i /\ Lt(x.start_s, x.end_s)

\* The shard y begins where the shard x ends.
Joined(x, y) ==
    IsBelow(y.start_i, y.start_s) /\ EndsAt(x, y.start_s, y.start_i)

Chain(s) ==
    /\ s # << >> => s[1].start_s = << >> /\ s[1].start_i = 0
    /\ \A k \in 2..Len(s) : Joined(s[k - 1], s[k])

\* The loop has got as far as i times its share of the index at most, and
\* ends a shard only where the next one begins, at the directory of an entry.
LoopCuts ==
    step = "loop" =>
       /\ nshards <= Len(index) /\ nshards * last_i <= i * Len(index)
       /\ last_i \in 0..(Len(index) - 1) /\ Len(shards_) <= i
       /\ Chain(shards_)
       /\ shards_ = << >> => last_s = << >> /\ last_i = 0
       /\ shards_ # << >> =>
             IsBelow(last_i, last_s) /\ EndsAt(shards_[Len(shards_)], last_s, last_i)

\* The paths of a shard are in front of the next one.
InOrder ==
    \A k \in 1..Len(shards_) : \A j \in 1..(k - 1) :
       \A path \in Paths : ShardContains(shards_[j], path) => Lt(path, shards_[k].start_s)

Scans == [shard : Nat, first : Nat, last : Nat]

\* The candidates are sorted, so the shard of the next one is never behind
\* the iterator, and it is another one than that of the last scan.
ScanInv ==
    /\ step \notin {"scan", "scanned"} => shard = 1 /\ ranges = << >>
    /\ step \in {"scan", "scanned"} =>
          /\ paths \in Seq(Paths) /\ SortedBy(paths)
          /\ ranges \in Seq(Scans)
          /\ Given \in 0..Len(paths) /\ shard \in 1..Len(shards_)
          /\ ranges # << >> =>
                LET r == ranges[Len(ranges)]
                IN  /\ r.shard <= shard
                    /\ r.shard = shard /\ Given < Len(paths) =>
                          ~ShardContains(shards_[shard], paths[Given + 1])
          /\ Given < Len(paths) =>
                \A k \in 1..(shard - 1) : ~ShardContains(shards_[k], paths[Given + 1])

RightInv == LoopCuts /\ InOrder /\ ScanInv /\ ChecksHold /\ CandidatesCovered

-----------------------------------------------------------------------------
LEMMA Divided ==
    ASSUME NEW a \in Nat, NEW n \in Nat, n > 0
    PROVE  LET q == a \div n IN q \in Nat /\ n * q <= a /\ a < n * q + n
<1> DEFINE q == a \div n
           r == a % n
<1>1. q \in Nat /\ r \in Nat /\ r < n /\ a = n * q + r
  BY Z3
<1> HIDE DEF q, r
<1>2. n * q \in Nat
  BY <1>1, Z3
<1>3. n * q <= a /\ a < n * q + n
  BY <1>1, <1>2
<1> QED BY <1>1, <1>3 DEF q

\* Where there are no more shards than entries, each step of the loop takes
\* it to another entry.
LEMMA Advances ==
    ASSUME NEW n \in Nat, n > 0, NEW l \in Nat, n <= l, NEW c \in Nat, NEW p \in Nat,
           n * p <= c * l, NEW q \in Nat, (c + 1) * l < n * q + n
    PROVE  p < q
<1>1. (c + 1) * l = c * l + l /\ c * l \in Nat /\ n * p \in Nat /\ n * q \in Nat
  BY Z3
<1>2. n * p < n * q
  BY <1>1
<1>3. CASE p >= q
  <2>1. n * p >= n * q
    BY <1>3, Z3
  <2> QED BY <1>1, <1>2, <2>1
<1> QED BY <1>3

\* What is not below s is above what is.
LEMMA LtSeparates ==
    ASSUME insensitive \in BOOLEAN, NEW x \in String, NEW y \in String, NEW s \in String,
           Lt(x, s), ~Lt(y, s)
    PROVE  Lt(x, y)
<1>1. PICK k \in 1..Len(s) :
         /\ \A j \in 1..(k - 1) : j <= Len(x) /\ Key(x[j]) = Key(s[j])
         /\ k <= Len(x) => Key(x[k]) < Key(s[k])
  BY DEF Lt
<1>2. /\ Len(x) \in Nat /\ Len(y) \in Nat /\ Len(s) \in Nat
      /\ \A j \in 1..Len(x) : Key(x[j]) \in Nat
      /\ \A j \in 1..Len(y) : Key(y[j]) \in Nat
      /\ \A j \in 1..Len(s) : Key(s[j]) \in Nat
  BY StringFacts, KeyFacts
<1> DEFINE D == {m \in 1..k : m > Len(y) \/ Key(y[m]) # Key(s[m])}
<1>3. CASE D = {}
  <2>0. \A m \in 1..k : ~(m > Len(y)) /\ ~(Key(y[m]) # Key(s[m]))
    BY <1>3
  <2>1. \A m \in 1..k : m <= Len(y) /\ Key(y[m]) = Key(s[m])
    BY <1>2, <2>0
  <2>2. k \in 1..Len(y) /\ k \in 1..k /\ \A j \in 1..(k - 1) : j \in 1..k
    BY <1>2, <2>1
  <2>3. \A j \in 1..(k - 1) : j <= Len(x) /\ Key(x[j]) = Key(y[j])
    BY <1>1, <2>1, <2>2
  <2>4. k <= Len(x) => Key(x[k]) < Key(y[k])
    BY <1>1, <2>1, <2>2
  <2> QED BY <2>2, <2>3, <2>4 DEF Lt
<1>4. CASE D # {}
  <2>1. PICK m \in D : \A j \in D : m <= j
    <3>1. D \subseteq Nat
      BY <1>2
    <3> QED BY <1>4, <3>1, SmallestNat, Zenon
  <2>2. /\ m \in 1..k /\ m \in 1..Len(s)
        /\ \A j \in 1..(m - 1) : j <= Len(y) /\ Key(y[j]) = Key(s[j])
    BY <1>2, <2>1
  <2>3. m <= Len(y) /\ ~(Key(y[m]) < Key(s[m]))
    BY <1>2, <2>2 DEF Lt
  <2>4. m \in 1..Len(y) /\ Key(s[m]) < Key(y[m])
    <3>1. m > Len(y) \/ Key(y[m]) # Key(s[m])
      BY <2>1
    <3>2. m \in 1..Len(y) /\ Key(y[m]) # Key(s[m])
      BY <1>2, <2>2, <2>3, <3>1
    <3> QED BY <1>2, <2>2, <2>3, <3>2
  <2>5. \A j \in 1..(m - 1) : j \in 1..(k - 1)
    BY <2>2
  <2>6. \A j \in 1..(m - 1) : j <= Len(x) /\ Key(x[j]) = Key(y[j])
    BY <1>1, <2>2, <2>5
  <2>7. m <= Len(x) => Key(x[m]) < Key(y[m])
    <3> SUFFICES ASSUME m <= Len(x) PROVE Key(x[m]) < Key(y[m])
      OBVIOUS
    <3>1. m \in 1..Len(x) /\ Key(x[m]) \in Nat /\ Key(y[m]) \in Nat /\ Key(s[m]) \in Nat
      BY <1>2, <2>2, <2>4
    <3>2. m = k \/ m \in 1..(k - 1)
      BY <2>2
    <3>3. Key(x[m]) <= Key(s[m])
      BY <1>1, <3>1, <3>2
    <3> QED BY <2>4, <3>1, <3>3
  <2> QED BY <2>4, <2>6, <2>7 DEF Lt
<1> QED BY <1>3, <1>4

\* A directory leads its entry.
LEMMA DirLeads ==
    ASSUME NEW x \in String, NEW k \in 1..Len(x)
    PROVE  LET s == SubSeq(x, 1, k) IN Len(s) = k /\ Leading(x, Len(s)) = s
<1> DEFINE s == SubSeq(x, 1, k)
<1>1. Len(x) \in Nat /\ \A j \in 1..k : x[j] \in Chars
  BY StringFacts
<1>2. Len(s) = IF 1 <= k THEN k - 1 + 1 ELSE 0
  BY <1>1, SubSeqProperties
<1>3. Len(s) = k /\ ~(Len(x) < k)
  BY <1>1, <1>2
<1> QED BY <1>3 DEF Leading

LEMMA ChainAppend ==
    ASSUME NEW s \in Seq(Shard), NEW sh \in Shard, Chain(s),
           s = << >> => sh.start_s = << >> /\ sh.start_i = 0,
           s # << >> => Joined(s[Len(s)], sh)
    PROVE  LET t == Append(s, sh) IN t # << >> /\ Chain(t) /\ t[Len(t)] = sh /\ Len(t) = Len(s) + 1
<1> DEFINE t == Append(s, sh)
<1>1. /\ t \in Seq(Shard) /\ Len(t) = Len(s) + 1 /\ Len(s) \in Nat
      /\ t[Len(s) + 1] = sh /\ \A j \in 1..Len(s) : t[j] = s[j]
      /\ s = << >> <=> Len(s) = 0
  BY AppendProperties, LenProperties, EmptySeq
<1>2. t # << >>
  BY <1>1, EmptySeq
<1> HIDE DEF t
<1>3. t[1].start_s = << >> /\ t[1].start_i = 0
  <2>1. CASE s = << >>
    BY <1>1, <2>1
  <2>2. CASE s # << >>
    BY <1>1, <2>2 DEF Chain
  <2> QED BY <2>1, <2>2
<1>4. ASSUME NEW k \in 2..Len(t) PROVE Joined(t[k - 1], t[k])
  <2>1. CASE k = Len(t)
    <3>1. s # << >> /\ t[k] = sh /\ k - 1 = Len(s) /\ t[k - 1] = s[Len(s)]
      BY <1>1, <2>1
    <3> QED BY <3>1
  <2>2. CASE k # Len(t)
    <3>1. k \in 2..Len(s) /\ t[k] = s[k] /\ t[k - 1] = s[k - 1]
      BY <1>1, <2>2
    <3> QED BY <3>1 DEF Chain
  <2> QED BY <2>1, <2>2
<1> QED BY <1>1, <1>2, <1>3, <1>4 DEF Chain, t

\* As long as the index stays, a chain stays one.
LEMMA SameIndex ==
    ASSUME insensitive' = insensitive, index' = index
    PROVE  /\ Chain(shards_)' <=> Chain(shards_')
           /\ IsBelow(last_i, last_s)' <=> IsBelow(last_i', last_s')
           /\ EndsAt(shards_[Len(shards_)], last_s, last_i)'
                 <=> EndsAt(shards_'[Len(shards_')], last_s', last_i')
           /\ \A x, y : Lt(x, y)' <=> Lt(x, y)
<1>1. \A x, y : Lt(x, y)' <=> Lt(x, y)
  BY DEF Lt, Key
<1>2. \A x, y : Joined(x, y)' <=> Joined(x, y)
  BY <1>1 DEF Joined, EndsAt, IsBelow, Leading, Entry
<1>3. Chain(shards_)' <=> Chain(shards_')
  BY <1>2 DEF Chain
<1>4. IsBelow(last_i, last_s)' <=> IsBelow(last_i', last_s')
  BY DEF IsBelow, Leading, Entry
<1>5. EndsAt(shards_[Len(shards_)], last_s, last_i)'
         <=> EndsAt(shards_'[Len(shards_')], last_s', last_i')
  BY DEF EndsAt, Lt, Key
<1> QED BY <1>1, <1>3, <1>4, <1>5

\* The entry at idx is behind the one the last cut was made at.
LEMMA IndexAdvances ==
    ASSUME ShardsInv, LoopCuts, step = "loop", i # nshards - 1
    PROVE  idx \in 0..(Len(index) - 1) /\ last_i < idx /\ nshards * idx <= (i + 1) * Len(index)
<1>1. /\ i \in Nat /\ nshards \in Nat /\ nshards > 0 /\ i + 1 \in Nat /\ i + 1 < nshards
      /\ Len(index) \in Nat /\ Len(index) > 0
  BY EntryFacts, LenProperties DEF ShardsInv, Typed, LoopInv
<1>2. idx \in 0..(Len(index) - 1)
  BY <1>1, DivLess DEF idx
<1>3. (i + 1) * Len(index) \in Nat
  BY <1>1, Z3
<1>4. /\ idx \in Nat /\ nshards * idx <= (i + 1) * Len(index)
      /\ (i + 1) * Len(index) < nshards * idx + nshards
  BY <1>1, <1>3, Divided DEF idx
<1>5. nshards <= Len(index) /\ last_i \in Nat /\ nshards * last_i <= i * Len(index)
  BY <1>1 DEF LoopCuts
<1> QED BY <1>1, <1>2, <1>4, <1>5, Advances

\* What is left of the loop's next shard begins where the last one ends.
LEMMA NextJoined ==
    ASSUME ShardsInv, LoopCuts, step = "loop", NEW sh \in Shard,
           sh.start_s = last_s, sh.start_i = last_i
    PROVE  /\ shards_ = << >> => sh.start_s = << >> /\ sh.start_i = 0
           /\ shards_ # << >> => Joined(shards_[Len(shards_)], sh)
<1>1. shards_ # << >> => Joined(shards_[Len(shards_)], sh)
  BY DEF LoopCuts, Joined
<1>2. shards_ = << >> => sh.start_s = << >> /\ sh.start_i = 0
  BY DEF LoopCuts
<1> QED BY <1>1, <1>2

\* The shards before a new one contain paths below last_s only.
LEMMA OrderAppend ==
    ASSUME ShardsInv, InOrder, step = "loop", insensitive' = insensitive,
           NEW sh \in Shard, sh.start_s = last_s, shards_' = Append(shards_, sh)
    PROVE  InOrder'
<1>1. /\ Len(shards_') = Len(shards_) + 1 /\ Len(shards_) \in Nat
      /\ shards_'[Len(shards_) + 1] = sh /\ \A m \in 1..Len(shards_) : shards_'[m] = shards_[m]
  BY AppendProperties, LenProperties DEF ShardsInv, Typed
<1>2. ASSUME NEW k \in 1..Len(shards_'), NEW j \in 1..(k - 1), NEW path \in Paths,
             ShardContains(shards_'[j], path)
      PROVE  Lt(path, shards_'[k].start_s)
  <2>1. CASE k = Len(shards_')
    <3>1. j \in 1..Len(shards_) /\ shards_'[j] = shards_[j] /\ shards_'[k].start_s = last_s
      BY <1>1, <2>1
    <3>2. ~Lt(path, last_s) => ~ShardContains(shards_[j], path)
      BY <3>1 DEF ShardsInv, LoopInv
    <3> QED BY <1>2, <3>1, <3>2
  <2>2. CASE k # Len(shards_')
    <3>1. /\ k \in 1..Len(shards_) /\ j \in 1..Len(shards_)
          /\ shards_'[k] = shards_[k] /\ shards_'[j] = shards_[j]
      BY <1>1, <2>2
    <3> QED BY <1>2, <3>1 DEF InOrder
  <2> QED BY <2>1, <2>2
<1>3. \A j, path : ShardContains(shards_[j], path)' <=> ShardContains(shards_'[j], path)
  BY DEF ShardContains, Lt, Key, Leading
<1>4. \A k, path : Lt(path, shards_[k].start_s)' <=> Lt(path, shards_'[k].start_s)
  BY DEF Lt, Key
<1> QED BY <1>2, <1>3, <1>4 DEF InOrder

-----------------------------------------------------------------------------
LEMMA CutChain ==
    ASSUME ShardsInv, LoopCuts, InOrder, Cut
    PROVE  LoopCuts' /\ InOrder'
<1>1. PICK k \in 1..Len(Entry(idx)) :
         /\ CutsAt(k)
         /\ shards_' = Append(shards_, [start_s |-> last_s, end_s |-> Before(split(k)),
                                        start_i |-> last_i, end_i |-> idx])
         /\ last_s' = split(k)
  BY DEF Cut
<1>2. /\ step = "loop" /\ i # nshards - 1 /\ last_i' = idx /\ i' = i + 1
      /\ UNCHANGED <<step, insensitive, index, nshards>>
  BY DEF Cut
<1> DEFINE d == split(k)
           sh == [start_s |-> last_s, end_s |-> Before(d), start_i |-> last_i, end_i |-> idx]
<1>3. d \in String /\ Len(d) > 0 /\ d[Len(d)] = Slash /\ Lt(last_s, Before(d))
  BY <1>1, <1>2, SplitFacts
<1>4. /\ insensitive \in BOOLEAN /\ last_s \in String /\ last_i \in Int /\ shards_ \in Seq(Shard)
      /\ i \in Nat /\ Len(shards_) \in Nat /\ Len(shards_) <= i
  BY <1>2, LenProperties DEF ShardsInv, Typed, LoopCuts
<1>5. Before(d) \in String /\ Lt(Before(d), d)
  BY <1>3, <1>4, CutLemma
<1>6. /\ idx \in 0..(Len(index) - 1) /\ last_i < idx /\ nshards * idx <= (i + 1) * Len(index)
      /\ idx \in Int
  BY <1>2, IndexAdvances, EntryFacts
<1>7. /\ sh \in Shard /\ sh.start_s = last_s /\ sh.end_s = Before(d)
      /\ sh.start_i = last_i /\ sh.end_i = idx
  BY <1>4, <1>5, <1>6 DEF Shard
<1>8. shards_' = Append(shards_, sh) /\ last_s' = d
  BY <1>1
<1>9. IsBelow(idx, d)
  BY <1>2, EntryFacts, DirLeads DEF IsBelow, split
<1> HIDE DEF sh, d
<1>10. /\ shards_ = << >> => sh.start_s = << >> /\ sh.start_i = 0
       /\ shards_ # << >> => Joined(shards_[Len(shards_)], sh)
  BY <1>2, <1>7, NextJoined
<1>11. Chain(shards_)
  BY <1>2 DEF LoopCuts
<1>12. /\ shards_' # << >> /\ Chain(shards_') /\ shards_'[Len(shards_')] = sh
       /\ Len(shards_') = Len(shards_) + 1
  BY <1>4, <1>7, <1>8, <1>10, <1>11, ChainAppend
<1>13. LoopCuts'
  <2>1. Chain(shards_)' /\ IsBelow(last_i, last_s)'
    BY <1>2, <1>8, <1>9, <1>12, SameIndex
  <2>2. nshards' <= Len(index') /\ nshards' * last_i' <= i' * Len(index')
    BY <1>2, <1>6 DEF LoopCuts
  <2>3. last_i' \in 0..(Len(index') - 1) /\ Len(shards_') <= i'
    BY <1>2, <1>4, <1>6, <1>12
  <2>4. EndsAt(sh, last_s', last_i')
    BY <1>2, <1>3, <1>5, <1>6, <1>7, <1>8 DEF EndsAt
  <2>5. EndsAt(shards_[Len(shards_)], last_s, last_i)'
    BY <1>2, <1>12, <2>4, SameIndex
  <2> QED BY <1>12, <2>1, <2>2, <2>3, <2>5 DEF LoopCuts
<1>14. InOrder'
  BY <1>2, <1>7, <1>8, OrderAppend
<1> QED BY <1>13, <1>14

LEMMA LastCutChain ==
    ASSUME ShardsInv, LoopCuts, InOrder, LastCut
    PROVE  LoopCuts' /\ InOrder' /\ ChecksHold'
<1> DEFINE sh == [start_s |-> last_s, end_s |-> << >>, start_i |-> last_i, end_i |-> Len(index)]
<1>1. /\ step = "loop" /\ i = nshards - 1 /\ step' = "cut" /\ shards_' = Append(shards_, sh)
      /\ UNCHANGED <<insensitive, index, nshards, i, last_s, last_i>>
  BY DEF LastCut
<1>2. /\ insensitive \in BOOLEAN /\ last_s \in String /\ last_i \in Int /\ shards_ \in Seq(Shard)
      /\ Len(index) \in Int /\ Len(shards_) \in Nat /\ Len(shards_) <= i /\ nshards \in Nat
  BY <1>1, LenProperties DEF ShardsInv, Typed, LoopCuts
<1>3. /\ sh \in Shard /\ sh.start_s = last_s /\ sh.end_s = << >> /\ sh.start_i = last_i
      /\ sh.end_i = Len(index)
  BY <1>2, EmptySeq DEF Shard, String
<1> HIDE DEF sh
<1>4. /\ shards_ = << >> => sh.start_s = << >> /\ sh.start_i = 0
      /\ shards_ # << >> => Joined(shards_[Len(shards_)], sh)
  BY <1>1, <1>3, NextJoined
<1>5. Chain(shards_)
  BY <1>1 DEF LoopCuts
<1>6. /\ shards_' # << >> /\ Chain(shards_') /\ shards_'[Len(shards_')] = sh
      /\ Len(shards_') = Len(shards_) + 1
  BY <1>1, <1>2, <1>3, <1>4, <1>5, ChainAppend
<1>7. LoopCuts'
  BY <1>1 DEF LoopCuts
<1>8. InOrder'
  BY <1>1, <1>3, OrderAppend
<1>9. ChecksHold'
  <2>1. Chain(shards_)'
    BY <1>1, <1>6, SameIndex
  <2>2. Len(shards_') \in 1..nshards'
    BY <1>1, <1>2, <1>6
  <2>3. shards_'[Len(shards_')].end_s = << >> /\ shards_'[Len(shards_')].end_i = Len(index')
    BY <1>1, <1>3, <1>6
  <2> QED BY <1>6, <2>1, <2>2, <2>3 DEF ChecksHold, Chain, Joined, EndsAt, IsBelow
<1> QED BY <1>7, <1>8, <1>9

\* The loop over the candidates has not begun.
LEMMA NotScanning ==
    ASSUME ScanInv, step \notin {"scan", "scanned"}, step' \notin {"scan", "scanned"},
           UNCHANGED <<shard, ranges>>, shards_' \in Seq(Shard)
    PROVE  ScanInv' /\ CandidatesCovered'
<1>1. shard' = 1 /\ ranges' = << >>
  BY DEF ScanInv
<1>2. ScanInv'
  BY <1>1 DEF ScanInv
<1>3. shards_' # << >> => 1 <= Len(shards_')
  BY EmptySeq, LenProperties
<1>4. Len(ranges') = 0
  BY <1>1, EmptySeq
<1>5. CandidatesCovered'
  BY <1>1, <1>3, <1>4 DEF CandidatesCovered
<1> QED BY <1>2, <1>5

\* The cuts that have been made stay as they are.
LEMMA StayCuts ==
    ASSUME UNCHANGED <<insensitive, index, nshards, shards_>>, InOrder, Cuts, ChecksHold
    PROVE  InOrder' /\ ChecksHold'
<1>1. \A path, j : ShardContains(shards_[j], path)' <=> ShardContains(shards_[j], path)
  BY DEF ShardContains, Lt, Key, Leading
<1>2. \A x, y : Lt(x, y)' <=> Lt(x, y)
  BY DEF Lt, Key
<1>3. InOrder'
  <2>1. \A k, path : Lt(path, shards_[k].start_s)' <=> Lt(path, shards_[k].start_s)
    BY DEF Lt, Key
  <2> QED BY <1>1, <2>1 DEF InOrder
<1>4. ChecksHold'
  <2>1. \A k \in 2..Len(shards_) : Joined(shards_[k - 1], shards_[k])
    BY DEF Cuts, ChecksHold, Joined, EndsAt, IsBelow
  <2>2. \A x, y : Joined(x, y)' <=> Joined(x, y)
    BY <1>2 DEF Joined, EndsAt, IsBelow, Leading, Entry
  <2>3. Chain(shards_)'
    <3>1. Chain(shards_)
      BY <2>1 DEF Cuts, ChecksHold, Chain
    <3> QED BY <3>1, SameIndex, <2>2 DEF Chain
  <2> QED BY <2>3 DEF Cuts, ChecksHold, Chain, Joined, EndsAt, IsBelow
<1> QED BY <1>3, <1>4

LEMMA NoCutChain ==
    ASSUME ShardsInv, LoopCuts, InOrder, NoCut
    PROVE  LoopCuts' /\ InOrder'
<1>1. /\ step = "loop" /\ i # nshards - 1 /\ i' = i + 1
      /\ UNCHANGED <<step, insensitive, index, nshards, last_s, last_i, shards_>>
  BY DEF NoCut
<1>2. /\ i \in Nat /\ nshards \in Nat /\ Len(index) \in Nat /\ last_i \in Int /\ Len(shards_) \in Nat
  BY LenProperties DEF ShardsInv, Typed
<1>3. nshards' * last_i' <= i' * Len(index')
  <2>1. (i + 1) * Len(index) = i * Len(index) + Len(index) /\ i * Len(index) \in Nat
    BY <1>2, Z3
  <2>2. nshards * last_i \in Int
    BY <1>2, Z3
  <2>3. nshards * last_i <= (i + 1) * Len(index)
    BY <1>1, <1>2, <2>1, <2>2 DEF LoopCuts
  <2> QED BY <1>1, <2>3
<1>4. Len(shards_') <= i'
  BY <1>1, <1>2 DEF LoopCuts
<1>5. LoopCuts'
  <2>1. Chain(shards_)'
    BY <1>1, SameIndex DEF LoopCuts
  <2>2. shards_' # << >> => IsBelow(last_i, last_s)' /\ EndsAt(shards_[Len(shards_)], last_s, last_i)'
    BY <1>1, SameIndex DEF LoopCuts
  <2> QED BY <1>1, <1>3, <1>4, <2>1, <2>2 DEF LoopCuts
<1>6. InOrder'
  <2>1. \A path, j : ShardContains(shards_[j], path)' <=> ShardContains(shards_[j], path)
    BY <1>1 DEF ShardContains, Lt, Key, Leading
  <2>2. \A k, path : Lt(path, shards_[k].start_s)' <=> Lt(path, shards_[k].start_s)
    BY <1>1 DEF Lt, Key
  <2> QED BY <1>1, <2>1, <2>2 DEF InOrder
<1> QED BY <1>5, <1>6

\* There are at least as many entries as shards: a share is at least two.
LEMMA MostShards ==
    ASSUME NEW l \in Nat, NEW k \in Nat, k > 1, l > k
    PROVE  l \div k + 1 <= l
<1>1. PICK q : q = l \div k
  OBVIOUS
<1>2. q \in Nat /\ k * q <= l
  BY <1>1, Divided
<1>3. 2 * q <= k * q /\ k * q \in Nat
  BY <1>2, Z3
<1>4. 2 * q <= l
  BY <1>2, <1>3
<1>5. q + 1 <= l
  BY <1>2, <1>4
<1> QED BY <1>1, <1>5

LEMMA UpdateShardsChain ==
    ASSUME ShardsInv, NEW n \in Nat, NEW fold \in BOOLEAN, NEW threads \in PoolSizes,
           NEW entries \in [1..n -> Paths], UpdateShards(entries, fold, threads)
    PROVE  LoopCuts' /\ InOrder' /\ ChecksHold'
<1>1. /\ step = "idle" /\ insensitive' = fold /\ index' = entries
      /\ UNCHANGED <<i, last_s, last_i>>
  BY DEF UpdateShards
<1>2. /\ i = 0 /\ last_s = << >> /\ last_i = 0
  BY <1>1 DEF ShardsInv, Idle
<1>3. /\ entries \in Seq(Paths) /\ Len(entries) \in Nat
  BY SeqDef, LenProperties
<1>4. CASE Len(entries) <= kEntriesPerShard \/ threads < 2
  <2> DEFINE sh == [start_s |-> << >>, end_s |-> << >>, start_i |-> 0, end_i |-> Len(entries)]
  <2>1. shards_' = <<sh>> /\ step' = "cut" /\ nshards' = 1
    BY <1>4 DEF UpdateShards
  <2>2. /\ sh.start_s = << >> /\ sh.end_s = << >> /\ sh.start_i = 0 /\ sh.end_i = Len(entries)
    OBVIOUS
  <2> HIDE DEF sh
  <2>3. Len(shards_') = 1 /\ shards_'[1] = sh
    BY <2>1
  <2>4. InOrder'
    BY <2>3 DEF InOrder
  <2>5. ChecksHold'
    BY <1>1, <2>1, <2>2, <2>3 DEF ChecksHold
  <2>6. LoopCuts'
    BY <2>1 DEF LoopCuts
  <2> QED BY <2>4, <2>5, <2>6
<1>5. CASE ~(Len(entries) <= kEntriesPerShard \/ threads < 2)
  <2>1. PICK most : most = Len(entries) \div kEntriesPerShard + 1
    OBVIOUS
  <2>2. /\ shards_' = << >> /\ step' = "loop"
        /\ nshards' = IF most < 2 * threads THEN most ELSE 2 * threads
    BY <1>5, <2>1 DEF UpdateShards
  <2>3. /\ kEntriesPerShard \in Nat /\ kEntriesPerShard > 1 /\ Len(entries) > kEntriesPerShard
        /\ threads \in Nat
    BY <1>3, <1>5, ShardsAssumption
  <2>4. most \in Nat /\ most <= Len(entries)
    <3>1. Len(entries) \div kEntriesPerShard \in Nat
      BY <1>3, <2>3, Divided
    <3>2. most <= Len(entries)
      BY <1>3, <2>1, <2>3, MostShards
    <3> QED BY <2>1, <3>1, <3>2
  <2>5. nshards' \in Nat /\ nshards' <= Len(index')
    BY <1>1, <1>3, <2>2, <2>3, <2>4
  <2>6. nshards' * last_i' <= i' * Len(index')
    <3>1. \A a \in Nat : a * 0 = 0 /\ 0 * a = 0
      BY Z3
    <3> QED BY <1>1, <1>2, <1>3, <2>5, <3>1
  <2>7. Len(shards_') = 0 /\ Chain(shards_)'
    BY <2>2, EmptySeq DEF Chain
  <2>8. last_i' \in 0..(Len(index') - 1) /\ Len(shards_') <= i'
    BY <1>1, <1>2, <1>3, <2>3, <2>7
  <2>9. LoopCuts'
    BY <1>1, <1>2, <2>2, <2>5, <2>6, <2>7, <2>8 DEF LoopCuts
  <2>10. InOrder'
    BY <2>7 DEF InOrder
  <2>11. ChecksHold'
    BY <2>2 DEF ChecksHold, Cuts
  <2> QED BY <2>9, <2>10, <2>11
<1> QED BY <1>4, <1>5

-----------------------------------------------------------------------------
\* The candidates in a shard are above those in the shards before it.
LEMMA CandidatesAscend ==
    ASSUME ShardsInv, InOrder, NEW k \in 1..Len(shards_), NEW j \in 1..(k - 1),
           NEW p \in Paths, NEW q \in Paths,
           ShardContains(shards_[k], p), ShardContains(shards_[j], q)
    PROVE  Lt(q, p)
<1>1. /\ insensitive \in BOOLEAN /\ p \in String /\ q \in String /\ shards_[k] \in Shard
  BY ElementOfSeq, ShardsAssumption DEF ShardsInv, Typed
<1>2. Lt(q, shards_[k].start_s)
  BY DEF InOrder
<1>3. ~Lt(p, shards_[k].start_s)
  BY DEF ShardContains
<1>4. shards_[k].start_s \in String
  BY <1>1 DEF Shard
<1> QED BY <1>1, <1>2, <1>3, <1>4, LtSeparates

\* The candidates and what is known of those that have their scans.
LEMMA StayCandidates ==
    ASSUME UNCHANGED <<insensitive, shards_, paths>>
    PROVE  /\ SortedBy(paths)' <=> SortedBy(paths)
           /\ \A r, j : ShardContains(shards_[ranges[r].shard], paths[j])'
                         <=> ShardContains(shards_[ranges'[r].shard], paths[j])
<1>1. \A j : Lt(paths[j + 1], paths[j])' <=> Lt(paths[j + 1], paths[j])
  BY DEF Lt, Key
<1>2. \A r, j : ShardContains(shards_[ranges[r].shard], paths[j])'
                <=> ShardContains(shards_[ranges'[r].shard], paths[j])
  BY DEF ShardContains, Lt, Key, Leading
<1>3. SortedBy(paths)' <=> SortedBy(paths)
  BY <1>1 DEF SortedBy
<1> QED BY <1>2, <1>3

LEMMA StartDirtyScanRight ==
    ASSUME ShardsInv, ScanInv, ChecksHold, NEW n \in Nat, NEW candidates \in [1..n -> Paths],
           StartDirtyScan(candidates)
    PROVE  ScanInv' /\ CandidatesCovered'
<1>1. /\ step = "cut" /\ SortedBy(candidates) /\ paths' = candidates /\ step' = "scan"
      /\ UNCHANGED <<insensitive, index, nshards, shards_, shard, ranges>>
  BY DEF StartDirtyScan
<1>2. shard' = 1 /\ ranges' = << >> /\ Len(ranges') = 0
  BY <1>1, EmptySeq DEF ScanInv
<1>3. Len(shards_) \in 1..nshards /\ nshards \in Nat
  BY <1>1 DEF ChecksHold, Cuts, ShardsInv, Typed
<1>4. shard' \in 1..Len(shards_')
  BY <1>1, <1>2, <1>3
<1>5. paths' \in Seq(Paths) /\ Len(paths') \in Nat
  BY <1>1, SeqDef, LenProperties
<1>6. SortedBy(paths)'
  BY <1>1 DEF SortedBy, Lt, Key
<1>7. Given' = 0 /\ Given' \in 0..Len(paths')
  BY <1>2, <1>5 DEF Given
<1>8. ranges' \in Seq(Scans)
  BY <1>2, EmptySeq
<1>9. \A k \in 1..(shard' - 1) : FALSE
  BY <1>2
<1>10. ScanInv'
  BY <1>1, <1>2, <1>4, <1>5, <1>6, <1>7, <1>8, <1>9 DEF ScanInv
<1>11. CandidatesCovered'
  BY <1>2, <1>4 DEF CandidatesCovered
<1> QED BY <1>10, <1>11

\* There is a shard for the next candidate, and it is not behind the iterator.
LEMMA NextShardRight ==
    ASSUME ShardsInv, ScanInv, CandidatesCovered, NextShard
    PROVE  ScanInv' /\ CandidatesCovered'
<1>1. /\ step = "scan" /\ Given < Len(paths) /\ shard' = shard + 1
      /\ ~ShardContains(shards_[shard], paths[Given + 1])
      /\ UNCHANGED <<step, insensitive, shards_, paths, ranges>>
  BY DEF NextShard
<1>2. /\ paths \in Seq(Paths) /\ SortedBy(paths) /\ Len(paths) \in Nat
      /\ ranges \in Seq(Scans)
      /\ Given \in 0..Len(paths) /\ shard \in 1..Len(shards_) /\ Len(shards_) \in Nat
      /\ \A k \in 1..(shard - 1) : ~ShardContains(shards_[k], paths[Given + 1])
  BY <1>1, LenProperties DEF ScanInv, ShardsInv, Typed
<1>3. paths[Given + 1] \in Paths
  <2>1. Given + 1 \in 1..Len(paths)
    BY <1>1, <1>2
  <2> QED BY <1>2, <2>1, ElementOfSeq
<1>4. PICK k \in 1..Len(shards_) : ShardContains(shards_[k], paths[Given + 1])
  BY <1>1, <1>3 DEF ShardsInv, OneShardEach, Cuts
<1>5. shard' \in 1..Len(shards_')
  <2>1. k # shard /\ k \notin 1..(shard - 1)
    BY <1>1, <1>2, <1>4
  <2> QED BY <1>1, <1>2, <2>1
<1>6. Given' = Given
  BY <1>1 DEF Given
<1>8. \A j \in 1..(shard' - 1) : ~ShardContains(shards_[j], paths[Given + 1])
  <2>1. \A j \in 1..(shard' - 1) : j = shard \/ j \in 1..(shard - 1)
    BY <1>1, <1>2
  <2> QED BY <1>1, <1>2, <2>1
<1>9. ranges # << >> => ranges[Len(ranges)].shard <= shard /\ ranges[Len(ranges)].shard \in Nat
  <2>1. ranges # << >> => ranges[Len(ranges)] \in Scans
    <3>1. ranges # << >> => Len(ranges) \in 1..Len(ranges)
      BY <1>2, EmptySeq, LenProperties
    <3> QED BY <1>2, <3>1, ElementOfSeq
  <2> QED BY <1>1, <2>1 DEF ScanInv, Scans
<1>10. ranges # << >> => ranges[Len(ranges)].shard <= shard' /\ ranges[Len(ranges)].shard # shard'
  BY <1>1, <1>2, <1>9
<1>11. SortedBy(paths)'
  BY <1>1, <1>2, StayCandidates
<1>12. \A j : ShardContains(shards_[j], paths[Given + 1])' <=> ShardContains(shards_[j], paths[Given + 1])
  BY <1>1, <1>6 DEF ShardContains, Lt, Key, Leading
<1>13. ScanInv'
  BY <1>1, <1>2, <1>5, <1>6, <1>8, <1>10, <1>11, <1>12 DEF ScanInv
<1>14. CandidatesCovered'
  <2>1. \A r, j : ShardContains(shards_[ranges[r].shard], paths[j])'
                  <=> ShardContains(shards_[ranges'[r].shard], paths[j])
    BY <1>1, StayCandidates
  <2>2. \A r \in 1..Len(ranges') : \A j \in ranges'[r].first..ranges'[r].last :
           ShardContains(shards_[ranges'[r].shard], paths[j])
    BY <1>1 DEF CandidatesCovered
  <2>3. \A r \in 2..Len(ranges') : ranges'[r].shard > ranges'[r - 1].shard
    BY <1>1 DEF CandidatesCovered
  <2>4. shard' <= Len(shards_')
    BY <1>1, <1>2, <1>5
  <2> QED BY <2>1, <2>2, <2>3, <2>4 DEF CandidatesCovered
<1> QED BY <1>13, <1>14

\* A scan takes all the candidates that follow in its shard, and no more.
LEMMA RunScanRight ==
    ASSUME ShardsInv, InOrder, ScanInv, CandidatesCovered, RunScan
    PROVE  ScanInv' /\ CandidatesCovered'
<1>1. /\ step = "scan" /\ Given < Len(paths)
      /\ ShardContains(shards_[shard], paths[Given + 1])
      /\ UNCHANGED <<step, insensitive, index, nshards, shards_, paths, shard>>
  BY DEF RunScan
<1>2. PICK n \in (Given + 1)..Len(paths) :
         /\ \A j \in (Given + 1)..n : ShardContains(shards_[shard], paths[j])
         /\ n < Len(paths) => ~ShardContains(shards_[shard], paths[n + 1])
         /\ ranges' = Append(ranges, [shard |-> shard, first |-> Given + 1, last |-> n])
  BY DEF RunScan
<1> DEFINE r == [shard |-> shard, first |-> Given + 1, last |-> n]
<1>3. /\ paths \in Seq(Paths) /\ SortedBy(paths) /\ Len(paths) \in Nat
      /\ ranges \in Seq(Scans)
      /\ Given \in 0..Len(paths) /\ shard \in 1..Len(shards_) /\ Len(shards_) \in Nat
      /\ \A k \in 1..(shard - 1) : ~ShardContains(shards_[k], paths[Given + 1])
  BY <1>1, LenProperties DEF ScanInv, ShardsInv, Typed
<1>4. n \in 1..Len(paths) /\ n \in Nat /\ n \in (Given + 1)..n
  BY <1>2, <1>3
<1>5. /\ r \in Scans
      /\ r.shard = shard /\ r.first = Given + 1 /\ r.last = n
  BY <1>3, <1>4 DEF Scans
<1> HIDE DEF r
<1>6. /\ ranges' \in Seq(Scans) /\ ranges' # << >>
      /\ Len(ranges') = Len(ranges) + 1 /\ Len(ranges) \in Nat /\ ranges'[Len(ranges')] = r
      /\ \A k \in 1..Len(ranges) : ranges'[k] = ranges[k]
  <2>1. ranges' = Append(ranges, r)
    BY <1>2 DEF r
  <2>2. /\ ranges' \in Seq(Scans) /\ Len(ranges') = Len(ranges) + 1
        /\ ranges'[Len(ranges) + 1] = r /\ \A k \in 1..Len(ranges) : ranges'[k] = ranges[k]
    BY <1>3, <1>5, <2>1, AppendProperties
  <2>3. Len(ranges) \in Nat
    BY <1>3, LenProperties
  <2> QED BY <2>2, <2>3, EmptySeq
<1>7. Given' = n
  BY <1>5, <1>6 DEF Given
<1>8. ASSUME n < Len(paths), NEW k \in 1..(shard - 1), ShardContains(shards_[k], paths[n + 1])
      PROVE  FALSE
  <2>1. n + 1 \in 1..Len(paths) /\ n \in 1..(Len(paths) - 1)
    BY <1>3, <1>4, <1>8
  <2>2. paths[n] \in Paths /\ paths[n + 1] \in Paths
    BY <1>3, <1>4, <2>1, ElementOfSeq
  <2>3. ShardContains(shards_[shard], paths[n])
    BY <1>2, <1>4
  <2>4. Lt(paths[n + 1], paths[n])
    BY <1>3, <1>8, <2>2, <2>3, CandidatesAscend
  <2> QED BY <1>3, <2>1, <2>4 DEF SortedBy
<1>9. SortedBy(paths)'
  BY <1>1, <1>3, StayCandidates
<1>10. \A k : ShardContains(shards_[k], paths[Given + 1])' <=> ShardContains(shards_[k], paths[n + 1])
  BY <1>1, <1>7, SMTT(20) DEF ShardContains, Lt, Key, Leading
<1>11. ShardContains(shards_[shard], paths[Given + 1])' <=> ShardContains(shards_[shard], paths[n + 1])
  BY <1>1, <1>7, SMTT(20) DEF ShardContains, Lt, Key, Leading
<1>12. ScanInv'
  BY <1>1, <1>2, <1>3, <1>4, <1>5, <1>6, <1>7, <1>8, <1>9, <1>10, <1>11 DEF ScanInv
<1>13. ASSUME NEW k \in 1..Len(ranges')
       PROVE  \A j \in ranges'[k].first..ranges'[k].last :
                 ShardContains(shards_[ranges'[k].shard], paths[j])
  <2>1. CASE k = Len(ranges')
    BY <1>2, <1>5, <1>6, <2>1
  <2>2. CASE k # Len(ranges')
    <3>1. k \in 1..Len(ranges) /\ ranges'[k] = ranges[k]
      BY <1>6, <2>2
    <3> QED BY <3>1 DEF CandidatesCovered
  <2> QED BY <2>1, <2>2
<1>14. ASSUME NEW k \in 2..Len(ranges')
       PROVE  ranges'[k].shard > ranges'[k - 1].shard
  <2>1. CASE k = Len(ranges')
    <3>1. ranges # << >> /\ k - 1 = Len(ranges) /\ k - 1 \in 1..Len(ranges) /\ ranges'[k - 1] = ranges[Len(ranges)]
      BY <1>6, <2>1, EmptySeq
    <3>2. ranges[Len(ranges)].shard <= shard /\ ranges[Len(ranges)].shard # shard
      BY <1>1, <3>1 DEF ScanInv
    <3>3. ranges[Len(ranges)].shard \in Nat
      <4>1. ranges[Len(ranges)] \in Scans
        BY <1>3, <3>1, ElementOfSeq
      <4> QED BY <4>1 DEF Scans
    <3> QED BY <1>3, <1>5, <1>6, <2>1, <3>1, <3>2, <3>3
  <2>2. CASE k # Len(ranges')
    <3>1. /\ k \in 2..Len(ranges) /\ k \in 1..Len(ranges) /\ k - 1 \in 1..Len(ranges)
          /\ ranges'[k] = ranges[k] /\ ranges'[k - 1] = ranges[k - 1]
      BY <1>6, <2>2
    <3> QED BY <3>1 DEF CandidatesCovered
  <2> QED BY <2>1, <2>2
<1>15. CandidatesCovered'
  <2>1. \A k, j : ShardContains(shards_[ranges[k].shard], paths[j])'
                  <=> ShardContains(shards_[ranges'[k].shard], paths[j])
    BY <1>1, StayCandidates
  <2>2. shards_' # << >> => shard' <= Len(shards_')
    BY <1>1, <1>3
  <2> QED BY <1>13, <1>14, <2>1, <2>2 DEF CandidatesCovered
<1> QED BY <1>12, <1>15

\* The iterator and the scans stay as they are.
LEMMA StayScan ==
    ASSUME ShardsInv, ScanInv, CandidatesCovered,
           UNCHANGED <<insensitive, shards_, paths, shard, ranges>>,
           step' = step \/ (step = "scan" /\ step' = "scanned")
    PROVE  ScanInv' /\ CandidatesCovered'
<1>1. Given' = Given
  BY DEF Given
<1>2. \A k : ShardContains(shards_[k], paths[Given + 1])' <=> ShardContains(shards_[k], paths[Given + 1])
  BY <1>1 DEF ShardContains, Lt, Key, Leading
<1>3. ShardContains(shards_[shard], paths[Given + 1])' <=> ShardContains(shards_[shard], paths[Given + 1])
  BY <1>1 DEF ShardContains, Lt, Key, Leading
<1>4. SortedBy(paths)' <=> SortedBy(paths)
  BY StayCandidates
<1>5. ScanInv'
  BY <1>1, <1>2, <1>3, <1>4 DEF ScanInv
<1>6. \A k, j : ShardContains(shards_[ranges[k].shard], paths[j])'
                <=> ShardContains(shards_[ranges'[k].shard], paths[j])
  BY StayCandidates
<1>7. CandidatesCovered'
  BY <1>6 DEF CandidatesCovered
<1> QED BY <1>5, <1>7

-----------------------------------------------------------------------------
(* The ranges of a cut join, and what has been given to the scans comes    *)
(* before what has not, in the order of the shards.                        *)
THEOREM RightInvariant == ShardsSpec => []RightInv
<1>1. ShardsInit => RightInv
  <2> SUFFICES ASSUME ShardsInit PROVE RightInv
    OBVIOUS
  <2>1. Len(shards_) = 0 /\ Len(ranges) = 0
    BY EmptySeq DEF ShardsInit
  <2>3. step = "idle" /\ shard = 1 /\ ranges = << >> /\ shards_ = << >>
    BY DEF ShardsInit
  <2>4. LoopCuts /\ ChecksHold
    BY <2>3 DEF LoopCuts, ChecksHold, Cuts
  <2>5. InOrder
    BY <2>1 DEF InOrder
  <2>6. ScanInv
    BY <2>3 DEF ScanInv
  <2>7. CandidatesCovered
    BY <2>1, <2>3 DEF CandidatesCovered
  <2> QED BY <2>4, <2>5, <2>6, <2>7 DEF RightInv
<1>2. ShardsInv /\ ShardsInv' /\ RightInv /\ [ShardsNext]_shardsVars => RightInv'
  <2> SUFFICES ASSUME ShardsInv, ShardsInv', RightInv, [ShardsNext]_shardsVars
               PROVE  RightInv'
    OBVIOUS
  <2>0. LoopCuts /\ InOrder /\ ScanInv /\ ChecksHold /\ CandidatesCovered
    BY DEF RightInv
  <2>1. shards_' \in Seq(Shard)
    BY DEF ShardsInv, Typed
  <2>2. CASE step = "idle" /\ \E n \in 0..MaxIndexSize, fold \in BOOLEAN, threads \in PoolSizes :
                \E entries \in [1..n -> Paths] : UpdateShards(entries, fold, threads)
    <3>1. PICK n \in 0..MaxIndexSize, fold \in BOOLEAN, threads \in PoolSizes :
             \E entries \in [1..n -> Paths] : UpdateShards(entries, fold, threads)
      BY <2>2
    <3>2. PICK entries \in [1..n -> Paths] : UpdateShards(entries, fold, threads)
      BY <3>1
    <3>3. n \in Nat
      BY ShardsAssumption
    <3>4. LoopCuts' /\ InOrder' /\ ChecksHold'
      BY <3>2, <3>3, UpdateShardsChain
    <3>5. step = "idle" /\ step' \in {"cut", "loop"} /\ UNCHANGED <<shard, ranges>>
      BY <3>2 DEF UpdateShards
    <3>6. ScanInv' /\ CandidatesCovered'
      BY <2>0, <2>1, <3>5, NotScanning
    <3> QED BY <3>4, <3>6 DEF RightInv
  <2>3. CASE Cut \/ NoCut \/ LastCut
    <3>1. LoopCuts' /\ InOrder'
      BY <2>0, <2>3, CutChain, NoCutChain, LastCutChain
    <3>2. step = "loop" /\ step' \in {"cut", "loop"} /\ UNCHANGED <<shard, ranges>>
      BY <2>3 DEF Cut, NoCut, LastCut
    <3>3. ChecksHold'
      <4>1. CASE LastCut
        BY <2>0, <4>1, LastCutChain
      <4>2. CASE Cut \/ NoCut
        BY <4>2 DEF Cut, NoCut, ChecksHold, Cuts
      <4> QED BY <2>3, <4>1, <4>2
    <3>4. ScanInv' /\ CandidatesCovered'
      BY <2>0, <2>1, <3>2, NotScanning
    <3> QED BY <3>1, <3>3, <3>4 DEF RightInv
  <2>4. CASE \/ /\ step = "cut"
                /\ \E n \in 0..MaxCandidates :
                      \E candidates \in [1..n -> Paths] : StartDirtyScan(candidates)
             \/ NextShard \/ RunScan \/ Scanned
    <3>1. /\ step \in {"cut", "scan"} /\ step' \in {"scan", "scanned"}
          /\ UNCHANGED <<insensitive, index, nshards, i, last_s, last_i, shards_>>
      BY <2>4 DEF StartDirtyScan, NextShard, RunScan, Scanned
    <3>2. LoopCuts'
      BY <3>1 DEF LoopCuts
    <3>3. InOrder' /\ ChecksHold'
      BY <2>0, <3>1, StayCuts DEF Cuts
    <3>4. ScanInv' /\ CandidatesCovered'
      <4>1. CASE \E n \in 0..MaxCandidates :
                    \E candidates \in [1..n -> Paths] : StartDirtyScan(candidates)
        <5>1. PICK n \in 0..MaxCandidates :
                 \E candidates \in [1..n -> Paths] : StartDirtyScan(candidates)
          BY <4>1
        <5>2. n \in Nat
          BY ShardsAssumption
        <5> QED BY <2>0, <5>1, <5>2, StartDirtyScanRight
      <4>2. CASE NextShard
        BY <2>0, <4>2, NextShardRight
      <4>3. CASE RunScan
        BY <2>0, <4>3, RunScanRight
      <4>4. CASE Scanned
        <5>1. /\ UNCHANGED <<insensitive, shards_, paths, shard, ranges>>
              /\ step = "scan" /\ step' = "scanned"
          BY <4>4 DEF Scanned
        <5> QED BY <2>0, <5>1, StayScan
      <4> QED BY <2>4, <4>1, <4>2, <4>3, <4>4
    <3> QED BY <3>2, <3>3, <3>4 DEF RightInv
  <2>5. CASE UNCHANGED shardsVars
    <3>1. UNCHANGED <<step, insensitive, index, nshards, i, last_s, last_i, shards_, paths, shard, ranges>>
      BY <2>5 DEF shardsVars
    <3>2. ScanInv' /\ CandidatesCovered'
      BY <2>0, <3>1, StayScan
    <3>3. LoopCuts'
      <4>1. Chain(shards_)' <=> Chain(shards_)
        BY <3>1, SameIndex
      <4>2. IsBelow(last_i, last_s)' <=> IsBelow(last_i, last_s)
        BY <3>1, SameIndex
      <4>3. EndsAt(shards_[Len(shards_)], last_s, last_i)' <=> EndsAt(shards_[Len(shards_)], last_s, last_i)
        BY <3>1, SameIndex
      <4> QED BY <2>0, <3>1, <4>1, <4>2, <4>3 DEF LoopCuts
    <3>4. InOrder'
      <4>1. \A path, j : ShardContains(shards_[j], path)' <=> ShardContains(shards_[j], path)
        BY <3>1 DEF ShardContains, Lt, Key, Leading
      <4>2. \A k, path : Lt(path, shards_[k].start_s)' <=> Lt(path, shards_[k].start_s)
        BY <3>1 DEF Lt, Key
      <4> QED BY <2>0, <3>1, <4>1, <4>2 DEF InOrder
    <3>5. ChecksHold'
      <4>1. CASE Cuts
        BY <2>0, <3>1, <4>1, StayCuts
      <4>2. CASE ~Cuts
        BY <3>1, <4>2 DEF ChecksHold, Cuts
      <4> QED BY <4>1, <4>2
    <3> QED BY <3>2, <3>3, <3>4, <3>5 DEF RightInv
  <2> QED BY <2>2, <2>3, <2>4, <2>5 DEF ShardsNext
<1> QED BY <1>1, <1>2, ShardsInvariant, PTL DEF ShardsSpec

(* For any index: the CHECKs of UpdateShards hold, StartDirtyScan finds a  *)
(* shard for each candidate without running past the last one, and starts  *)
(* one scan at most for each shard, for paths that are in it.              *)
THEOREM ShardsAlwaysRight == ShardsSpec => []ShardsRight
<1>1. RightInv => ShardsRight
  BY DEF RightInv, ShardsRight
<1> QED BY RightInvariant, <1>1, PTL
===============================================================================
